----------------------------- MODULE UnitTests -----------------------------
(***************************************************************************)
(* The unit tests of the repository, software/unit_test/main.c, run on the  *)
(* model of the component: the processor of SchedulerInterface makes the    *)
(* calls of the tests, one test after the other, and keeps their verdicts.  *)
(* A reset of the system starts them again.                                 *)
(***************************************************************************)
EXTENDS SchedulerInterface

CONSTANT MaxResets    \* bounds the resets of the system

ASSUME MaxResetsAssumption == MaxResets \in Nat

VARIABLES
  test,       \* the place in Suite of the test in progress
  results,    \* what its calls of execute_cmd have returned
  failing,    \* the places of the tests that have failed
  resets

testVars == <<busVars, test, results, failing, resets>>

-----------------------------------------------------------------------------
(***************************************************************************)
(* A test: its calls, those among them that end it when they return -1, and *)
(* the condition it checks in the end.                                      *)
(***************************************************************************)
Test(calls, vital, passed) == [calls |-> calls, vital |-> vital, passed |-> passed]

\* The result of the i-th call.
R(i) == IF i <= Len(results) THEN results[i] ELSE 0

Do(cmd) == [cmd |-> cmd, priority |-> 0, param |-> 0]
With(cmd, param) == [cmd |-> cmd, priority |-> 0, param |-> param]
CreateAt(priority, obj) == [cmd |-> "CREATE", priority |-> priority, param |-> obj]
InsertAt(priority, tid) == [cmd |-> "INSERT", priority |-> priority, param |-> tid]

\* How many of the tests begin: one thread, created and inserted; the table filled.
OneQueued == <<Do("RESET"), CreateAt(1, 100), InsertAt(1, R(2))>>
TableFilled == <<Do("RESET")>> \o [i \in 1..8 |-> CreateAt(1, i * 100)]

\* The bits of the status register, read while no command runs.
Empty == s_head_tid = 0
Enabled == s_schedule_enabled

Test1 == Test(<<Do("RESET"), CreateAt(1, 100)>>, {}, R(2) # -1)
Test2 == Test(TableFilled, 2..9, TRUE)
Test3 == Test(TableFilled \o <<CreateAt(1, 900)>>, 2..9, R(10) = -1)
Test4 == Test(<<>>, {}, Empty)
Test5 == Test(<<Do("RESET"), CreateAt(1, 100)>>, {}, Empty)
Test6 == Test(OneQueued, {}, ~Empty)
Test7 == Test(<<Do("RESET"), CreateAt(1, 100), With("DESTROY", R(2)), With("GETID", 1)>>,
              {}, R(4) < 0)
Test8 == Test(OneQueued \o <<With("DESTROY", R(2)), With("GETID", 100)>>,
              {}, R(5) < 0 /\ Empty)
Test9 == Test(TableFilled \o <<With("DESTROY", 3), CreateAt(1, 900)>>,
              2..9, ~(R(11) = -1 /\ R(11) # 3))
Test10 == Test(<<Do("RESET"), With("GETID", 100)>>, {}, R(2) = -1)
Test11 == Test(<<Do("RESET"), CreateAt(0, 100), With("GETID", 100)>>,
               {}, R(3) # -1 /\ R(3) = R(2))
Test12 == Test(<<Do("RESET"), Do("SIZE")>>, {}, R(2) = 1)
Test13 == Test(<<Do("RESET"), CreateAt(0, 100), Do("SIZE")>>, {}, R(3) = 1)
Test14 == Test(OneQueued \o <<Do("SIZE")>>, {}, R(4) = 2)
Test15 == Test(OneQueued \o <<With("REMOVE", R(2)), Do("SIZE")>>, {}, R(5) = 1)
Test16 == Test(OneQueued \o <<With("DESTROY", R(2)), Do("SIZE")>>, {}, R(5) = 1)
Test17 == Test(OneQueued \o <<CreateAt(1, 200), InsertAt(1, R(4)), Do("REMOVE_HEAD"),
                              Do("SIZE")>>, {}, R(7) = 2)
Test18 == Test(<<Do("RESET"), Do("ENABLE")>>, {2}, Enabled)
Test19 == Test(<<Do("RESET"), Do("ENABLE"), Do("DISABLE")>>, {2, 3}, ~Enabled)
Test22 == Test(OneQueued \o <<With("REMOVE", R(2)), With("GETID", 100)>>,
               {3, 4}, R(5) = R(2))
Test23 == Test(OneQueued \o <<Do("SIZE"), With("REMOVE", R(2) - 1), Do("SIZE")>>,
               {3, 5}, R(4) = R(6))
Test24 == Test(<<Do("RESET"), Do("CHOSEN")>>, {}, R(2) = 0)
Test25 == Test(OneQueued \o <<With("UPDATE_RUNNING", R(2)), Do("CHOSEN")>>,
               {3}, R(5) = 100)
Test26 == Test(OneQueued \o <<CreateAt(1, 200), InsertAt(1, R(4)),
                              With("UPDATE_RUNNING", R(2)), Do("CHOSEN"),
                              With("UPDATE_RUNNING", R(4)), Do("CHOSEN")>>,
               {3, 5}, R(7) = 100 /\ R(9) = 200)

\* What main() calls: tests 20 and 21 are commented out there.
Suite == <<Test1, Test2, Test3, Test4, Test5, Test6, Test7, Test8, Test9, Test10, Test11,
           Test12, Test13, Test14, Test15, Test16, Test17, Test18, Test19,
           Test22, Test23, Test24, Test25, Test26>>

-----------------------------------------------------------------------------
Between == at \in {"boot", "ready"}
Running == test <= Len(Suite)

GivesUp == \E i \in Suite[test].vital : i <= Len(results) /\ results[i] = -1
CallsDone == Len(results) = Len(Suite[test].calls)

NextCall ==
  /\ Running
  /\ ~GivesUp
  /\ ~CallsDone
  /\ Begin(Suite[test].calls[Len(results) + 1])
  /\ UNCHANGED <<test, results, failing, resets>>

CallGoesOn ==
  /\ Access
  /\ results' = IF at' = "ready" THEN Append(results, result') ELSE results
  /\ UNCHANGED <<test, failing, resets>>

\* The test has its verdict, and the next one begins.
Verdict ==
  /\ Running
  /\ Between
  /\ CanAccess
  /\ GivesUp \/ CallsDone
  /\ failing' = IF GivesUp \/ ~Suite[test].passed THEN failing \cup {test} ELSE failing
  /\ test' = test + 1
  /\ results' = <<>>
  /\ UNCHANGED resets
  /\ Quiet

EdgePasses == Quiet /\ UNCHANGED <<test, results, failing, resets>>

\* The program starts again; what has failed before is remembered.
Restart ==
  /\ resets < MaxResets
  /\ resets' = resets + 1
  /\ SystemReset
  /\ test' = 1
  /\ results' = <<>>
  /\ UNCHANGED failing

TestInit ==
  /\ BusInit
  /\ test = 1
  /\ results = <<>>
  /\ failing = {}
  /\ resets = 0

TestNext == NextCall \/ CallGoesOn \/ Verdict \/ EdgePasses \/ Restart

TestSpec == /\ TestInit
            /\ [][TestNext]_testVars
            /\ WF_testVars(NextCall \/ Verdict)
            /\ WF_testVars(CallGoesOn)
            /\ WF_testVars(EdgePasses)

-----------------------------------------------------------------------------
\* The model behaves as the repository's tests expect of the hardware, with the eight
\* rows of the real table, also if a reset in any edge starts them again.
EveryTestPasses == failing = {}

\* No call of a test hangs: the suite comes to its end.
SuiteEnds == <>(test > Len(Suite))
=============================================================================
