-------------------------------- MODULE Demo --------------------------------
(***************************************************************************)
(* The demonstration program, main() of scheduler_v2/main.cpp, on the       *)
(* driver: nine objects for the eight rows of the table, and in the end the *)
(* timer and the interrupt handler alone.                                   *)
(***************************************************************************)
EXTENDS Driver, TLC

CONSTANTS t1, t2, t3, t4, t5, t6, t7, t8, t9

VARIABLE place    \* of the next call in Program

demoVars == <<driverVars, place>>

Priority ==
  t1 :> 1 @@ t2 :> 2 @@ t3 :> 3 @@ t4 :> 4 @@ t5 :> 5
  @@ t6 :> 7 @@ t7 :> 7 @@ t8 :> 7 @@ t9 :> 7

All(method, objs) == [i \in DOMAIN objs |-> <<method, objs[i]>>]
Only(method) == <<method, 0>>

Program ==
  All("insert", <<t1, t2, t3, t4, t5, t6, t7, t8>>)
  \o <<Only("schedulables"), Only("choose"), Only("choose"),
       Only("choose_another"), Only("choose_another")>>
  \o All("suspend", <<t1, t2>>)
  \o <<Only("choose"), <<"choose_this", t8>>, Only("chosen"),
       <<"remove", t8>>, Only("chosen"), <<"resume", t1>>, Only("choose")>>
  \o All("remove", <<t1, t2>>)
  \o <<Only("schedulables"), Only("choose")>>
  \o All("remove", <<t3, t4, t5>>)
  \o <<<<"insert", t9>>, Only("schedulables"), Only("start")>>

NextCallOfProgram ==
  /\ place <= Len(Program)
  /\ Call(Program[place][1], Program[place][2])
  /\ place' = place + 1

DemoInit == DriverInit /\ place = 1

DemoNext ==
  \/ NextCallOfProgram
  \/ Machine /\ UNCHANGED place
  \/ Loop /\ UNCHANGED place

DemoSpec == DemoInit /\ [][DemoNext]_demoVars
                     /\ WF_demoVars(NextCallOfProgram \/ (Machine /\ UNCHANGED place))

-----------------------------------------------------------------------------
\* The program calls execute() on what chosen(), choose() and choose_another() return
\* without looking at it: there always is an object, although the running thread has
\* been suspended or removed several times.
ReturnsObjects ==
  seen.last.op \in {"chosen", "choose", "choose_another"} => seen.last.answer \in Objects

\* The program gets to its event loop, and there the three threads it has left take
\* turns for ever.
TakeTurns == \A obj \in {t6, t7, t9} : []<>(started /\ Runs(obj))
=============================================================================
