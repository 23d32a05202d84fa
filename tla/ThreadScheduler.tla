-------------------------- MODULE ThreadScheduler --------------------------
(***************************************************************************)
(* What the class Scheduler of the driver promises to the program: a thread *)
(* is running, ready or suspended, the ready ones wait in the order of      *)
(* their priorities, and each method, or preemption by the timer, is one    *)
(* step.  last is the method that returned last, until the next is called.  *)
(***************************************************************************)
EXTENDS Integers, Sequences, FiniteSets

CONSTANTS Objects,
          Prio        \* the priority of each object, the smaller the better

VARIABLES runs,       \* the running object, 0 for none
          queue,      \* the ready ones, the next to run first
          known,      \* the objects inserted and not removed
          last        \* [op, obj, answer]

tsVars == <<runs, queue, known, last>>

InQueue(obj) == \E i \in DOMAIN queue : queue[i] = obj
Suspended(obj) == obj \in known /\ obj # runs /\ ~InQueue(obj)
Returned(op, obj, answer) == last' = [op |-> op, obj |-> obj, answer |-> answer]

\* Behind the entries of q that are at least as good, first come first served.
Behind(q, obj) ==
  LET n == Cardinality({i \in DOMAIN q : Prio[q[i]] <= Prio[obj]})
  IN SubSeq(q, 1, n) \o <<obj>> \o SubSeq(q, n + 1, Len(q))

\* q without obj, the others in their order.
Drop(q, obj) ==
  LET n == CHOOSE i \in DOMAIN q : q[i] = obj
  IN IF \E i \in DOMAIN q : q[i] = obj
     THEN [i \in 1..(Len(q) - 1) |-> IF i < n THEN q[i] ELSE q[i + 1]]
     ELSE q

\* The next ready object runs, or none.
RunNext ==
  IF queue = <<>> THEN runs' = 0 /\ queue' = <<>>
  ELSE runs' = Head(queue) /\ queue' = Tail(queue)

TSReset ==
  /\ runs' = 0
  /\ queue' = <<>>
  /\ known' = {}
  /\ Returned("reset", 0, 0)

TSInsert(obj) ==
  /\ obj \notin known
  /\ known' = known \cup {obj}
  /\ IF runs = 0 THEN runs' = obj /\ UNCHANGED queue
     ELSE queue' = Behind(queue, obj) /\ UNCHANGED runs
  /\ Returned("insert", obj, 0)

TSRemove(obj) ==
  /\ known' = known \ {obj}
  /\ IF obj = runs THEN RunNext ELSE queue' = Drop(queue, obj) /\ UNCHANGED runs
  /\ Returned("remove", obj, IF obj \in known THEN obj ELSE 0)

TSSuspend(obj) ==
  /\ IF obj = runs THEN RunNext ELSE queue' = Drop(queue, obj) /\ UNCHANGED runs
  /\ UNCHANGED known
  /\ Returned("suspend", obj, 0)

TSResume(obj) ==
  /\ Suspended(obj)
  /\ queue' = Behind(queue, obj)
  /\ UNCHANGED <<runs, known>>
  /\ Returned("resume", obj, 0)

\* The running object joins the queue, and then the best one runs.
TSChoose ==
  /\ runs # 0
  /\ LET q == Behind(queue, runs)
     IN /\ runs' = Head(q)
        /\ queue' = Tail(q)
        /\ Returned("choose", 0, Head(q))
  /\ UNCHANGED known

\* The next one runs even if the running one is better.
SwitchToNext ==
  /\ runs # 0
  /\ queue # <<>>
  /\ runs' = Head(queue)
  /\ queue' = Behind(Tail(queue), runs)
  /\ UNCHANGED known

TSChooseAnother == SwitchToNext /\ Returned("choose_another", 0, Head(queue))

TSChooseThis(obj) ==
  /\ runs # 0
  /\ IF InQueue(obj) THEN runs' = obj /\ queue' = Behind(Drop(queue, obj), runs)
     ELSE UNCHANGED <<runs, queue>>
  /\ UNCHANGED known
  /\ Returned("choose_this", obj, IF InQueue(obj) THEN obj ELSE 0)

\* The timer takes the processor from the running object for one that is at least as good.
TSPreempt ==
  /\ SwitchToNext
  /\ Prio[Head(queue)] <= Prio[runs]
  /\ UNCHANGED last

\* The program calls its next method and is done with the answer of the last.
TSCall == Returned("none", 0, 0) /\ UNCHANGED <<runs, queue, known>>

\* The methods that only ask, or only set up the timer, with their answers.
TSAsk(op) ==
  /\ Returned(op, 0, CASE op = "chosen" -> runs
                       [] op = "schedulables" -> Len(queue) + 1
                       [] OTHER -> 0)
  /\ UNCHANGED <<runs, queue, known>>

TSInit ==
  /\ runs = 0
  /\ queue = <<>>
  /\ known = {}
  /\ last = [op |-> "none", obj |-> 0, answer |-> 0]

TSNext ==
  \/ TSCall
  \/ TSReset
  \/ \E obj \in Objects : \/ TSInsert(obj) \/ TSRemove(obj) \/ TSSuspend(obj)
                          \/ TSResume(obj) \/ TSChooseThis(obj)
  \/ TSChoose
  \/ TSChooseAnother
  \/ TSPreempt
  \/ \E op \in {"chosen", "schedulables", "start", "reset_quantum", "set_quantum",
                "enable_schedule", "disable_schedule"} : TSAsk(op)

TSSpec == TSInit /\ [][TSNext]_tsVars
=============================================================================
