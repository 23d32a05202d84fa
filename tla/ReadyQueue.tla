----------------------------- MODULE ReadyQueue -----------------------------
(***************************************************************************)
(* What the scheduler block promises its client, without clock, links or    *)
(* searches: a table of threads and a ready queue kept in the order of the  *)
(* priorities (the smaller first), first come first served among equals.    *)
(* Every operation is one step.  reply is what a client reads at the        *)
(* address of p_return once its operation is done.  CommandedQueue says     *)
(* when the operation of a command happens.                                 *)
(***************************************************************************)
EXTENDS Integers, Sequences

CONSTANTS Threads,    \* thread identifiers, positive integers
          Objects, Keys

VARIABLES object,     \* the object of each thread, 0 for a free identifier
          created,    \* the identifiers in use
          ready,      \* the queue: a sequence of entries [tid, key]
          running,    \* the running thread, 0 for none
          reply

rqVars == <<object, created, ready, running, reply>>

Entry == [tid : Threads, key : Keys]

\* The entries that stay in front of a new one with this key.
FrontLength(key) ==
  LET fits == {n \in 0..Len(ready) : \A i \in 1..n : ready[i].key <= key}
  IN CHOOSE n \in fits : \A m \in fits : m <= n

Placed(entry) ==
  LET n == FrontLength(entry.key)
  IN SubSeq(ready, 1, n) \o <<entry>> \o SubSeq(ready, n + 1, Len(ready))

IsReady(tid) == \E i \in 1..Len(ready) : ready[i].tid = tid

Without(tid) ==
  LET n == CHOOSE i \in 1..Len(ready) : ready[i].tid = tid
  IN IF IsReady(tid) THEN SubSeq(ready, 1, n - 1) \o SubSeq(ready, n + 1, Len(ready))
     ELSE ready

RQInit ==
  /\ object = [t \in Threads |-> 0]
  /\ created = {}
  /\ ready = <<>>
  /\ running = 0
  /\ reply = 0

RQCreate(obj) ==
  \E tid \in Threads \ created :
    /\ created' = created \cup {tid}
    /\ object' = [object EXCEPT ![tid] = obj]
    /\ reply' = tid
    /\ UNCHANGED <<ready, running>>

\* The thread leaves the queue too.  The reply of a DESTROY is 0 if it did, and
\* whatever was there before if the thread was not queued.
RQDestroy(tid) ==
  /\ created' = created \ {tid}
  /\ object' = [object EXCEPT ![tid] = 0]
  /\ ready' = Without(tid)
  /\ reply' = IF IsReady(tid) THEN 0 ELSE reply
  /\ UNCHANGED running

\* The reply is the identifier, except that an insertion into the empty queue
\* leaves the old reply.
RQEnqueue(tid, key) ==
  /\ ~IsReady(tid)
  /\ ready' = Placed([tid |-> tid, key |-> key])
  /\ reply' = IF ready = <<>> THEN reply ELSE tid
  /\ UNCHANGED <<object, created, running>>

RQDequeue(tid) ==
  /\ ready' = Without(tid)
  /\ reply' = IF IsReady(tid) THEN object[tid] ELSE 0
  /\ UNCHANGED <<object, created, running>>

RQDequeueHead ==
  /\ ready' = IF ready = <<>> THEN <<>> ELSE Tail(ready)
  /\ reply' = IF ready = <<>> THEN 0 ELSE object[Head(ready).tid]
  /\ UNCHANGED <<object, created, running>>

RQSetRunning(tid) ==
  /\ running' = tid
  /\ UNCHANGED <<object, created, ready, reply>>

\* The smallest identifier with this object, 0 if there is none.
RQGetId(obj) ==
  LET owners == {t \in Threads : object[t] = obj}
  IN /\ \/ owners = {} /\ reply' = 0
        \/ reply' \in owners /\ \A t \in owners : reply' <= t
     /\ UNCHANGED <<object, created, ready, running>>

RQChosen ==
  /\ reply' = IF running = 0 THEN 0 ELSE object[running]
  /\ UNCHANGED <<object, created, ready, running>>

\* One more than the number of ready threads.
RQSize ==
  /\ reply' = Len(ready) + 1
  /\ UNCHANGED <<object, created, ready, running>>

RQReset ==
  /\ object' = [t \in Threads |-> 0]
  /\ created' = {}
  /\ ready' = <<>>
  /\ running' = 0
  /\ reply' = 0

-----------------------------------------------------------------------------
(***************************************************************************)
(* A command, as a client gives it, and its operation.                      *)
(***************************************************************************)
NoRequest == [cmd |-> "NONE", priority |-> 0, param |-> 0]

TimerControls == {"SET_QUANTUM", "RSTICKS", "ENABLE", "DISABLE", "INT_ACK"}

Found(obj) == \E t \in Threads : object[t] = obj

\* The command changes nothing and the client is told so by the error bit.  A GETID
\* that is refused answers 0 all the same.
Refuses(r) == \/ r.cmd = "CREATE" /\ created = Threads
              \/ r.cmd = "GETID" /\ ~Found(r.param)

\* What the command r does, with its own parameter.
Serves(r) ==
  \/ /\ r.cmd = "CREATE"
     /\ IF created = Threads THEN UNCHANGED rqVars ELSE RQCreate(r.param)
  \/ r.cmd = "DESTROY" /\ RQDestroy(r.param)
  \/ r.cmd = "INSERT" /\ RQEnqueue(r.param, r.priority)
  \/ r.cmd = "REMOVE" /\ RQDequeue(r.param)
  \/ r.cmd = "REMOVE_HEAD" /\ RQDequeueHead
  \/ r.cmd = "UPDATE_RUNNING" /\ RQSetRunning(r.param)
  \/ r.cmd = "GETID" /\ RQGetId(r.param)
  \/ r.cmd = "CHOSEN" /\ RQChosen
  \/ r.cmd = "SIZE" /\ RQSize
  \/ r.cmd = "RESET" /\ RQReset
  \/ r.cmd \in TimerControls /\ UNCHANGED rqVars
=============================================================================
