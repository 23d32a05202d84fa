--------------------------- MODULE SchedulerQueue ---------------------------
(***************************************************************************)
(* The block implements CommandedQueue.  The queue is read off the links; an *)
(* INSERT takes effect when the thread is linked, a GETID when the search is *)
(* over, a REMOVE when the links let go of the thread and a DESTROY when the *)
(* thread is freed, one edge before that; all others when they are accepted. *)
(***************************************************************************)
EXTENDS Scheduler, Sequences

\* The n-th thread from the head, counting from 0; 0 past the tail.
Walk[n \in 0..MaxThreads] ==
  IF n = 0 THEN s_head_tid
  ELSE IF Walk[n - 1] = 0 THEN 0
  ELSE s_next_table[Walk[n - 1]]

\* The n-th thread that stays, counting from 1: the walk skips the one that leaves.
Waiting(n) ==
  IF Leaving /\ \E m \in 0..(n - 1) : Walk[m] = s_command_tid THEN Walk[n] ELSE Walk[n - 1]

ReadyEntries ==
  [n \in 1..Cardinality({n \in 1..MaxThreads : Waiting(n) # 0}) |->
     [tid |-> Waiting(n), key |-> s_order_table[Waiting(n)]]]

\* History: the command that is being executed, as the client gave it.
VARIABLE asked

NoRequest == [cmd |-> "NONE", priority |-> 0, param |-> 0]

Requests ==
  UNION {[cmd : {"CREATE"}, priority : Priorities, param : Objects],
         [cmd : {"INSERT"}, priority : Priorities, param : Tids],
         [cmd : {"DESTROY", "REMOVE"}, priority : {0}, param : Tids],
         [cmd : {"UPDATE_RUNNING"}, priority : {0}, param : Tids0],
         [cmd : {"SET_QUANTUM"}, priority : {0}, param : Quanta],
         [cmd : {"GETID"}, priority : {0}, param : Lookups],
         [cmd : {"REMOVE_HEAD", "RSTICKS", "ENABLE", "DISABLE", "INT_ACK", "CHOSEN",
                 "SIZE", "RESET"}, priority : {0}, param : {0}]}

AskedInit == Init /\ asked = NoRequest

Ask(r) ==
  /\ r.cmd = "INSERT" => r.param \in Insertable
  /\ Executes(r.cmd, r.priority, r.param)
  /\ asked' = r

Tick ==
  /\ Clock
  /\ asked' = IF s_state' = "idle" THEN NoRequest ELSE asked

AskedNext ==
  \/ \E r \in Requests : Ask(r)
  \/ Tick
  \/ PinReset /\ asked' = NoRequest

AskedSpec == AskedInit /\ [][AskedNext]_<<vars, asked>>

\* In these states the operation of the command has still to happen.
Pending ==
  \/ s_state \in {"preinsert", "insert", "pregetid", "getid", "destroy"}
  \/ s_state = "remove" /\ ~Leaving

Performed == s_state # "idle" /\ ~Pending
Refused == s_error \/ s_state = "exit_error"

RQ == INSTANCE CommandedQueue WITH
        Threads <- Tids, Objects <- Objects, Keys <- Priorities,
        Requests <- Requests,
        object    <- s_obj_table,
        created   <- s_tid_bitmap,
        ready     <- ReadyEntries,
        running   <- s_running_tid,
        reply     <- IF Leaving THEN 0 ELSE s_return,
        command   <- asked,
        performed <- Performed,
        failed    <- Refused,
        done      <- s_done

\* Each command a client gives has the effect of its own operation on its own thread
\* and priority, once, between its acceptance and the rise of done; its reply and its
\* error bit are those of that operation; and between two commands, in the other edges
\* of a command, and whatever the links, the searches and p_reset left, nothing that a
\* client could see changes.
ImplementsReadyQueue == RQ!CQSpec
=============================================================================
