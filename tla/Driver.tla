------------------------------- MODULE Driver -------------------------------
(***************************************************************************)
(* The class Scheduler of scheduler_v2/Scheduler.h between the program and  *)
(* the component: its methods, run by the program, and its interrupt        *)
(* handler, both through execute_cmd, bus access by bus access.             *)
(*                                                                         *)
(* The component is ReadyQueue with what else a client can see: the error   *)
(* bit, the request of the timer, the enable bit, and the registers of the  *)
(* adapter.  A command is served in one step after the write of its         *)
(* parameter; CommandedQueue, which the block implements, says that its     *)
(* operation is the one of Serves and that the error bit is Refuses.        *)
(***************************************************************************)
EXTENDS ReadyQueue

CONSTANTS
  Prio,          \* the member priority of each object
  Methods,       \* the methods the program calls
  Careful,       \* the program respects what the methods assume (Expected)
  Resting,       \* it calls nothing once the timer is started, as main.cpp
  LongQuantum    \* a quantum is longer than the interrupt handler

ASSUME ThreadsAssumption == Threads \subseteq Nat \ {0}
ASSUME ObjectsAssumption == 0 \notin Objects
ASSUME PrioAssumption == Prio \in [Objects -> Keys] /\ Keys \subseteq Nat

VARIABLES
  order, failed, request, enabled,      \* of the block, beside those of ReadyQueue
  reg_command, reg_priority, posted,    \* of the adapter; the command in flight
  cpu,                                  \* what the processor is doing
  frame,                                \* where the program and the handler are
  started,                              \* the program has started the timer
  seen                                  \* history: what the program has seen

block == <<rqVars, order, failed, request, enabled>>
adapter == <<reg_command, reg_priority, posted>>
driverVars == <<block, adapter, cpu, frame, started, seen>>

NoAnswer == [op |-> "none", obj |-> 0, answer |-> 0]

-----------------------------------------------------------------------------
(***************************************************************************)
(* The methods: a method is a list of calls of execute_cmd on the locals of *)
(* its frame.  Several methods share their calls.                           *)
(***************************************************************************)
\* Mutation: interrupts are enabled before the quantum is set.
StartEnablesFirst == <<"enable", "quantum">>

\* Mutation: the quantum is left as it is.
StartEnables == <<"enable">>

\* The two calls of main.cpp that start the timer.
Start == <<"quantum", "enable">>

\* Mutation: the interrupt is not acknowledged.
HandlerForgetsAck ==
  <<"removeHead", "chosen", "findRunning", "insertRunning", "findHead", "run">>

Handler ==
  <<"ack", "removeHead", "chosen", "findRunning", "insertRunning", "findHead", "run">>

\* Mutation: the thread is freed before remove() asks which one is running.
RemoveDestroysFirst == <<"findObj", "destroy", "chosen", "removeHead", "findHead", "run">>

Remove == <<"findObj", "chosen", "destroy", "removeHead", "findHead", "run">>

\* Mutation: the next thread is looked up before it is taken off the queue.
SuspendLooksFirst == <<"findObj", "removeObj", "chosen", "findHead", "removeHead", "run">>

Suspend == <<"findObj", "removeObj", "chosen", "removeHead", "findHead", "run">>

Choose == <<"chosen", "findRunning", "insertRunning", "removeHead", "findHead", "run">>

ChooseAnother ==
  <<"removeHead", "chosen", "findRunning", "insertRunning", "findHead", "run">>

ChooseThis == <<"findObj", "removeObj", "chosen", "findRunning", "insertRunning", "run">>

Body ==
  [reset            |-> <<"reset">>,
   handler          |-> Handler,
   schedulables     |-> <<"size">>,
   chosen           |-> <<"chosen">>,
   insert           |-> <<"create", "chosen", "place">>,
   remove           |-> Remove,
   suspend          |-> Suspend,
   resume           |-> <<"findObj", "insertObj">>,
   choose           |-> Choose,
   choose_another   |-> ChooseAnother,
   choose_this      |-> ChooseThis,
   reset_quantum    |-> <<"ticks">>,
   set_quantum      |-> <<"quantum">>,
   enable_schedule  |-> <<"enable">>,
   disable_schedule |-> <<"disable">>,
   start            |-> Start]

Request(f) ==
  LET s == Head(f.todo)
      Cmd(cmd, priority, param) == [cmd |-> cmd, priority |-> priority, param |-> param]
  IN CASE s = "reset"         -> Cmd("RESET", 0, 0)
       [] s = "size"          -> Cmd("SIZE", 0, 0)
       [] s = "chosen"        -> Cmd("CHOSEN", 0, 0)
       [] s = "create"        -> Cmd("CREATE", Prio[f.obj], f.obj)
       [] s = "place"         -> IF f.running = 0 THEN Cmd("UPDATE_RUNNING", 0, f.tid)
                                 ELSE Cmd("INSERT", Prio[f.obj], f.tid)
       [] s = "insertObj"     -> Cmd("INSERT", Prio[f.obj], f.tid)
       [] s = "insertRunning" -> Cmd("INSERT", Prio[f.running], f.running_tid)
       [] s = "findObj"       -> Cmd("GETID", 0, f.obj)
       [] s = "findRunning"   -> Cmd("GETID", 0, f.running)
       [] s = "findHead"      -> Cmd("GETID", 0, f.head)
       [] s = "destroy"       -> Cmd("DESTROY", 0, f.tid)
       [] s = "removeObj"     -> Cmd("REMOVE", 0, f.tid)
       [] s = "removeHead"    -> Cmd("REMOVE_HEAD", 0, 0)
       [] s = "run"           -> Cmd("UPDATE_RUNNING", 0, f.tid)
       [] s = "quantum"       -> Cmd("SET_QUANTUM", 0, 0)
       [] s = "ticks"         -> Cmd("RSTICKS", 0, 0)
       [] s = "enable"        -> Cmd("ENABLE", 0, 0)
       [] s = "disable"       -> Cmd("DISABLE", 0, 0)
       [] s = "ack"           -> Cmd("INT_ACK", 0, 0)

\* The local that takes the result of the call.
Keep(f, value) ==
  LET s == Head(f.todo)
  IN CASE s \in {"create", "findObj", "findHead"} -> [f EXCEPT !.tid = value]
       [] s = "chosen"      -> [f EXCEPT !.running = value]
       [] s = "findRunning" -> [f EXCEPT !.running_tid = value]
       [] s = "removeHead"  -> [f EXCEPT !.head = value]
       [] OTHER             -> f

\* Mutation: remove() and suspend() do not look whether the object was found.
LeavesTrusting(f, value) ==
  LET s == Head(f.todo)
  IN \/ Len(f.todo) = 1
     \/ f.method = "remove" /\ s = "destroy" /\ f.running # f.obj
     \/ f.method = "suspend" /\ s = "chosen" /\ value # f.obj
     \/ f.method = "choose_this" /\ s = "removeObj" /\ value = 0

\* The method returns after this call: it was the last one, or its result says so.
Leaves(f, value) ==
  LET s == Head(f.todo)
  IN \/ Len(f.todo) = 1
     \/ s = "create" /\ value <= 0
     \/ s = "findObj" /\ IF f.method \in {"remove", "suspend"} THEN value < 0 ELSE value = 0
     \/ f.method = "remove" /\ s = "destroy" /\ f.running # f.obj
     \/ f.method = "suspend" /\ s = "chosen" /\ value # f.obj
     \/ f.method = "choose_this" /\ s = "removeObj" /\ value = 0

\* Mutation: choose() and choose_another() return the object that ran before.
AnswerBefore(f, value) ==
  CASE f.method \in {"chosen", "schedulables"} -> value
    [] f.method = "remove" -> IF Head(f.todo) = "findObj" THEN 0 ELSE f.obj
    [] f.method \in {"choose", "choose_another"} -> f.running
    [] f.method = "choose_this" -> IF Len(f.todo) = 1 THEN f.obj ELSE 0
    [] OTHER -> 0

\* What the method returns, 0 if nothing; value is the result of its last call.
Answer(f, value) ==
  CASE f.method \in {"chosen", "schedulables"} -> value
    [] f.method = "remove" -> IF Head(f.todo) = "findObj" THEN 0 ELSE f.obj
    [] f.method \in {"choose", "choose_another"} -> f.head
    [] f.method = "choose_this" -> IF Len(f.todo) = 1 THEN f.obj ELSE 0
    [] OTHER -> 0

NoFrame == [method |-> "none", obj |-> 0, todo |-> <<>>, access |-> "cmd",
            tid |-> 0, running |-> 0, running_tid |-> 0, head |-> 0]

Enter(method, obj) == [NoFrame EXCEPT !.method = method, !.obj = obj, !.todo = Body[method]]

Active(c) == frame[c].method # "none"
At(c, s) == Active(c) /\ Head(frame[c].todo) = s

-----------------------------------------------------------------------------
(***************************************************************************)
(* The block.                                                               *)
(***************************************************************************)
Max(S) == CHOOSE x \in S : \A y \in S : y <= x

\* Mutation: a thread that is as good as the running one has to wait.
PreemptionDueStrict ==
  running # 0 /\ ready # <<>> /\ order[running] > order[Head(ready).tid]

\* The same as PreemptionDue of Scheduler, on the abstract queue.
PreemptionDue ==
  running # 0 /\ ready # <<>> /\ order[running] >= order[Head(ready).tid]

\* The timer runs out.
Raise ==
  /\ PreemptionDue
  /\ ~request
  /\ LongQuantum => cpu = "program"
  /\ request' = TRUE
  /\ UNCHANGED <<rqVars, order, failed, enabled, adapter, cpu, frame, started, seen>>

SetOrder(tid, value) == order' = [order EXCEPT ![tid] = value]

\* What the command does to the order table; a CREATE takes the highest free row.
SetsOrder(r) ==
  \/ /\ r.cmd = "CREATE" /\ created # Threads
     /\ reply' = Max(Threads \ created)
     /\ SetOrder(reply', r.priority)
  \/ r.cmd = "DESTROY" /\ SetOrder(r.param, 0)
  \/ r.cmd = "INSERT" /\ SetOrder(r.param, r.priority)
  \/ r.cmd = "RESET" /\ order' = [t \in Threads |-> 0]
  \/ /\ r.cmd \notin {"DESTROY", "INSERT", "RESET"}
     /\ r.cmd = "CREATE" => created = Threads
     /\ UNCHANGED order

Performs(r) == Serves(r) /\ SetsOrder(r)

\* The block executes the command in flight.
Execute ==
  /\ posted # NoRequest
  /\ Performs(posted)
  /\ failed' = Refuses(posted)
  /\ request' = (request /\ posted.cmd \notin {"SET_QUANTUM", "RSTICKS", "INT_ACK"})
  /\ enabled' = (posted.cmd = "ENABLE" \/ (enabled /\ posted.cmd \notin {"DISABLE", "RESET"}))
  /\ posted' = NoRequest
  /\ UNCHANGED <<reg_command, reg_priority, cpu, frame, started, seen>>

-----------------------------------------------------------------------------
(***************************************************************************)
(* execute_cmd.  The handler runs with interrupts off, and the program does *)
(* not run meanwhile.  A bus access finds the command before it executed.   *)
(***************************************************************************)
Turn(c) == cpu = IF c = "isr" THEN "handler" ELSE "program"

\* Nothing is said of what follows a read through the null pointer.
NullRead(f) == Head(f.todo) = "insertRunning" /\ f.running = 0

Accesses(c, access) ==
  /\ Turn(c)
  /\ Active(c)
  /\ frame[c].access = access
  /\ posted = NoRequest
  /\ ~NullRead(frame[c])
  /\ UNCHANGED <<block, started>>

GoTo(c, access) ==
  frame' = [frame EXCEPT ![c].access = access] /\ UNCHANGED <<cpu, seen>>

WriteCommand(c) ==
  /\ Accesses(c, "cmd")
  /\ reg_command' = Request(frame[c]).cmd
  /\ GoTo(c, IF At(c, "ack") THEN "param" ELSE "priority")
  /\ UNCHANGED <<reg_priority, posted>>

WritePriority(c) ==
  /\ Accesses(c, "priority")
  /\ reg_priority' = Request(frame[c]).priority
  /\ GoTo(c, "param")
  /\ UNCHANGED <<reg_command, posted>>

NextCall(c, f) ==
  /\ frame' = [frame EXCEPT ![c] = [f EXCEPT !.todo = Tail(f.todo), !.access = "cmd"]]
  /\ UNCHANGED <<cpu, seen>>

\* The handler does not wait for the end of INT_ACK.
WriteParameter(c) ==
  /\ Accesses(c, "param")
  /\ posted' = [cmd |-> reg_command, priority |-> reg_priority,
                param |-> Request(frame[c]).param]
  /\ IF At(c, "ack") THEN NextCall(c, frame[c]) ELSE GoTo(c, "status")
  /\ UNCHANGED <<reg_command, reg_priority>>

\* The program's view of the block: the running object, the queue, the table.
ProgramView == [runs  |-> IF running = 0 THEN 0 ELSE object[running],
             queue |-> [i \in DOMAIN ready |-> object[ready[i].tid]],
             known |-> {object[t] : t \in created}]

Returns(c, f, value) ==
  /\ frame' = [frame EXCEPT ![c] = NoFrame]
  /\ cpu' = IF c = "isr" THEN "handled" ELSE cpu
  /\ seen' = [threads |-> ProgramView,
              last    |-> IF c = "isr" THEN seen.last
                          ELSE [op |-> f.method, obj |-> f.obj, answer |-> Answer(f, value)]]

\* execute_cmd returns value.
Continue(c, value) ==
  LET f == Keep(frame[c], value)
  IN IF Leaves(f, value) THEN Returns(c, f, value) ELSE NextCall(c, f)

\* done is up: the command has been executed.
ReadStatus(c) ==
  /\ Accesses(c, "status")
  /\ IF failed THEN Continue(c, -1) ELSE GoTo(c, "return")
  /\ UNCHANGED adapter

ReadReturn(c) ==
  /\ Accesses(c, "return")
  /\ Continue(c, reply)
  /\ UNCHANGED adapter

-----------------------------------------------------------------------------
(***************************************************************************)
(* The interrupt.  The processor takes the exception when it sees the line  *)
(* up, and reads the line again before it calls the handler and after the   *)
(* handler has returned; a command in flight has been executed by then.     *)
(***************************************************************************)
p_interrupt == request /\ enabled

TakeException ==
  /\ cpu = "program"
  /\ p_interrupt
  /\ cpu' = "exception"
  /\ UNCHANGED <<block, adapter, frame, started, seen>>

\* An exception without a pending interrupt ends in the instruction break.
Dispatch ==
  /\ cpu \in {"exception", "handled"}
  /\ posted = NoRequest
  /\ \/ /\ p_interrupt
        /\ cpu' = "handler"
        /\ frame' = [frame EXCEPT !["isr"] = Enter("handler", 0)]
     \/ /\ ~p_interrupt
        /\ cpu' = IF cpu = "exception" THEN "break" ELSE "program"
        /\ UNCHANGED frame
  /\ UNCHANGED <<block, adapter, started, seen>>

-----------------------------------------------------------------------------
(***************************************************************************)
(* The program.                                                             *)
(***************************************************************************)
\* What a method takes for granted.
Expected(method, obj) ==
  LET runs == IF running = 0 THEN 0 ELSE object[running]
      queued == \E i \in DOMAIN ready : object[ready[i].tid] = obj
  IN CASE method = "insert"         -> ~Found(obj)
       [] method = "resume"         -> Found(obj) /\ ~queued /\ obj # runs
       [] method = "choose"         -> runs # 0
       [] method = "choose_another" -> runs # 0 /\ ready # <<>>
       [] method = "choose_this"    -> runs # 0 /\ Found(obj)
       [] OTHER                     -> TRUE

Takes == {"insert", "remove", "suspend", "resume", "choose_this"}

Call(method, obj) ==
  /\ cpu = "program"
  /\ ~Active("main")
  /\ Resting => ~started
  /\ Careful => Expected(method, obj)
  /\ frame' = [frame EXCEPT !["main"] = Enter(method, obj)]
  /\ started' = (started \/ method = "start")
  /\ seen' = [seen EXCEPT !.last = NoAnswer]
  /\ UNCHANGED <<block, adapter, cpu>>

\* The event loop of main.cpp.
Loop == Resting /\ started /\ ~Active("main") /\ cpu = "program" /\ UNCHANGED driverVars

\* Power-up: the constructor is about to call reset().
DriverInit ==
  /\ RQInit
  /\ order = [t \in Threads |-> 0]
  /\ failed = FALSE
  /\ request = FALSE
  /\ enabled = FALSE
  /\ reg_command = "NONE"
  /\ reg_priority = 0
  /\ posted = NoRequest
  /\ cpu = "program"
  /\ frame = [main |-> Enter("reset", 0), isr |-> NoFrame]
  /\ started = FALSE
  /\ seen = [threads |-> ProgramView, last |-> NoAnswer]

ExecuteCmd(c) ==
  \/ WriteCommand(c)
  \/ WritePriority(c)
  \/ WriteParameter(c)
  \/ ReadStatus(c)
  \/ ReadReturn(c)

\* What goes on without the program calling anything.
Machine == (\E c \in {"main", "isr"} : ExecuteCmd(c)) \/ Execute \/ Raise
           \/ TakeException \/ Dispatch

DriverNext ==
  \/ Machine
  \/ \E method \in Methods \cap Takes, obj \in Objects : Call(method, obj)
  \/ \E method \in Methods \ Takes : Call(method, 0)
  \/ Loop

DriverSpec == DriverInit /\ [][DriverNext]_driverVars
FairDriverSpec == DriverSpec /\ WF_driverVars(Machine)

-----------------------------------------------------------------------------
Legal(r) ==
  /\ r.cmd \in {"INSERT", "DESTROY", "REMOVE"} => r.param \in Threads
  /\ r.cmd = "INSERT" => r.param \in created /\ ~IsReady(r.param)
  /\ r.cmd = "UPDATE_RUNNING" => r.param \in Threads \cup {0}

\* resume() inserts threads that exist.
InsertsExisting == posted.cmd = "INSERT" => posted.param \in created

\* The block trusts the driver: no identifier out of range, no thread inserted that
\* does not exist or that is queued already.  Also when a search failed, when the queue
\* was empty, and when the last thread is gone.
LegalRequests == posted # NoRequest => Legal(posted)

\* No priority is read, and no object executed, through a null pointer: neither an empty
\* queue nor an idle processor gets as far as that.
ObjectsExist ==
  /\ \A c \in {"main", "isr"} : At(c, "insertRunning") => frame[c].running # 0
  /\ At("isr", "run") => frame["isr"].head # 0

\* An exception taken for the scheduler finds its interrupt still pending.
NoSpuriousException == cpu # "break"

\* Seen from the program, each method is one step of ThreadScheduler with its answer,
\* and so is each run of the handler: they preserve who is running, ready and suspended.
TS == INSTANCE ThreadScheduler WITH
        runs <- seen.threads.runs, queue <- seen.threads.queue,
        known <- seen.threads.known, last <- seen.last

ImplementsThreads == TS!TSSpec

\* When the handler returns, no ready thread is better than the one it has made run.
BestRuns ==
  [][cpu' = "handled" =>
       /\ running # 0
       /\ \A i \in DOMAIN ready : order[running] <= order[ready[i].tid]]_driverVars

Runs(obj) == running # 0 /\ object[running] = obj

\* Once the timer is started and some thread runs, every ready thread that no other
\* thread is better than gets the processor, again and again.
RoundRobin ==
  \A obj \in Objects :
    /\ started
    /\ ~Active("main")
    /\ seen.threads.runs # 0
    /\ \E i \in DOMAIN seen.threads.queue : seen.threads.queue[i] = obj
    /\ \A i \in DOMAIN seen.threads.queue : Prio[obj] <= Prio[seen.threads.queue[i]]
    /\ Prio[obj] <= Prio[seen.threads.runs]
    ~> Runs(obj)

\* execute_cmd sends the command it was called with.
AsRequested ==
  [][posted = NoRequest /\ posted' # NoRequest =>
       LET r == Request(frame[IF cpu = "handler" THEN "isr" ELSE "main"])
       IN /\ posted'.cmd = r.cmd
          /\ posted'.param = r.param
          /\ r.cmd \in {"CREATE", "INSERT"} => posted'.priority = r.priority]_driverVars
=============================================================================
