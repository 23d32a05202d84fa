---------------------------- MODULE DriverProofs ----------------------------
(***************************************************************************)
(* The driver of Scheduler.h and its interrupt handler, for every table,    *)
(* every set of objects and every program that rests once the timer is      *)
(* started: the commands they send, and what they take for granted.         *)
(***************************************************************************)
EXTENDS Driver, TLAPS, FiniteSetTheorems, SequenceTheorems, NaturalsInduction

Callers == {"main", "isr"}

ProgramMethods ==
  {"reset", "schedulables", "chosen", "insert", "remove", "suspend", "resume", "choose",
   "choose_another", "choose_this", "reset_quantum", "set_quantum", "disable_schedule", "start"}

\* The program of main.cpp: it enables interrupts with the timer, and then rests.
Rests == Resting /\ Methods \subseteq ProgramMethods

-----------------------------------------------------------------------------
(***************************************************************************)
(* Frames.                                                                  *)
(***************************************************************************)
FrameOf(f) ==
  f = [method |-> f.method, obj |-> f.obj, todo |-> f.todo, access |-> f.access,
       tid |-> f.tid, running |-> f.running, running_tid |-> f.running_tid, head |-> f.head]

\* The calls of a method from its i-th on.
Rest(method, i) == SubSeq(Body[method], i, Len(Body[method]))

Framed(f) ==
  /\ FrameOf(f)
  /\ f.access \in {"cmd", "priority", "param", "status", "return"}
  /\ f.method # "none" =>
       f.method \in DOMAIN Body /\ \E i \in 1..Len(Body[f.method]) : f.todo = Rest(f.method, i)

LEMMA NoFrameFacts ==
  Framed(NoFrame) /\ NoFrame.method = "none" /\ NoFrame.access = "cmd"
  BY DEF Framed, FrameOf, NoFrame

\* The calls of execute_cmd in the methods.
Calls == {"reset", "size", "chosen", "create", "place", "insertObj", "insertRunning", "findObj",
          "findRunning", "findHead", "destroy", "removeObj", "removeHead", "run", "quantum",
          "ticks", "enable", "disable", "ack"}

\* The bodies of the methods, one by one.
LEMMA Table ==
  /\ DOMAIN Body = {"reset", "handler", "schedulables", "chosen", "insert", "remove", "suspend",
                    "resume", "choose", "choose_another", "choose_this", "reset_quantum",
                    "set_quantum", "enable_schedule", "disable_schedule", "start"}
  /\ Body["reset"] = <<"reset">> /\ Body["handler"] = Handler
  /\ Body["schedulables"] = <<"size">> /\ Body["chosen"] = <<"chosen">>
  /\ Body["insert"] = <<"create", "chosen", "place">> /\ Body["remove"] = Remove
  /\ Body["suspend"] = Suspend /\ Body["resume"] = <<"findObj", "insertObj">>
  /\ Body["choose"] = Choose /\ Body["choose_another"] = ChooseAnother
  /\ Body["choose_this"] = ChooseThis /\ Body["reset_quantum"] = <<"ticks">>
  /\ Body["set_quantum"] = <<"quantum">> /\ Body["enable_schedule"] = <<"enable">>
  /\ Body["disable_schedule"] = <<"disable">> /\ Body["start"] = Start
  BY DEF Body

LEMMA Bodies ==
  \A m \in DOMAIN Body : Body[m] \in Seq(Calls) /\ Len(Body[m]) \in Nat \ {0}
<1>1. /\ \A s \in Calls : <<s>> \in Seq(Calls) /\ Len(<<s>>) = 1
      /\ <<"create", "chosen", "place">> \in Seq(Calls)
      /\ <<"findObj", "insertObj">> \in Seq(Calls)
      /\ Len(<<"create", "chosen", "place">>) = 3 /\ Len(<<"findObj", "insertObj">>) = 2
  BY DEF Calls
<1>2. /\ Handler \in Seq(Calls) /\ Len(Handler) = 7
      /\ Remove \in Seq(Calls) /\ Len(Remove) = 6
      /\ Suspend \in Seq(Calls) /\ Len(Suspend) = 6
      /\ Choose \in Seq(Calls) /\ Len(Choose) = 6
      /\ ChooseAnother \in Seq(Calls) /\ Len(ChooseAnother) = 6
      /\ ChooseThis \in Seq(Calls) /\ Len(ChooseThis) = 6
      /\ Start \in Seq(Calls) /\ Len(Start) = 2
  BY DEF Calls, Handler, Remove, Suspend, Choose, ChooseAnother, ChooseThis, Start
<1>3. {"reset", "size", "chosen", "ticks", "quantum", "enable", "disable"} \subseteq Calls
  BY DEF Calls
<1> DEFINE Fine(m) == Body[m] \in Seq(Calls) /\ Len(Body[m]) \in Nat \ {0}
<1>4. Fine("reset") /\ Fine("schedulables") /\ Fine("chosen") /\ Fine("reset_quantum")
      /\ Fine("set_quantum") /\ Fine("enable_schedule") /\ Fine("disable_schedule")
  BY <1>1, <1>3, Table
<1>5. Fine("insert") /\ Fine("resume")
  BY <1>1, Table
<1>6. /\ Fine("handler") /\ Fine("remove")
      /\ Fine("suspend") /\ Fine("start")
  <2>1. Fine("handler") /\ Fine("remove")
    BY <1>2, Table
  <2>2. Fine("suspend")
    BY <1>2, Table
  <2>3. Fine("start")
    <3>1. Body["start"] = Start
      BY Table
    <3>2. Start \in Seq(Calls) /\ Len(Start) \in Nat \ {0}
      BY <1>2
    <3> QED BY <3>1, <3>2
  <2> QED BY <2>1, <2>2, <2>3
<1>7. Fine("choose") /\ Fine("choose_another") /\ Fine("choose_this")
  BY <1>2, Table
<1> HIDE DEF Fine
<1>8. \A m \in DOMAIN Body : Fine(m)
  BY <1>4, <1>5, <1>6, <1>7, Table
<1> QED BY <1>8 DEF Fine

LEMMA Names ==
  ProgramMethods \subseteq DOMAIN Body /\ "handler" \in DOMAIN Body /\ "none" \notin DOMAIN Body
  BY Table DEF ProgramMethods

LEMMA RestFacts ==
  ASSUME NEW m \in DOMAIN Body, NEW i \in 1..Len(Body[m])
  PROVE  /\ Head(Rest(m, i)) = Body[m][i]
         /\ Len(Rest(m, i)) = Len(Body[m]) - i + 1
         /\ i < Len(Body[m]) => Tail(Rest(m, i)) = Rest(m, i + 1)
<1>1. Body[m] \in Seq(Calls) /\ Len(Body[m]) \in Nat \ {0}
  BY Bodies
<1>2. Rest(m, i) \in Seq(Calls) /\ Len(Rest(m, i)) = Len(Body[m]) - i + 1
      /\ \A j \in 1..(Len(Body[m]) - i + 1) : Rest(m, i)[j] = Body[m][i + j - 1]
  BY <1>1, SubSeqProperties DEF Rest
<1>3. Head(Rest(m, i)) = Body[m][i]
  BY <1>1, <1>2
<1>4. ASSUME i < Len(Body[m])
      PROVE  Tail(Rest(m, i)) = Rest(m, i + 1)
  BY <1>1, <1>4, HeadTailOfSubSeq DEF Rest
<1> QED BY <1>2, <1>3, <1>4

LEMMA EnterFacts ==
  ASSUME NEW method \in DOMAIN Body, NEW obj
  PROVE  LET f == Enter(method, obj)
         IN /\ Framed(f) /\ f.method = method /\ f.obj = obj /\ f.todo = Rest(method, 1)
            /\ f.access = "cmd"
<1> DEFINE calls == Body[method]
<1>1. calls = Rest(method, 1) /\ Len(calls) \in Nat \ {0}
  BY Bodies, SubSeqFull DEF Rest
<1> HIDE DEF calls
<1> DEFINE f == [NoFrame EXCEPT !.method = method]
           g == [f EXCEPT !.obj = obj]
           h == [g EXCEPT !.todo = calls]
<1>2. FrameOf(f) /\ f.method = method /\ f.access = "cmd"
  BY DEF NoFrame, FrameOf
<1> HIDE DEF f
<1>3. FrameOf(g) /\ g.method = method /\ g.access = "cmd" /\ g.obj = obj
  BY <1>2 DEF FrameOf
<1> HIDE DEF g
<1>4. FrameOf(h) /\ h.method = method /\ h.access = "cmd" /\ h.obj = obj /\ h.todo = calls
  BY <1>3 DEF FrameOf
<1>5. Enter(method, obj) = h
  BY Zenon DEF Enter, calls, f, g, h
<1> HIDE DEF h
<1> QED BY <1>1, <1>4, <1>5, Names DEF Framed, calls

\* An access leaves the locals alone.
LEMMA AccessFacts ==
  ASSUME NEW f, FrameOf(f), NEW access
  PROVE  LET g == [f EXCEPT !.access = access]
         IN /\ FrameOf(g) /\ g.access = access
            /\ g.method = f.method /\ g.obj = f.obj /\ g.todo = f.todo /\ g.tid = f.tid
            /\ g.running = f.running /\ g.running_tid = f.running_tid /\ g.head = f.head
  BY DEF FrameOf

\* The result of a call goes to one local.
LEMMA KeepFacts ==
  ASSUME NEW f, FrameOf(f), NEW value
  PROVE  LET g == Keep(f, value)
             s == Head(f.todo)
         IN /\ FrameOf(g) /\ g.access = f.access
            /\ g.method = f.method /\ g.obj = f.obj /\ g.todo = f.todo
            /\ g.tid = IF s \in {"create", "findObj", "findHead"} THEN value ELSE f.tid
            /\ g.running = IF s = "chosen" THEN value ELSE f.running
            /\ g.running_tid = IF s = "findRunning" THEN value ELSE f.running_tid
            /\ g.head = IF s = "removeHead" THEN value ELSE f.head
  BY DEF FrameOf, Keep

\* The frame of the next call.
Advanced(f) == [f EXCEPT !.todo = Tail(f.todo), !.access = "cmd"]

LEMMA AdvancedFacts ==
  ASSUME NEW f, FrameOf(f)
  PROVE  LET g == Advanced(f)
         IN /\ FrameOf(g) /\ g.access = "cmd" /\ g.todo = Tail(f.todo)
            /\ g.method = f.method /\ g.obj = f.obj /\ g.tid = f.tid
            /\ g.running = f.running /\ g.running_tid = f.running_tid /\ g.head = f.head
<1> DEFINE t == Tail(f.todo)
<1> HIDE DEF t
<1> DEFINE h == [f EXCEPT !.todo = t]
           g == [h EXCEPT !.access = "cmd"]
<1>1. /\ FrameOf(h) /\ h.todo = t /\ h.method = f.method /\ h.obj = f.obj /\ h.tid = f.tid
      /\ h.running = f.running /\ h.running_tid = f.running_tid /\ h.head = f.head
  BY DEF FrameOf
<1> HIDE DEF h
<1>2. /\ FrameOf(g) /\ g.access = "cmd" /\ g.todo = t
      /\ g.method = f.method /\ g.obj = f.obj /\ g.tid = f.tid
      /\ g.running = f.running /\ g.running_tid = f.running_tid /\ g.head = f.head
  BY <1>1, AccessFacts
<1>3. Advanced(f) = g
  BY Zenon DEF Advanced, t, h, g
<1> HIDE DEF g
<1> QED BY <1>2, <1>3 DEF t

\* The call in progress, whether there is another one in the method, and which.
Now(f) == Head(f.todo)
More(f) == Len(f.todo) # 1
Then(f) == Head(Tail(f.todo))

LEMMA PlaceFacts ==
  ASSUME NEW f, Framed(f), f.method # "none"
  PROVE  \E i \in 1..Len(Body[f.method]) :
           /\ f.todo = Rest(f.method, i)
           /\ Now(f) = Body[f.method][i]
           /\ More(f) <=> i < Len(Body[f.method])
           /\ More(f) => i + 1 \in 1..Len(Body[f.method]) /\ Tail(f.todo) = Rest(f.method, i + 1)
                         /\ Then(f) = Body[f.method][i + 1]
<1> DEFINE m == f.method
<1>1. PICK i \in 1..Len(Body[m]) : f.todo = Rest(m, i)
  BY DEF Framed
<1>2. m \in DOMAIN Body /\ Len(Body[m]) \in Nat \ {0}
  BY Bodies DEF Framed
<1>3. /\ Head(f.todo) = Body[m][i] /\ Len(f.todo) = Len(Body[m]) - i + 1
      /\ i < Len(Body[m]) => Tail(f.todo) = Rest(m, i + 1)
  BY <1>1, <1>2, RestFacts
<1>4. ASSUME i < Len(Body[m])
      PROVE  i + 1 \in 1..Len(Body[m]) /\ Head(Rest(m, i + 1)) = Body[m][i + 1]
  <2>1. i + 1 \in 1..Len(Body[m])
    BY <1>2, <1>4
  <2> QED BY <2>1, <1>2, RestFacts
<1>5. More(f) <=> i < Len(Body[m])
  BY <1>2, <1>3 DEF More
<1> QED BY <1>1, <1>3, <1>4, <1>5 DEF Now, Then

\* The methods, call by call.
Going(f, s, n) == Now(f) = s /\ More(f) /\ Then(f) = n
Ending(f, s) == Now(f) = s /\ ~More(f)

LEMMA HandlerCalls ==
  ASSUME NEW f, Framed(f), f.method = "handler"
  PROVE  \/ Going(f, "ack", "removeHead") \/ Going(f, "removeHead", "chosen")
         \/ Going(f, "chosen", "findRunning") \/ Going(f, "findRunning", "insertRunning")
         \/ Going(f, "insertRunning", "findHead") \/ Going(f, "findHead", "run")
         \/ Ending(f, "run")
<1>1. Body["handler"] = Handler
  BY Table
<1>2. PICK i \in 1..Len(Handler) :
        /\ Now(f) = Handler[i]
        /\ More(f) <=> i < Len(Handler)
        /\ More(f) => Then(f) = Handler[i + 1]
  BY <1>1, PlaceFacts
<1> QED BY <1>2 DEF Handler, Going, Ending

LEMMA RemoveCalls ==
  ASSUME NEW f, Framed(f), f.method = "remove"
  PROVE  \/ Going(f, "findObj", "chosen") \/ Going(f, "chosen", "destroy")
         \/ Going(f, "destroy", "removeHead") \/ Going(f, "removeHead", "findHead")
         \/ Going(f, "findHead", "run") \/ Ending(f, "run")
<1>1. Body["remove"] = Remove
  BY Table
<1>2. PICK i \in 1..Len(Remove) :
        /\ Now(f) = Remove[i]
        /\ More(f) <=> i < Len(Remove)
        /\ More(f) => Then(f) = Remove[i + 1]
  BY <1>1, PlaceFacts
<1> QED BY <1>2 DEF Remove, Going, Ending

LEMMA SuspendCalls ==
  ASSUME NEW f, Framed(f), f.method = "suspend"
  PROVE  \/ Going(f, "findObj", "removeObj") \/ Going(f, "removeObj", "chosen")
         \/ Going(f, "chosen", "removeHead") \/ Going(f, "removeHead", "findHead")
         \/ Going(f, "findHead", "run") \/ Ending(f, "run")
<1>1. Body["suspend"] = Suspend
  BY Table
<1>2. PICK i \in 1..Len(Suspend) :
        /\ Now(f) = Suspend[i]
        /\ More(f) <=> i < Len(Suspend)
        /\ More(f) => Then(f) = Suspend[i + 1]
  BY <1>1, PlaceFacts
<1> QED BY <1>2 DEF Suspend, Going, Ending

LEMMA ChooseCalls ==
  ASSUME NEW f, Framed(f), f.method = "choose"
  PROVE  \/ Going(f, "chosen", "findRunning") \/ Going(f, "findRunning", "insertRunning")
         \/ Going(f, "insertRunning", "removeHead") \/ Going(f, "removeHead", "findHead")
         \/ Going(f, "findHead", "run") \/ Ending(f, "run")
<1>1. Body["choose"] = Choose
  BY Table
<1>2. PICK i \in 1..Len(Choose) :
        /\ Now(f) = Choose[i]
        /\ More(f) <=> i < Len(Choose)
        /\ More(f) => Then(f) = Choose[i + 1]
  BY <1>1, PlaceFacts
<1> QED BY <1>2 DEF Choose, Going, Ending

LEMMA ChooseAnotherCalls ==
  ASSUME NEW f, Framed(f), f.method = "choose_another"
  PROVE  \/ Going(f, "removeHead", "chosen") \/ Going(f, "chosen", "findRunning")
         \/ Going(f, "findRunning", "insertRunning") \/ Going(f, "insertRunning", "findHead")
         \/ Going(f, "findHead", "run") \/ Ending(f, "run")
<1>1. Body["choose_another"] = ChooseAnother
  BY Table
<1>2. PICK i \in 1..Len(ChooseAnother) :
        /\ Now(f) = ChooseAnother[i]
        /\ More(f) <=> i < Len(ChooseAnother)
        /\ More(f) => Then(f) = ChooseAnother[i + 1]
  BY <1>1, PlaceFacts
<1> QED BY <1>2 DEF ChooseAnother, Going, Ending

LEMMA ChooseThisCalls ==
  ASSUME NEW f, Framed(f), f.method = "choose_this"
  PROVE  \/ Going(f, "findObj", "removeObj") \/ Going(f, "removeObj", "chosen")
         \/ Going(f, "chosen", "findRunning") \/ Going(f, "findRunning", "insertRunning")
         \/ Going(f, "insertRunning", "run") \/ Ending(f, "run")
<1>1. Body["choose_this"] = ChooseThis
  BY Table
<1>2. PICK i \in 1..Len(ChooseThis) :
        /\ Now(f) = ChooseThis[i]
        /\ More(f) <=> i < Len(ChooseThis)
        /\ More(f) => Then(f) = ChooseThis[i + 1]
  BY <1>1, PlaceFacts
<1> QED BY <1>2 DEF ChooseThis, Going, Ending

LEMMA InsertCalls ==
  ASSUME NEW f, Framed(f), f.method = "insert"
  PROVE  \/ Going(f, "create", "chosen") \/ Going(f, "chosen", "place")
         \/ Ending(f, "place")
<1>1. Body["insert"] = <<"create", "chosen", "place">>
  BY Table
<1>2. PICK i \in 1..Len(<<"create", "chosen", "place">>) :
        /\ Now(f) = <<"create", "chosen", "place">>[i]
        /\ More(f) <=> i < Len(<<"create", "chosen", "place">>)
        /\ More(f) => Then(f) = <<"create", "chosen", "place">>[i + 1]
  BY <1>1, PlaceFacts
<1> QED BY <1>2 DEF Going, Ending

LEMMA ResumeCalls ==
  ASSUME NEW f, Framed(f), f.method = "resume"
  PROVE  \/ Going(f, "findObj", "insertObj") \/ Ending(f, "insertObj")
<1>1. Body["resume"] = <<"findObj", "insertObj">>
  BY Table
<1>2. PICK i \in 1..Len(<<"findObj", "insertObj">>) :
        /\ Now(f) = <<"findObj", "insertObj">>[i]
        /\ More(f) <=> i < Len(<<"findObj", "insertObj">>)
        /\ More(f) => Then(f) = <<"findObj", "insertObj">>[i + 1]
  BY <1>1, PlaceFacts
<1> QED BY <1>2 DEF Going, Ending

LEMMA StartCalls ==
  ASSUME NEW f, Framed(f), f.method = "start"
  PROVE  \/ Going(f, "quantum", "enable") \/ Ending(f, "enable")
<1>1. Body["start"] = Start
  BY Table
<1>2. PICK i \in 1..Len(Start) :
        /\ Now(f) = Start[i]
        /\ More(f) <=> i < Len(Start)
        /\ More(f) => Then(f) = Start[i + 1]
  BY <1>1, PlaceFacts
<1> QED BY <1>2 DEF Start, Going, Ending

\* The other methods are one call each.
Single ==
  [reset |-> "reset", schedulables |-> "size", chosen |-> "chosen", reset_quantum |-> "ticks",
   set_quantum |-> "quantum", enable_schedule |-> "enable", disable_schedule |-> "disable"]

LEMMA SingleCalls ==
  ASSUME NEW f, Framed(f), f.method \in DOMAIN Single
  PROVE  Ending(f, Single[f.method])
<1>1. /\ DOMAIN Single = {"reset", "schedulables", "chosen", "reset_quantum", "set_quantum",
                          "enable_schedule", "disable_schedule"}
      /\ Single["reset"] = "reset" /\ Single["schedulables"] = "size"
      /\ Single["chosen"] = "chosen" /\ Single["reset_quantum"] = "ticks"
      /\ Single["set_quantum"] = "quantum" /\ Single["enable_schedule"] = "enable"
      /\ Single["disable_schedule"] = "disable"
  BY DEF Single
<1>2. Body[f.method] = <<Single[f.method]>>
  BY <1>1, Table
<1>3. PICK i \in 1..1 : Now(f) = <<Single[f.method]>>[i] /\ (More(f) <=> i < 1)
  BY <1>1, <1>2, PlaceFacts
<1> QED BY <1>3 DEF Ending

\* The calls, method by method.
LEMMA CallFacts ==
  ASSUME NEW f, Framed(f), f.method # "none"
  PROVE  /\ Now(f) \in Calls
         /\ Now(f) = "ack" => f.method = "handler" /\ More(f) /\ Then(f) = "removeHead"
         /\ Now(f) = "enable" => f.method \in {"start", "enable_schedule"} /\ ~More(f)
         /\ Now(f) = "disable" => f.method = "disable_schedule"
         /\ Now(f) = "reset" => f.method = "reset"
<1>1. f.method \in DOMAIN Body
  BY DEF Framed
<1>2. CASE f.method \in {"handler", "remove", "suspend", "resume"}
  BY <1>2, HandlerCalls, RemoveCalls, SuspendCalls, ResumeCalls DEF Going, Ending, Calls
<1>3. CASE f.method \in {"choose", "choose_another", "choose_this", "insert", "start"}
  BY <1>3, ChooseCalls, ChooseAnotherCalls, ChooseThisCalls, InsertCalls, StartCalls
     DEF Going, Ending, Calls
<1>4. CASE f.method \in DOMAIN Single
  BY <1>4, SingleCalls DEF Single, Ending, Calls
<1> QED BY <1>1, <1>2, <1>3, <1>4, Table DEF Single

\* A call that is not the last has a next one.
LEMMA AdvancedFramed ==
  ASSUME NEW f, Framed(f), f.method # "none", More(f)
  PROVE  Framed(Advanced(f)) /\ Now(Advanced(f)) = Then(f)
<1>1. PICK i \in 1..Len(Body[f.method]) :
         i + 1 \in 1..Len(Body[f.method]) /\ Tail(f.todo) = Rest(f.method, i + 1)
  BY PlaceFacts
<1>2. f.method \in DOMAIN Body /\ FrameOf(f)
  BY DEF Framed
<1> QED BY <1>1, <1>2, AdvancedFacts DEF Framed, Now, Then

\* The request of a call, by its local variables.
LEMMA RequestSame ==
  ASSUME NEW f, NEW g, g.obj = f.obj, g.todo = f.todo, g.tid = f.tid, g.running = f.running,
         g.running_tid = f.running_tid, g.head = f.head
  PROVE  Request(g) = Request(f)
  BY DEF Request

LEMMA RequestFacts ==
  ASSUME NEW f
  PROVE  LET s == Now(f)
             r == Request(f)
         IN /\ s = "ack" => r.cmd = "INT_ACK"
            /\ s = "enable" => r.cmd = "ENABLE"
            /\ s \in Calls /\ r.cmd = "ENABLE" => s = "enable"
            /\ s \in Calls /\ r.cmd \in {"DISABLE", "RESET"} => s \in {"disable", "reset"}
  BY DEF Request, Now, Calls

-----------------------------------------------------------------------------
(***************************************************************************)
(* Control: who is where.                                                   *)
(***************************************************************************)
Frames ==
  /\ frame = [k \in Callers |-> frame[k]]
  /\ \A k \in Callers : Framed(frame[k])
  /\ frame["main"].method \in ProgramMethods \cup {"none"}
  /\ frame["isr"].method = IF cpu = "handler" THEN "handler" ELSE "none"

\* The command in flight is what the method in progress asks for, and the registers hold
\* what it has written of it.
Sends(k) ==
  LET r == Request(frame[k])
  IN /\ posted.cmd = r.cmd /\ posted.param = r.param
     /\ r.cmd \in {"CREATE", "INSERT"} => posted.priority = r.priority

Writes(k) ==
  LET r == Request(frame[k])
  IN /\ frame[k].access \in {"priority", "param"} => reg_command = r.cmd
     /\ frame[k].access = "param" /\ r.cmd \in {"CREATE", "INSERT"} => reg_priority = r.priority

\* The program is at its last command, ENABLE, which has been sent.
Closing == At("main", "enable") /\ frame["main"].access \in {"status", "return"}

\* Where a command may be in flight: the handler only goes on during INT_ACK.
InFlight ==
  \/ /\ cpu = "program" /\ ~enabled
     /\ Active("main") /\ frame["main"].access = "status" /\ Sends("main")
  \/ cpu = "handler" /\ ~At("isr", "ack") /\ frame["isr"].access = "status" /\ Sends("isr")
  \/ /\ cpu = "handler" /\ At("isr", "removeHead") /\ frame["isr"].access = "cmd"
     /\ posted.cmd = "INT_ACK"

Control ==
  /\ Frames
  /\ cpu \in {"program", "exception", "handler", "handled"}
  /\ Active("main") => (frame["main"].method = "start" <=> started)
  /\ enabled => started /\ (Active("main") => Closing)
  /\ cpu # "program" => enabled
  /\ cpu = "exception" => request
  /\ posted # NoRequest => InFlight
  /\ \A k \in Callers : Turn(k) /\ Active(k) => Writes(k)

LEMMA ControlInit == DriverInit => Control
<1> SUFFICES ASSUME DriverInit PROVE Control
  OBVIOUS
<1> DEFINE f == Enter("reset", 0)
<1>1. frame = [main |-> f, isr |-> NoFrame]
  BY DEF DriverInit
<1>2. "reset" \in ProgramMethods
  BY DEF ProgramMethods
<1>3. Framed(f) /\ f.method = "reset" /\ f.access = "cmd"
  BY <1>2, Names, EnterFacts
<1> HIDE DEF f
<1>4. frame = [k \in Callers |-> frame[k]] /\ frame["main"] = f /\ frame["isr"] = NoFrame
  BY <1>1 DEF Callers
<1>5. Frames
  BY <1>2, <1>3, <1>4, NoFrameFacts DEF DriverInit, Frames, Callers
<1>6. \A k \in Callers : Writes(k)
  BY <1>3, <1>4, NoFrameFacts DEF Writes, Callers
<1> QED BY <1>3, <1>4, <1>5, <1>6 DEF DriverInit, Control

\* An access and a step to the next call change one frame.
LEMMA GoToFrame ==
  ASSUME Frames, NEW k \in Callers, NEW access, GoTo(k, access)
  PROVE  /\ frame' = [j \in Callers |-> frame'[j]]
         /\ frame'[k] = [frame[k] EXCEPT !.access = access]
         /\ \A j \in Callers \ {k} : frame'[j] = frame[j]
         /\ cpu' = cpu
  BY DEF GoTo, Frames

LEMMA NextCallFrame ==
  ASSUME Frames, NEW k \in Callers, NEW f, NextCall(k, f)
  PROVE  /\ frame' = [j \in Callers |-> frame'[j]]
         /\ frame'[k] = Advanced(f)
         /\ \A j \in Callers \ {k} : frame'[j] = frame[j]
         /\ cpu' = cpu
  BY DEF NextCall, Frames, Advanced

LEMMA ReturnsFrame ==
  ASSUME Frames, NEW k \in Callers, NEW f, NEW value, Returns(k, f, value)
  PROVE  /\ frame' = [j \in Callers |-> frame'[j]]
         /\ frame'[k] = NoFrame
         /\ \A j \in Callers \ {k} : frame'[j] = frame[j]
         /\ cpu' = IF k = "isr" THEN "handled" ELSE cpu
  BY DEF Returns, Frames

\* The three writes of a call.
LEMMA ControlWrites ==
  ASSUME Control, NEW k \in Callers,
         WriteCommand(k) \/ WritePriority(k) \/ WriteParameter(k)
  PROVE  Control'
<1> DEFINE f == frame[k]
           g == frame'[k]
           r == Request(f)
<1>1. /\ Frames /\ FrameOf(f) /\ Framed(f) /\ Active(k) /\ Turn(k) /\ posted = NoRequest
      /\ f.access \in {"cmd", "priority", "param"}
      /\ UNCHANGED <<enabled, request, started>>
  BY DEF Control, Frames, Framed, WriteCommand, WritePriority, WriteParameter, Accesses, block
<1>2. At(k, "ack") => k = "isr"
  BY <1>1, CallFacts DEF Control, Frames, At, Now, Active, ProgramMethods, Callers
<1>3. CASE WriteCommand(k) \/ WritePriority(k) \/ (WriteParameter(k) /\ ~At(k, "ack"))
  <2>1. PICK access \in {"priority", "param", "status"} : GoTo(k, access)
    BY <1>3 DEF WriteCommand, WritePriority, WriteParameter
  <2>2. /\ frame' = [j \in Callers |-> frame'[j]]
        /\ g = [f EXCEPT !.access = access]
        /\ \A j \in Callers \ {k} : frame'[j] = frame[j]
        /\ cpu' = cpu
    BY <1>1, <2>1, GoToFrame
  <2>3. /\ FrameOf(g) /\ g.access = access
        /\ g.method = f.method /\ g.obj = f.obj /\ g.todo = f.todo /\ g.tid = f.tid
        /\ g.running = f.running /\ g.running_tid = f.running_tid /\ g.head = f.head
    BY <1>1, <2>2, AccessFacts
  <2>4. Framed(g) /\ Request(g) = Request(f)
    BY <1>1, <2>3, RequestSame DEF Framed
  <2> HIDE DEF g
  <2>5. /\ Frames'
        /\ \A j \in Callers : frame'[j].method = frame[j].method
    <3>1. \A j \in Callers : Framed(frame'[j]) /\ frame'[j].method = frame[j].method
      BY <1>1, <2>2, <2>3, <2>4 DEF Frames, g
    <3> QED BY <1>1, <2>2, <3>1 DEF Frames, Callers
  <2>6. enabled' => started' /\ (Active("main") => Closing)'
    <3> SUFFICES ASSUME enabled', Active("main")' PROVE Closing'
      BY <1>1 DEF Control
    <3>1. Active("main")
      BY <2>5 DEF Active, Callers
    <3>2. Closing
      BY <1>1, <3>1 DEF Control
    <3>3. k # "main"
      BY <1>1, <3>2 DEF Closing
    <3>4. frame'["main"] = frame["main"]
      BY <2>2, <3>3 DEF Callers
    <3> QED BY <3>2, <3>4 DEF Closing, At, Active
  <2>7. /\ cpu' \in {"program", "exception", "handler", "handled"}
        /\ (Active("main") => (frame["main"].method = "start" <=> started))'
        /\ cpu' # "program" => enabled'
        /\ cpu' = "exception" => request'
    BY <1>1, <2>2, <2>5 DEF Control, Active, Callers
  <2>8. ASSUME posted' # NoRequest PROVE InFlight'
    <3>1. WriteParameter(k) /\ ~At(k, "ack")
      BY <1>1, <1>3, <2>8 DEF WriteCommand, WritePriority
    <3>2. /\ posted' = [cmd |-> reg_command, priority |-> reg_priority,
                        param |-> Request(f).param]
          /\ f.access = "param" /\ frame' = [frame EXCEPT ![k].access = "status"]
      BY <3>1 DEF WriteParameter, Accesses, GoTo
    <3>3. g.access = "status"
      BY <1>1, <3>2 DEF g, Frames, FrameOf
    <3>4. Writes(k)
      BY <1>1 DEF Control
    <3>5. Sends(k)'
      BY <3>2, <3>4, <2>4 DEF Writes, Sends, g
    <3>6. CASE k = "isr"
      <4>1. ~At("isr", "ack")'
        BY <1>1, <2>3, <3>1, <3>6 DEF At, Active, g
      <4> QED BY <1>1, <2>2, <3>3, <3>5, <3>6, <4>1 DEF InFlight, Turn, g
    <3>7. CASE k = "main"
      <4>1. ~enabled
        BY <1>1, <3>7 DEF Control, Closing
      <4> QED BY <1>1, <2>2, <2>3, <3>3, <3>5, <3>7, <4>1 DEF InFlight, Turn, g, Active
    <3> QED BY <3>6, <3>7 DEF Callers
  <2>9. ASSUME NEW j \in Callers, Turn(j)', Active(j)' PROVE Writes(j)'
    <3>1. j = k
      BY <1>1, <2>2, <2>9 DEF Turn, Callers
    <3>2. Writes(k)
      BY <1>1 DEF Control
    <3>3. ASSUME WriteCommand(k) PROVE Writes(k)'
      <4>1. At(k, "ack") => r.cmd = "INT_ACK"
        BY RequestFacts DEF At, Now
      <4>2. g.access = "param" => At(k, "ack")
        BY <1>1, <3>3 DEF WriteCommand, GoTo, g, Frames, FrameOf
      <4> QED BY <3>3, <2>3, <2>4, <4>1, <4>2 DEF Writes, WriteCommand, g
    <3>4. ASSUME WritePriority(k) PROVE Writes(k)'
      BY <3>4, <3>2, <2>4 DEF Writes, WritePriority, Accesses, g
    <3>5. ASSUME WriteParameter(k), ~At(k, "ack") PROVE Writes(k)'
      <4>1. frame' = [frame EXCEPT ![k].access = "status"]
        BY <3>5 DEF WriteParameter, GoTo
      <4>2. g.access = "status"
        BY <1>1, <4>1 DEF g, Frames, FrameOf
      <4> QED BY <4>2 DEF Writes, g
    <3> QED BY <1>3, <3>1, <3>3, <3>4, <3>5
  <2> QED BY <2>5, <2>6, <2>7, <2>8, <2>9 DEF Control
<1>4. CASE WriteParameter(k) /\ At(k, "ack")
  <2>1. /\ k = "isr" /\ cpu = "handler" /\ NextCall(k, f)
        /\ posted' = [cmd |-> reg_command, priority |-> reg_priority,
                      param |-> Request(f).param]
        /\ f.access = "param"
    BY <1>1, <1>2, <1>4 DEF WriteParameter, Accesses, Turn
  <2>2. /\ frame' = [j \in Callers |-> frame'[j]]
        /\ g = Advanced(f)
        /\ \A j \in Callers \ {k} : frame'[j] = frame[j]
        /\ cpu' = cpu
    BY <1>1, <2>1, NextCallFrame
  <2>3. Now(f) = "ack" /\ f.method = "handler" /\ More(f) /\ Then(f) = "removeHead"
    BY <1>1, <1>4, CallFacts DEF At, Now, Active
  <2>4. Framed(g) /\ Now(g) = "removeHead" /\ g.access = "cmd" /\ g.method = "handler"
    BY <1>1, <2>2, <2>3, AdvancedFramed, AdvancedFacts
  <2>5. r.cmd = "INT_ACK" /\ posted'.cmd = "INT_ACK"
    <3>1. Writes(k)
      BY <1>1 DEF Control
    <3> QED BY <2>1, <2>3, <3>1, RequestFacts DEF Writes
  <2> HIDE DEF g
  <2>6. frame'["main"] = frame["main"]
    BY <2>1, <2>2 DEF Callers
  <2>7. Frames'
    BY <1>1, <2>1, <2>2, <2>4, <2>6 DEF Frames, g, Callers
  <2>8. InFlight'
    BY <2>1, <2>2, <2>4, <2>5 DEF InFlight, At, Active, Now, g
  <2>9. \A j \in Callers : Turn(j)' /\ Active(j)' => Writes(j)'
    BY <2>1, <2>2, <2>4 DEF Turn, Callers, Writes, g
  <2> QED BY <1>1, <2>1, <2>2, <2>6, <2>7, <2>8, <2>9 DEF Control, Active, Closing, At
<1> QED BY <1>3, <1>4

\* execute_cmd goes on with the method, or the method returns.
LEMMA ControlContinues ==
  ASSUME Control, NEW k \in Callers, NEW value, Continue(k, value),
         Active(k), Turn(k), posted = NoRequest, frame[k].access \in {"status", "return"},
         UNCHANGED <<enabled, request, started, posted, reg_command, reg_priority>>
  PROVE  Control'
<1> DEFINE f == frame[k]
           kept == Keep(f, value)
<1>1. Frames /\ FrameOf(f) /\ Framed(f) /\ f.method # "none"
  BY DEF Control, Frames, Framed, Active
<1>2. FrameOf(kept) /\ kept.method = f.method /\ kept.todo = f.todo /\ kept.access = f.access
  BY <1>1, KeepFacts
<1>3. Framed(kept)
  BY <1>1, <1>2 DEF Framed
<1>4. CASE Leaves(kept, value)
  <2>1. /\ frame' = [j \in Callers |-> frame'[j]]
        /\ frame'[k] = NoFrame
        /\ \A j \in Callers \ {k} : frame'[j] = frame[j]
        /\ cpu' = IF k = "isr" THEN "handled" ELSE cpu
    BY <1>1, <1>4, ReturnsFrame DEF Continue
  <2>2. CASE k = "isr"
    <3>1. cpu = "handler" /\ cpu' = "handled" /\ frame'["main"] = frame["main"]
          /\ frame'["isr"] = NoFrame
      BY <2>1, <2>2 DEF Turn, Callers
    <3>2. Frames'
      BY <1>1, <2>1, <3>1, NoFrameFacts DEF Frames, Callers
    <3>3. \A j \in Callers : Turn(j)' /\ Active(j)' => Writes(j)'
      BY <3>1 DEF Turn, Callers
    <3> QED BY <3>1, <3>2, <3>3 DEF Control, Active, Closing, At
  <2>3. CASE k = "main"
    <3>1. cpu = "program" /\ cpu' = cpu /\ frame'["isr"] = frame["isr"]
          /\ frame'["main"] = NoFrame
      BY <2>1, <2>3 DEF Turn, Callers
    <3>2. Frames'
      BY <1>1, <2>1, <3>1, NoFrameFacts DEF Frames, Callers
    <3>3. ~Active("main")'
      BY <3>1, NoFrameFacts DEF Active
    <3>4. \A j \in Callers : Turn(j)' /\ Active(j)' => Writes(j)'
      BY <3>1, <3>3 DEF Turn, Callers
    <3> QED BY <3>1, <3>2, <3>3, <3>4 DEF Control
  <2> QED BY <2>2, <2>3 DEF Callers
<1>5. CASE ~Leaves(kept, value)
  <2>1. /\ frame' = [j \in Callers |-> frame'[j]]
        /\ frame'[k] = Advanced(kept)
        /\ \A j \in Callers \ {k} : frame'[j] = frame[j]
        /\ cpu' = cpu
    BY <1>1, <1>5, NextCallFrame DEF Continue
  <2>2. More(kept)
    BY <1>5 DEF Leaves, More
  <2>3. Framed(Advanced(kept)) /\ Advanced(kept).access = "cmd"
        /\ Advanced(kept).method = f.method
    BY <1>1, <1>2, <1>3, <2>2, AdvancedFramed, AdvancedFacts
  <2>4. \A j \in Callers : Framed(frame'[j]) /\ frame'[j].method = frame[j].method
    BY <1>1, <2>1, <2>3 DEF Frames
  <2>5. Frames'
    BY <1>1, <2>1, <2>4 DEF Frames, Callers
  <2>6. \A j \in Callers : Turn(j)' /\ Active(j)' => Writes(j)'
    BY <2>1, <2>3 DEF Turn, Callers, Writes
  <2>7. ASSUME enabled', Active("main")' PROVE Closing'
    <3>1. Active("main") /\ Closing
      BY <2>4, <2>7 DEF Control, Active, Callers
    <3>2. k # "main"
      BY <1>1, <1>2, <1>3, <2>2, <3>1, CallFacts DEF Closing, At, Now, More
    <3> QED BY <2>1, <3>1, <3>2 DEF Closing, At, Active, Callers
  <2> QED BY <2>1, <2>4, <2>5, <2>6, <2>7 DEF Control, Active, Callers
<1> QED BY <1>4, <1>5

LEMMA ControlReads ==
  ASSUME Control, NEW k \in Callers, ReadStatus(k) \/ ReadReturn(k)
  PROVE  Control'
<1> DEFINE f == frame[k]
<1>1. /\ Active(k) /\ Turn(k) /\ posted = NoRequest /\ f.access \in {"status", "return"}
      /\ UNCHANGED <<enabled, request, started, posted, reg_command, reg_priority>>
  BY DEF ReadStatus, ReadReturn, Accesses, block, adapter
<1>2. Frames /\ FrameOf(f) /\ Framed(f)
  BY DEF Control, Frames, Framed
<1>3. CASE \E value : Continue(k, value)
  BY <1>1, <1>3, ControlContinues
<1>4. CASE GoTo(k, "return")
  <2> DEFINE g == frame'[k]
  <2>1. /\ frame' = [j \in Callers |-> frame'[j]]
        /\ g = [f EXCEPT !.access = "return"]
        /\ \A j \in Callers \ {k} : frame'[j] = frame[j]
        /\ cpu' = cpu
    BY <1>2, <1>4, GoToFrame
  <2>2. Framed(g) /\ g.access = "return" /\ g.method = f.method /\ g.todo = f.todo
    BY <1>2, <2>1, AccessFacts DEF Framed
  <2> HIDE DEF g
  <2>3. \A j \in Callers : /\ Framed(frame'[j]) /\ frame'[j].method = frame[j].method
                           /\ frame'[j].todo = frame[j].todo
    BY <1>2, <2>1, <2>2 DEF Frames, g
  <2>4. Frames'
    BY <1>2, <2>1, <2>3 DEF Frames, Callers
  <2>5. \A j \in Callers : Turn(j)' /\ Active(j)' => Writes(j)'
    BY <1>1, <2>1, <2>2 DEF Turn, Callers, Writes, g
  <2>6. ASSUME enabled', Active("main")' PROVE Closing'
    <3>1. Active("main") /\ Closing
      BY <1>1, <2>3, <2>6 DEF Control, Active, Callers
    <3>2. frame'["main"].access \in {"status", "return"}
      BY <2>1, <2>2, <3>1 DEF Closing, Callers, g
    <3> QED BY <2>3, <3>1, <3>2 DEF Closing, At, Active, Callers
  <2> QED BY <1>1, <2>1, <2>3, <2>4, <2>5, <2>6 DEF Control, Active, Callers
<1> QED BY <1>3, <1>4 DEF ReadStatus, ReadReturn

LEMMA ControlExecute ==
  ASSUME Control, Execute
  PROVE  Control'
<1>1. /\ posted # NoRequest /\ posted' = NoRequest
      /\ enabled' = (posted.cmd = "ENABLE" \/ (enabled /\ posted.cmd \notin {"DISABLE", "RESET"}))
      /\ UNCHANGED <<reg_command, reg_priority, cpu, frame, started>>
  BY DEF Execute
<1>2. InFlight /\ Frames
  BY <1>1 DEF Control
<1>3. cpu = "handler" => posted.cmd \notin {"ENABLE", "DISABLE", "RESET"}
  <2> SUFFICES ASSUME cpu = "handler" PROVE posted.cmd \notin {"ENABLE", "DISABLE", "RESET"}
    OBVIOUS
  <2>1. Framed(frame["isr"]) /\ frame["isr"].method = "handler"
    BY <1>2 DEF Frames, Callers
  <2>2. Now(frame["isr"]) \in Calls \ {"enable", "disable", "reset"}
    BY <2>1, CallFacts
  <2>3. Sends("isr") => posted.cmd \notin {"ENABLE", "DISABLE", "RESET"}
    BY <2>2, RequestFacts DEF Sends
  <2> QED BY <1>2, <2>3 DEF InFlight
<1>4. ASSUME posted.cmd = "ENABLE"
      PROVE  /\ started /\ Active("main") /\ Closing
  <2>1. cpu = "program" /\ Active("main") /\ frame["main"].access = "status" /\ Sends("main")
    BY <1>2, <1>3, <1>4 DEF InFlight
  <2>2. Framed(frame["main"]) /\ frame["main"].method \in ProgramMethods
    BY <1>2, <2>1 DEF Frames, Active, Callers
  <2>3. Request(frame["main"]).cmd = "ENABLE"
    BY <1>4, <2>1 DEF Sends
  <2>4. Now(frame["main"]) = "enable"
    BY <2>1, <2>2, <2>3, CallFacts, RequestFacts DEF Active
  <2>5. frame["main"].method = "start"
    BY <2>1, <2>2, <2>4, CallFacts DEF Active, ProgramMethods
  <2> QED BY <2>1, <2>4, <2>5 DEF Control, Closing, At, Now
<1>5. enabled' => started' /\ (Active("main") => Closing)'
  BY <1>1, <1>4 DEF Control, Active, Closing, At
<1>6. cpu' # "program" => enabled'
  BY <1>1, <1>2, <1>3 DEF Control, InFlight
<1>7. cpu' = "exception" => request'
  BY <1>1, <1>2 DEF InFlight
<1> QED BY <1>1, <1>2, <1>5, <1>6, <1>7 DEF Control, Frames, Active, Turn, Writes

LEMMA ControlInterrupts ==
  ASSUME Control, Raise \/ TakeException \/ Dispatch
  PROVE  Control'
<1>1. CASE Raise
  BY <1>1 DEF Raise, Control, Frames, InFlight, Sends, Writes, Active, Turn, Closing, At, adapter
<1>2. CASE TakeException
  <2>1. cpu = "program" /\ cpu' = "exception" /\ request /\ enabled
        /\ UNCHANGED <<enabled, request, started, posted, frame>>
    BY <1>2 DEF TakeException, p_interrupt, block, adapter
  <2>2. posted = NoRequest
    BY <2>1 DEF Control, InFlight
  <2> QED BY <2>1, <2>2 DEF Control, Frames, Active, Turn, Closing, At, Callers
<1>3. CASE Dispatch
  <2>1. cpu \in {"exception", "handled"} /\ posted = NoRequest /\ enabled
        /\ (cpu = "exception" => request)
        /\ UNCHANGED <<enabled, request, started, posted, reg_command, reg_priority>>
    BY <1>3 DEF Dispatch, block, adapter, Control
  <2>2. Frames
    BY DEF Control
  <2>3. CASE /\ p_interrupt
             /\ cpu' = "handler"
             /\ frame' = [frame EXCEPT !["isr"] = Enter("handler", 0)]
    <3> DEFINE g == Enter("handler", 0)
    <3>1. Framed(g) /\ g.method = "handler" /\ g.access = "cmd"
      BY Names, EnterFacts
    <3> HIDE DEF g
    <3>2. frame' = [j \in Callers |-> frame'[j]] /\ frame'["isr"] = g
          /\ frame'["main"] = frame["main"]
      BY <2>2, <2>3 DEF Frames, Callers, g
    <3>3. Frames'
      BY <2>2, <2>3, <3>1, <3>2 DEF Frames, Callers
    <3>4. \A j \in Callers : Turn(j)' /\ Active(j)' => Writes(j)'
      BY <2>3, <3>1, <3>2 DEF Turn, Callers, Writes
    <3> QED BY <2>1, <2>3, <3>2, <3>3, <3>4 DEF Control, Active, Closing, At
  <2>4. CASE ~p_interrupt /\ cpu' = (IF cpu = "exception" THEN "break" ELSE "program")
             /\ UNCHANGED frame
    <3>1. cpu = "handled" /\ cpu' = "program"
      BY <2>1, <2>4 DEF p_interrupt
    <3>2. Active("main") => Closing
      BY <2>1 DEF Control
    <3>3. \A j \in Callers : Turn(j)' /\ Active(j)' => Writes(j)'
      BY <2>4, <3>1, <3>2 DEF Turn, Callers, Writes, Active, Closing
    <3> QED BY <2>1, <2>4, <3>1, <3>3 DEF Control, Frames, Active, Closing, At
  <2> QED BY <1>3, <2>3, <2>4 DEF Dispatch
<1> QED BY <1>1, <1>2, <1>3

LEMMA ControlCall ==
  ASSUME Control, Rests, NEW method \in Methods, NEW obj, Call(method, obj)
  PROVE  Control'
<1> DEFINE g == Enter(method, obj)
<1>1. /\ cpu = "program" /\ cpu' = "program" /\ ~Active("main") /\ ~started /\ ~enabled
      /\ frame' = [frame EXCEPT !["main"] = g]
      /\ started' = (method = "start")
      /\ UNCHANGED <<enabled, request, posted, reg_command, reg_priority>>
  BY DEF Call, Rests, Control, block, adapter
<1>2. method \in ProgramMethods
  BY DEF Rests
<1>3. Framed(g) /\ g.method = method /\ g.access = "cmd"
  BY <1>2, Names, EnterFacts
<1> HIDE DEF g
<1>4. frame' = [j \in Callers |-> frame'[j]] /\ frame'["main"] = g /\ frame'["isr"] = frame["isr"]
  BY <1>1 DEF Control, Frames, Callers
<1>5. Frames'
  BY <1>1, <1>2, <1>3, <1>4 DEF Control, Frames, Callers
<1>6. \A j \in Callers : Turn(j)' /\ Active(j)' => Writes(j)'
  BY <1>1, <1>3, <1>4 DEF Turn, Callers, Writes
<1>7. posted' = NoRequest
  BY <1>1 DEF Control, InFlight
<1> QED BY <1>1, <1>3, <1>4, <1>5, <1>6, <1>7 DEF Control, Active

LEMMA ControlNext ==
  ASSUME Rests, Control, [DriverNext]_driverVars
  PROVE  Control'
<1>1. CASE UNCHANGED driverVars
  BY <1>1 DEF driverVars, rqVars, block, adapter, Control, Frames, InFlight, Sends, Writes, Active,
     Turn, Closing, At
<1>2. CASE \E k \in Callers : ExecuteCmd(k)
  BY <1>2, ControlWrites, ControlReads DEF ExecuteCmd
<1>3. CASE Execute
  BY <1>3, ControlExecute
<1>4. CASE Raise \/ TakeException \/ Dispatch
  BY <1>4, ControlInterrupts
<1>5. CASE \E method \in Methods, obj \in Objects \cup {0} : Call(method, obj)
  BY <1>5, ControlCall
<1>6. CASE Loop
  BY <1>1, <1>6 DEF Loop
<1> QED BY <1>1, <1>2, <1>3, <1>4, <1>5, <1>6 DEF DriverNext, Machine, Callers

\* execute_cmd sends the command it was called with: if the program rests once the timer
\* is started, the handler never comes between the writes of a call.
THEOREM CallsArrive ==
  ASSUME Rests
  PROVE  DriverSpec => AsRequested
<1> DEFINE Caller == IF cpu = "handler" THEN "isr" ELSE "main"
           Asked == posted = NoRequest /\ posted' # NoRequest =>
                      LET r == Request(frame[Caller])
                      IN /\ posted'.cmd = r.cmd
                         /\ posted'.param = r.param
                         /\ r.cmd \in {"CREATE", "INSERT"} => posted'.priority = r.priority
<1>1. ASSUME Control, [DriverNext]_driverVars
      PROVE  Asked
  <2> SUFFICES ASSUME posted = NoRequest, posted' # NoRequest
               PROVE  LET r == Request(frame[Caller])
                      IN /\ posted'.cmd = r.cmd
                         /\ posted'.param = r.param
                         /\ r.cmd \in {"CREATE", "INSERT"} => posted'.priority = r.priority
    BY DEF Asked
  <2>1. PICK k \in Callers : WriteParameter(k)
    BY <1>1 DEF DriverNext, Machine, ExecuteCmd, WriteCommand, WritePriority, ReadStatus,
       ReadReturn, Execute, Raise, TakeException, Dispatch, Call, Loop, driverVars, adapter, Callers
  <2>2. Turn(k) /\ Active(k) /\ frame[k].access = "param"
        /\ posted' = [cmd |-> reg_command, priority |-> reg_priority,
                      param |-> Request(frame[k]).param]
    BY <2>1 DEF WriteParameter, Accesses
  <2>3. k = Caller /\ Writes(k)
    BY <1>1, <2>2 DEF Turn, Callers, Control
  <2> HIDE DEF Caller
  <2> QED BY <2>2, <2>3 DEF Writes
<1>2. Control /\ [DriverNext]_driverVars => [Asked]_driverVars
  BY <1>1
<1>3. DriverSpec => []Control
  BY ControlInit, ControlNext, PTL DEF DriverSpec
<1> QED BY <1>2, <1>3, PTL DEF DriverSpec, AsRequested

\* An exception taken for the scheduler finds its interrupt still pending.
THEOREM PendingInterrupts ==
  ASSUME Rests
  PROVE  DriverSpec => []NoSpuriousException
<1>1. Control => NoSpuriousException
  BY DEF Control, NoSpuriousException
<1>2. DriverSpec => []Control
  BY ControlInit, ControlNext, PTL DEF DriverSpec
<1> QED BY <1>1, <1>2, PTL

-----------------------------------------------------------------------------
(***************************************************************************)
(* Data: what the driver knows of the block.                                *)
(***************************************************************************)
\* The program respects what the methods assume, the objects do not fill the table, and
\* every priority is a positive number, as those of main.cpp.
Fits ==
  /\ Careful
  /\ IsFiniteSet(Threads) /\ IsFiniteSet(Objects)
  /\ Cardinality(Objects) < Cardinality(Threads)
  /\ \A obj \in Objects : Prio[obj] > 0

\* CREATE takes the largest free identifier, so this one is always free.
Spare == CHOOSE t \in Threads : \A u \in Threads : t <= u

LEMMA Extremes ==
  ASSUME NEW S \in SUBSET Int, S # {}, IsFiniteSet(S)
  PROVE  /\ \E m \in S : \A n \in S : n <= m
         /\ \E m \in S : \A n \in S : m <= n
<1> DEFINE Above(n) == {x \in S : x > n}
           Below(n) == {x \in S : x < n}
           A == {Above(n) : n \in S}
           B == {Below(n) : n \in S}
           R == StrictSubsetOrdering(S)
<1>1. \A T \in SUBSET S : T \in FiniteSubsetsOf(S)
  BY FS_Subset DEF FiniteSubsetsOf
<1>2. A \subseteq FiniteSubsetsOf(S) /\ A # {} /\ B \subseteq FiniteSubsetsOf(S) /\ B # {}
  BY <1>1
<1>3. IsWellFoundedOn(R, FiniteSubsetsOf(S))
  BY FS_StrictSubsetOrderingWellFounded
<1>4. /\ \E x \in A : \A y \in A : <<y, x>> \notin R
      /\ \E x \in B : \A y \in B : <<y, x>> \notin R
  <2> HIDE DEF A, B, R
  <2> QED BY <1>2, <1>3, WFMin
<1>5. PICK m \in S : \A n \in S : <<Above(n), Above(m)>> \notin R
  BY <1>4
<1>6. PICK l \in S : \A n \in S : <<Below(n), Below(l)>> \notin R
  BY <1>4
<1> HIDE DEF A, B, R
<1>7. ASSUME NEW n \in S, n > m
      PROVE  <<Above(n), Above(m)>> \in R
  <2>1. Above(n) \subseteq Above(m) /\ n \in Above(m) /\ n \notin Above(n)
    <3>1. n \in Int /\ m \in Int /\ \A x \in S : x \in Int
      OBVIOUS
    <3>2. \A x \in S : x > n => x > m
      BY <1>7, <3>1
    <3>3. n \in Above(m) /\ n \notin Above(n)
      BY <1>7, <3>1
    <3>4. Above(n) \subseteq Above(m)
      BY <3>2
    <3> QED BY <3>3, <3>4
  <2>2. Above(n) \in SUBSET S /\ Above(m) \in SUBSET S
    OBVIOUS
  <2> HIDE DEF Above
  <2> QED BY <2>1, <2>2 DEF StrictSubsetOrdering, R
<1>8. ASSUME NEW n \in S, n < l
      PROVE  <<Below(n), Below(l)>> \in R
  <2>1. Below(n) \subseteq Below(l) /\ n \in Below(l) /\ n \notin Below(n)
    <3>1. n \in Int /\ l \in Int /\ \A x \in S : x \in Int
      OBVIOUS
    <3>2. \A x \in S : x < n => x < l
      BY <1>8, <3>1
    <3>3. n \in Below(l) /\ n \notin Below(n)
      BY <1>8, <3>1
    <3>4. Below(n) \subseteq Below(l)
      BY <3>2
    <3> QED BY <3>3, <3>4
  <2>2. Below(n) \in SUBSET S /\ Below(l) \in SUBSET S
    OBVIOUS
  <2> HIDE DEF Below
  <2> QED BY <2>1, <2>2 DEF StrictSubsetOrdering, R
<1> HIDE DEF Above, Below
<1>9. (\A n \in S : n <= m) /\ (\A n \in S : l <= n)
  <2>1. \A n \in S : ~(n > m) /\ ~(n < l)
    BY <1>5, <1>6, <1>7, <1>8
  <2>2. m \in Int /\ l \in Int /\ \A x \in S : x \in Int
    OBVIOUS
  <2> QED BY <2>1, <2>2
<1> QED BY <1>9

LEMMA SpareFacts ==
  ASSUME Fits
  PROVE  Spare \in Threads /\ \A u \in Threads : Spare <= u
<1>1. Threads # {}
  BY FS_EmptySet, FS_CardinalityType DEF Fits
<1>2. \E t \in Threads : \A u \in Threads : t <= u
  BY <1>1, ThreadsAssumption, Extremes DEF Fits
<1> QED BY <1>2 DEF Spare

-----------------------------------------------------------------------------
(***************************************************************************)
(* The queue: a thread joins it and leaves it.                              *)
(***************************************************************************)
Ids(seq) == {seq[i].tid : i \in 1..Len(seq)}

\* A queue of threads, none of them twice.
Line(seq) ==
  /\ seq \in Seq(Entry)
  /\ \A i, j \in 1..Len(seq) : seq[i].tid = seq[j].tid => i = j

LEMMA LineFacts ==
  ASSUME NEW seq, Line(seq)
  PROVE  /\ seq \in Seq(Entry) /\ Len(seq) \in Nat
         /\ \A i \in 1..Len(seq) : seq[i] \in Entry /\ seq[i].tid \in Threads
         /\ \A i, j \in 1..Len(seq) : seq[i].tid = seq[j].tid => i = j
         /\ Ids(seq) \subseteq Threads
         /\ seq = <<>> <=> Ids(seq) = {}
<1>1. seq \in Seq(Entry) /\ Len(seq) \in Nat /\ \A i \in 1..Len(seq) : seq[i] \in Entry
  BY DEF Line
<1>2. \A e \in Entry : e.tid \in Threads
  BY DEF Entry
<1>3. seq = <<>> <=> Len(seq) = 0
  BY <1>1, EmptySeq
<1>4. Len(seq) = 0 <=> Ids(seq) = {}
  <2>1. Len(seq) = 0 => Ids(seq) = {}
    BY DEF Ids
  <2>2. Len(seq) # 0 => 1 \in 1..Len(seq)
    BY <1>1
  <2>3. Len(seq) # 0 => seq[1].tid \in Ids(seq)
    BY <2>2 DEF Ids
  <2> QED BY <2>1, <2>3
<1>5. Ids(seq) \subseteq Threads
  BY <1>1, <1>2 DEF Ids
<1> QED BY <1>1, <1>2, <1>3, <1>4, <1>5 DEF Line

LEMMA FrontFacts ==
  ASSUME Line(ready), NEW key
  PROVE  LET n == FrontLength(key)
         IN /\ n \in 0..Len(ready)
            /\ \A i \in 1..n : ready[i].key <= key
            /\ n < Len(ready) => ~(ready[n + 1].key <= key)
<1> DEFINE fits == {n \in 0..Len(ready) : \A i \in 1..n : ready[i].key <= key}
           n == FrontLength(key)
<1>1. Len(ready) \in Nat
  BY LineFacts
<1>2. 0 \in fits /\ fits \in SUBSET Int /\ fits \subseteq 0..Len(ready)
  BY <1>1
<1>3. IsFiniteSet(fits)
  <2>1. IsFiniteSet(0..Len(ready)) /\ fits \in SUBSET (0..Len(ready))
    BY <1>1, <1>2, FS_Interval
  <2> HIDE DEF fits
  <2> QED BY <2>1, FS_Subset
<1>4. \E m \in fits : \A l \in fits : l <= m
  <2> HIDE DEF fits
  <2> QED BY <1>2, <1>3, Extremes
<1>5. n \in fits /\ \A m \in fits : m <= n
  <2> HIDE DEF fits
  <2>1. n = CHOOSE m \in fits : \A l \in fits : l <= m
    BY DEF FrontLength, fits
  <2> HIDE DEF n
  <2> QED BY <1>4, <2>1
<1> HIDE DEF n
<1>6. ASSUME n < Len(ready), ready[n + 1].key <= key
      PROVE  FALSE
  <2>1. \A i \in 1..(n + 1) : i \in 1..n \/ i = n + 1
    BY <1>1, <1>5
  <2>2. n + 1 \in fits
    BY <1>1, <1>5, <1>6, <2>1
  <2> HIDE DEF fits
  <2>3. n + 1 <= n /\ n \in Int
    BY <1>2, <1>5, <2>2
  <2> QED BY <2>3
<1> QED BY <1>5, <1>6 DEF n

\* Where a new entry goes.
LEMMA PlacedFacts ==
  ASSUME Line(ready), NEW entry \in Entry
  PROVE  \E n \in 0..Len(ready) :
           /\ \A i \in 1..n : ready[i].key <= entry.key
           /\ n < Len(ready) => ~(ready[n + 1].key <= entry.key)
           /\ Placed(entry) \in Seq(Entry) /\ Len(Placed(entry)) = Len(ready) + 1
           /\ \A i \in 1..(Len(ready) + 1) :
                Placed(entry)[i] = IF i <= n THEN ready[i]
                                   ELSE IF i = n + 1 THEN entry ELSE ready[i - 1]
<1> DEFINE n == FrontLength(entry.key)
           front == SubSeq(ready, 1, n)
           back  == SubSeq(ready, n + 1, Len(ready))
           new == front \o <<entry>> \o back
<1>1. /\ ready \in Seq(Entry) /\ Len(ready) \in Nat /\ n \in Nat /\ n <= Len(ready)
      /\ \A i \in 1..Len(ready) : ready[i] \in Entry
      /\ \A i \in 1..n : ready[i].key <= entry.key
      /\ n < Len(ready) => ~(ready[n + 1].key <= entry.key)
  BY LineFacts, FrontFacts
<1> HIDE DEF n
<1>2. /\ front \in Seq(Entry) /\ Len(front) = n
      /\ \A i \in 1..n : front[i] = ready[i]
  <2>1. \A i \in 1..n : ready[i] \in Entry
    BY <1>1
  <2>2. n \in Int /\ 1 \in Int
    BY <1>1
  <2>3. /\ front \in Seq(Entry) /\ Len(front) = IF 1 <= n THEN n - 1 + 1 ELSE 0
        /\ \A i \in 1..(n - 1 + 1) : front[i] = ready[1 + i - 1]
    BY <2>1, <2>2, SubSeqProperties
  <2> QED BY <1>1, <2>3
<1>3. /\ back \in Seq(Entry) /\ Len(back) = Len(ready) - n
      /\ \A i \in 1..(Len(ready) - n) : back[i] = ready[n + i]
  <2>1. \A i \in (n + 1)..Len(ready) : ready[i] \in Entry
    BY <1>1
  <2>2. n + 1 \in Int /\ Len(ready) \in Int
    BY <1>1
  <2>3. /\ back \in Seq(Entry)
        /\ Len(back) = IF n + 1 <= Len(ready) THEN Len(ready) - (n + 1) + 1 ELSE 0
        /\ \A i \in 1..(Len(ready) - (n + 1) + 1) : back[i] = ready[(n + 1) + i - 1]
    BY <2>1, <2>2, SubSeqProperties
  <2> QED BY <1>1, <2>3
<1> HIDE DEF front, back
<1> DEFINE first == front \o <<entry>>
<1>4. <<entry>> \in Seq(Entry) /\ Len(<<entry>>) = 1 /\ <<entry>>[1] = entry
  OBVIOUS
<1>5. /\ first \in Seq(Entry) /\ Len(first) = n + 1
      /\ \A i \in 1..(n + 1) : first[i] = IF i <= n THEN ready[i] ELSE entry
  <2>1. /\ first \in Seq(Entry) /\ Len(first) = Len(front) + Len(<<entry>>)
        /\ \A i \in 1..(Len(front) + Len(<<entry>>)) :
             first[i] = IF i <= Len(front) THEN front[i] ELSE <<entry>>[i - Len(front)]
    BY <1>2, <1>4, ConcatProperties
  <2> QED BY <1>1, <1>2, <1>4, <2>1
<1>6. new = first \o back
  OBVIOUS
<1> HIDE DEF first, new
<1>7. /\ new \in Seq(Entry) /\ Len(new) = Len(ready) + 1
      /\ \A i \in 1..(Len(ready) + 1) : new[i] = IF i <= n THEN ready[i]
                                                ELSE IF i = n + 1 THEN entry ELSE ready[i - 1]
  <2>1. /\ new \in Seq(Entry) /\ Len(new) = Len(first) + Len(back)
        /\ \A i \in 1..(Len(first) + Len(back)) :
             new[i] = IF i <= Len(first) THEN first[i] ELSE back[i - Len(first)]
    BY <1>3, <1>5, <1>6, ConcatProperties
  <2>2. Len(new) = Len(ready) + 1 /\ Len(first) + Len(back) = Len(ready) + 1
    BY <1>1, <1>3, <1>5, <2>1
  <2>3. ASSUME NEW i \in 1..(Len(ready) + 1)
        PROVE  new[i] = IF i <= n THEN ready[i] ELSE IF i = n + 1 THEN entry ELSE ready[i - 1]
    <3>1. new[i] = IF i <= n + 1 THEN first[i] ELSE back[i - (n + 1)]
      BY <1>5, <2>1, <2>2
    <3>2. CASE i <= n + 1
      BY <1>1, <1>5, <3>1, <3>2
    <3>3. CASE ~(i <= n + 1)
      <4>1. i - (n + 1) \in 1..(Len(ready) - n) /\ n + (i - (n + 1)) = i - 1
        BY <1>1, <3>3
      <4> QED BY <1>1, <1>3, <3>1, <3>3, <4>1
    <3> QED BY <3>2, <3>3
  <2> QED BY <2>1, <2>2, <2>3
<1>8. Placed(entry) = new
  BY DEF Placed, new, front, back, n
<1> QED BY <1>1, <1>7, <1>8

LEMMA LineWith ==
  ASSUME Line(ready), NEW entry \in Entry, entry.tid \notin Ids(ready)
  PROVE  /\ Line(Placed(entry))
         /\ Ids(Placed(entry)) = Ids(ready) \cup {entry.tid}
<1> DEFINE new == Placed(entry)
<1>1. /\ Len(ready) \in Nat
      /\ \A i \in 1..Len(ready) : ready[i] \in Entry
      /\ \A i, j \in 1..Len(ready) : ready[i].tid = ready[j].tid => i = j
  BY LineFacts
<1>2. PICK n \in 0..Len(ready) :
        /\ new \in Seq(Entry) /\ Len(new) = Len(ready) + 1
        /\ \A i \in 1..(Len(ready) + 1) : new[i] = IF i <= n THEN ready[i]
                                                   ELSE IF i = n + 1 THEN entry ELSE ready[i - 1]
  BY PlacedFacts
<1> HIDE DEF new
<1>3. \A i \in 1..Len(ready) : ready[i].tid # entry.tid
  BY DEF Ids
<1>4. ASSUME NEW i \in 1..Len(new), NEW j \in 1..Len(new), new[i].tid = new[j].tid
      PROVE  i = j
  <2> DEFINE from(x) == IF x <= n THEN x ELSE x - 1
  <2>1. \A x \in 1..Len(new) : x # n + 1 => from(x) \in 1..Len(ready) /\ new[x] = ready[from(x)]
    BY <1>1, <1>2
  <2>2. \A x \in 1..Len(new) : new[x].tid = entry.tid <=> x = n + 1
    <3>1. \A x \in 1..Len(new) : x = n + 1 => new[x] = entry
      BY <1>1, <1>2
    <3> HIDE DEF from
    <3> QED BY <1>3, <2>1, <3>1
  <2>3. CASE i = n + 1 \/ j = n + 1
    BY <1>4, <2>2, <2>3
  <2>4. CASE i # n + 1 /\ j # n + 1
    <3>1. from(i) = from(j)
      <4> HIDE DEF from
      <4> QED BY <1>1, <1>4, <2>1, <2>4
    <3> QED BY <1>1, <1>2, <2>4, <3>1
  <2> QED BY <2>3, <2>4
<1>5. Ids(new) = Ids(ready) \cup {entry.tid}
  <2>1. Ids(new) \subseteq Ids(ready) \cup {entry.tid}
    BY <1>1, <1>2 DEF Ids
  <2>2. entry.tid \in Ids(new)
    <3>1. n + 1 \in 1..Len(new) /\ new[n + 1] = entry
      BY <1>1, <1>2
    <3> QED BY <3>1 DEF Ids
  <2>3. ASSUME NEW i \in 1..Len(ready)
        PROVE  ready[i].tid \in Ids(new)
    <3>1. CASE i <= n
      <4>1. i \in 1..Len(new) /\ new[i] = ready[i]
        BY <1>1, <1>2, <3>1
      <4> QED BY <4>1 DEF Ids
    <3>2. CASE ~(i <= n)
      <4>1. i + 1 \in 1..Len(new) /\ new[i + 1] = ready[i]
        BY <1>1, <1>2, <3>2
      <4> QED BY <4>1 DEF Ids
    <3> QED BY <3>1, <3>2
  <2> QED BY <2>1, <2>2, <2>3 DEF Ids
<1> QED BY <1>2, <1>4, <1>5 DEF Line, new

LEMMA WithoutFacts ==
  ASSUME Line(ready), NEW tid, IsReady(tid)
  PROVE  \E k \in 1..Len(ready) :
           /\ ready[k].tid = tid
           /\ Without(tid) \in Seq(Entry) /\ Len(Without(tid)) = Len(ready) - 1
           /\ \A i \in 1..(Len(ready) - 1) :
                Without(tid)[i] = IF i < k THEN ready[i] ELSE ready[i + 1]
<1> DEFINE k == CHOOSE i \in 1..Len(ready) : ready[i].tid = tid
           front == SubSeq(ready, 1, k - 1)
           back  == SubSeq(ready, k + 1, Len(ready))
           new == front \o back
<1>1. k \in 1..Len(ready) /\ ready[k].tid = tid
  BY DEF IsReady
<1>2. Without(tid) = new
  BY DEF Without
<1> HIDE DEF k
<1>3. /\ ready \in Seq(Entry) /\ Len(ready) \in Nat /\ k \in Int /\ 1 <= k /\ k <= Len(ready)
      /\ \A i \in 1..Len(ready) : ready[i] \in Entry
  BY <1>1, LineFacts
<1>4. /\ front \in Seq(Entry) /\ Len(front) = k - 1
      /\ \A i \in 1..(k - 1) : front[i] = ready[i]
  <2>1. \A i \in 1..(k - 1) : ready[i] \in Entry
    BY <1>3
  <2>2. k - 1 \in Int /\ 1 \in Int
    BY <1>3
  <2> QED BY <1>3, <2>1, <2>2, SubSeqProperties
<1>5. /\ back \in Seq(Entry) /\ Len(back) = Len(ready) - k
      /\ \A i \in 1..(Len(ready) - k) : back[i] = ready[k + i]
  <2>1. \A i \in (k + 1)..Len(ready) : ready[i] \in Entry
    BY <1>3
  <2>2. k + 1 \in Int /\ Len(ready) \in Int
    BY <1>3
  <2>3. /\ back \in Seq(Entry)
        /\ Len(back) = IF k + 1 <= Len(ready) THEN Len(ready) - (k + 1) + 1 ELSE 0
        /\ \A i \in 1..(Len(ready) - (k + 1) + 1) : back[i] = ready[(k + 1) + i - 1]
    BY <2>1, <2>2, SubSeqProperties
  <2> QED BY <1>3, <2>3
<1> HIDE DEF front, back
<1>6. /\ new \in Seq(Entry) /\ Len(new) = Len(ready) - 1
      /\ \A i \in 1..(Len(ready) - 1) : new[i] = IF i < k THEN ready[i] ELSE ready[i + 1]
  <2>1. /\ new \in Seq(Entry) /\ Len(new) = Len(front) + Len(back)
        /\ \A i \in 1..(Len(front) + Len(back)) :
             new[i] = IF i <= Len(front) THEN front[i] ELSE back[i - Len(front)]
    BY <1>4, <1>5, ConcatProperties
  <2> HIDE DEF new
  <2>2. Len(new) = Len(ready) - 1 /\ Len(front) + Len(back) = Len(ready) - 1
    BY <1>3, <1>4, <1>5, <2>1
  <2>3. ASSUME NEW i \in 1..(Len(ready) - 1)
        PROVE  new[i] = IF i < k THEN ready[i] ELSE ready[i + 1]
    <3>1. new[i] = IF i <= k - 1 THEN front[i] ELSE back[i - (k - 1)]
      BY <1>4, <2>1, <2>2
    <3>2. CASE i < k
      BY <1>3, <1>4, <3>1, <3>2
    <3>3. CASE ~(i < k)
      <4>1. i - (k - 1) \in 1..(Len(ready) - k) /\ k + (i - (k - 1)) = i + 1
        BY <1>3, <3>3
      <4>2. back[i - (k - 1)] = ready[i + 1]
        BY <1>5, <4>1
      <4> QED BY <1>3, <3>1, <3>3, <4>2
    <3> QED BY <3>2, <3>3
  <2> QED BY <2>1, <2>2, <2>3
<1> HIDE DEF new
<1> QED BY <1>1, <1>2, <1>6

LEMMA LineWithout ==
  ASSUME Line(ready), NEW tid
  PROVE  /\ Line(Without(tid))
         /\ Ids(Without(tid)) = Ids(ready) \ {tid}
         /\ IsReady(tid) <=> tid \in Ids(ready)
<1>0. IsReady(tid) <=> tid \in Ids(ready)
  BY DEF IsReady, Ids
<1>1. CASE ~IsReady(tid)
  BY <1>0, <1>1 DEF Without
<1>2. CASE IsReady(tid)
  <2> DEFINE new == Without(tid)
  <2>1. PICK k \in 1..Len(ready) :
          /\ ready[k].tid = tid
          /\ new \in Seq(Entry) /\ Len(new) = Len(ready) - 1
          /\ \A i \in 1..(Len(ready) - 1) : new[i] = IF i < k THEN ready[i] ELSE ready[i + 1]
    BY <1>2, WithoutFacts
  <2>2. /\ Len(ready) \in Nat
        /\ \A i, j \in 1..Len(ready) : ready[i].tid = ready[j].tid => i = j
    BY LineFacts
  <2> HIDE DEF new
  <2>3. ASSUME NEW i \in 1..Len(new), NEW j \in 1..Len(new), new[i].tid = new[j].tid
        PROVE  i = j
    <3> DEFINE from(x) == IF x < k THEN x ELSE x + 1
    <3>1. \A x \in 1..Len(new) : from(x) \in 1..Len(ready) /\ new[x] = ready[from(x)]
      BY <2>2, <2>1
    <3>2. from(i) = from(j)
      <4> HIDE DEF from
      <4> QED BY <2>2, <2>3, <3>1
    <3> QED BY <2>2, <2>1, <3>2
  <2>4. Ids(new) = Ids(ready) \ {tid}
    <3>1. ASSUME NEW i \in 1..Len(new)
          PROVE  new[i].tid \in Ids(ready) \ {tid}
      <4>1. PICK j \in 1..Len(ready) : j # k /\ new[i] = ready[j]
        BY <2>2, <2>1
      <4> QED BY <2>1, <2>2, <4>1 DEF Ids
    <3>2. ASSUME NEW i \in 1..Len(ready), ready[i].tid # tid
          PROVE  ready[i].tid \in Ids(new)
      <4>1. i # k
        BY <2>1, <3>2
      <4>2. PICK j \in 1..Len(new) : new[j] = ready[i]
        <5>1. CASE i < k
          BY <2>2, <2>1, <5>1
        <5>2. CASE ~(i < k)
          <6>1. i - 1 \in 1..Len(new) /\ ~(i - 1 < k) /\ (i - 1) + 1 = i
            BY <2>2, <2>1, <4>1, <5>2
          <6> QED BY <2>1, <6>1
        <5> QED BY <5>1, <5>2
      <4> QED BY <4>2 DEF Ids
    <3> QED BY <3>1, <3>2 DEF Ids
  <2> QED BY <1>0, <2>1, <2>3, <2>4 DEF Line, new
<1> QED BY <1>1, <1>2

LEMMA LineTail ==
  ASSUME Line(ready), ready # <<>>
  PROVE  /\ Line(Tail(ready))
         /\ Head(ready).tid \in Ids(ready)
         /\ Ids(Tail(ready)) = Ids(ready) \ {Head(ready).tid}
<1> DEFINE new == Tail(ready)
<1>1. /\ ready \in Seq(Entry) /\ Len(ready) \in Nat /\ Len(ready) > 0
      /\ \A i, j \in 1..Len(ready) : ready[i].tid = ready[j].tid => i = j
  BY LineFacts, EmptySeq
<1>2. /\ new \in Seq(Entry) /\ Len(new) = Len(ready) - 1 /\ Head(ready) = ready[1]
      /\ \A i \in 1..(Len(ready) - 1) : new[i] = ready[i + 1]
  BY <1>1, HeadTailProperties
<1> HIDE DEF new
<1>3. \A i, j \in 1..Len(new) : new[i].tid = new[j].tid => i = j
  <2>1. \A i \in 1..Len(new) : i + 1 \in 1..Len(ready) /\ new[i] = ready[i + 1]
    BY <1>1, <1>2
  <2>2. \A i, j \in 1..Len(new) : new[i].tid = new[j].tid => i + 1 = j + 1
    BY <1>1, <2>1
  <2> QED BY <1>1, <1>2, <2>2
<1>4. Head(ready).tid \in Ids(ready)
  BY <1>1, <1>2 DEF Ids
<1>5. ASSUME NEW i \in 1..Len(new)
      PROVE  new[i].tid \in Ids(ready) \ {Head(ready).tid}
  BY <1>1, <1>2 DEF Ids
<1>6. ASSUME NEW i \in 1..Len(ready), ready[i].tid # Head(ready).tid
      PROVE  ready[i].tid \in Ids(new)
  <2>1. i - 1 \in 1..Len(new) /\ (i - 1) + 1 = i
    BY <1>1, <1>2, <1>6
  <2>2. new[i - 1] = ready[i]
    BY <1>2, <2>1
  <2> QED BY <2>1, <2>2 DEF Ids
<1>7. Ids(new) = Ids(ready) \ {Head(ready).tid}
  BY <1>5, <1>6 DEF Ids
<1> QED BY <1>2, <1>3, <1>4, <1>7 DEF Line, new

-----------------------------------------------------------------------------
(***************************************************************************)
(* The block between two commands.                                          *)
(***************************************************************************)
Queued == Ids(ready)

\* Every object has at most one thread.
Owned ==
  /\ object \in [Threads -> Objects \cup {0}]
  /\ created = {t \in Threads : object[t] # 0}
  /\ \A t, u \in created : object[t] = object[u] => t = u
  /\ Spare \notin created

\* A thread has the priority of its object, and a free identifier has 0.
Ranked ==
  /\ order \in [Threads -> Nat]
  /\ \A t \in Threads : order[t] = IF t \in created THEN Prio[object[t]] ELSE 0

Sound ==
  /\ Owned
  /\ Ranked
  /\ Line(ready) /\ Queued \subseteq created
  /\ running \in Threads \cup {0}

\* What the program calls the running thread.
RunsNow == IF running = 0 THEN 0 ELSE object[running]

\* Nothing runs, or a thread that is not queued: an idle processor has the spare row.
Settled == running \in created \cup {0, Spare} /\ running \notin Queued

\* A suspended thread.
Held(t) == t \in created /\ t \notin Queued /\ t # running

\* A thread runs and another one waits, as the handler takes for granted.
Busy == running \in created /\ ready # <<>>
Alarmed == request => Busy

\* This object has a thread that is not queued.
Loose(obj) == \E t \in created \ Queued : object[t] = obj

-----------------------------------------------------------------------------
(***************************************************************************)
(* What a method may rely on before each of its calls.                      *)
(***************************************************************************)
Switching == {"handler", "choose", "choose_another", "choose_this"}
Stopping == {"remove", "suspend"}

Knows(f) ==
  LET s == Now(f)
      m == f.method
  IN /\ \/ s \in {"findHead", "run"}
        \/ s = "removeHead" /\ m \in {"remove", "choose"}
        \/ Settled
     /\ m \in Switching => running \in created
     /\ \/ m \in {"handler", "choose_another"} /\ s \in {"ack", "removeHead"}
        \/ m = "choose" /\ s = "removeHead"
        \/ m = "handler" /\ s \in {"findHead", "run"}
        => ready # <<>>
     /\ s = "create" => ~Found(f.obj)
     /\ s \in {"insertObj", "place"} => Held(f.tid) /\ object[f.tid] = f.obj
     /\ m = "insert" /\ s = "chosen" => Held(f.tid) /\ object[f.tid] = f.obj
     /\ m = "resume" /\ s = "findObj" => \E t \in Threads : Held(t) /\ object[t] = f.obj
     /\ m = "choose_this" /\ s = "findObj" => Found(f.obj)
     /\ m = "choose_this" /\ s \in {"chosen", "findRunning", "insertRunning"} => Held(f.tid)
     /\ s = "removeObj" => f.tid \in created
     /\ m = "remove" /\ s \in {"chosen", "destroy"} => f.tid \in created /\ object[f.tid] = f.obj
     /\ s \in {"place", "findRunning", "insertRunning", "destroy"} => f.running = RunsNow
     /\ s = "insertRunning" => f.running_tid = running
     /\ m \in {"handler", "choose_another"} /\ s \in {"chosen", "findRunning", "insertRunning"}
          => \E t \in Threads : Held(t) /\ object[t] = f.head
     /\ s = "findHead" => Loose(f.head) \/ (f.head = 0 /\ m \in Stopping)
     /\ s = "run" => /\ f.tid \in created \/ (f.tid = Spare /\ m \in Stopping)
                     /\ f.tid \notin Queued
                     /\ m = "handler" => f.head # 0
     /\ s = "enable" => Alarmed

\* What holds when the method returns.
AtRest(f) ==
  /\ Settled
  /\ f.method = "start" => Alarmed
  /\ f.method = "handler" => Busy

\* What holds once the call has the result value.
Learns(f, value) ==
  LET kept == Keep(f, value)
  IN IF Leaves(kept, value) THEN AtRest(f) ELSE Knows(Advanced(kept))

Learned(f) == Learns(f, IF failed THEN -1 ELSE reply)

\* The caller's command has been executed, and it has not asked for the result yet.
Executed(k) == posted = NoRequest /\ frame[k].access \in {"status", "return"}

Informed(k) == IF Executed(k) THEN Learned(frame[k]) ELSE Knows(frame[k])

\* No use of a null pointer is ahead.
Real(f) ==
  /\ Now(f) = "insertRunning" => f.running # 0
  /\ f.method = "handler" /\ Now(f) = "run" => f.head # 0

Data ==
  /\ Sound
  /\ frame["main"].method \in Takes => frame["main"].obj \in Objects
  /\ cpu # "handler" /\ ~Active("main") => Settled /\ (started => Alarmed)
  /\ cpu # "handler" /\ Active("main") => Informed("main")
  /\ cpu = "handler" => Informed("isr")
  /\ \A k \in Callers : Active(k) => Real(frame[k])
  /\ \A k \in Callers :
       Turn(k) /\ Active(k) /\ frame[k].access = "return" => ~failed \/ At(k, "enable")

-----------------------------------------------------------------------------
(***************************************************************************)
(* From one call to the next.                                               *)
(***************************************************************************)
\* In which methods a call stands, and what comes after it there.
LEMMA NextFacts ==
  ASSUME NEW f, Framed(f), f.method # "none"
  PROVE  LET s == Now(f)
             m == f.method
             To(n) == More(f) /\ Then(f) = n
         IN /\ s = "reset" => m = "reset" /\ ~More(f)
            /\ s = "size" => m = "schedulables" /\ ~More(f)
            /\ s = "chosen" => \/ m = "chosen" /\ ~More(f)
                               \/ m = "insert" /\ To("place")
                               \/ m = "remove" /\ To("destroy")
                               \/ m = "suspend" /\ To("removeHead")
                               \/ m \in Switching /\ To("findRunning")
            /\ s = "create" => m = "insert" /\ To("chosen")
            /\ s = "place" => m = "insert" /\ ~More(f)
            /\ s = "insertObj" => m = "resume" /\ ~More(f)
            /\ s = "insertRunning" => \/ m = "choose" /\ To("removeHead")
                                      \/ m \in {"handler", "choose_another"} /\ To("findHead")
                                      \/ m = "choose_this" /\ To("run")
            /\ s = "findObj" => \/ m = "remove" /\ To("chosen")
                                \/ m \in {"suspend", "choose_this"} /\ To("removeObj")
                                \/ m = "resume" /\ To("insertObj")
            /\ s = "findRunning" => m \in Switching /\ To("insertRunning")
            /\ s = "findHead" => m \in Stopping \cup {"handler", "choose", "choose_another"}
                                 /\ To("run")
            /\ s = "destroy" => m = "remove" /\ To("removeHead")
            /\ s = "removeObj" => m \in {"suspend", "choose_this"} /\ To("chosen")
            /\ s = "removeHead" => \/ m \in Stopping \cup {"choose"} /\ To("findHead")
                                   \/ m \in {"handler", "choose_another"} /\ To("chosen")
            /\ s = "run" => m \in Stopping \cup Switching /\ ~More(f)
            /\ s = "quantum" => (m = "set_quantum" /\ ~More(f)) \/ (m = "start" /\ To("enable"))
            /\ s = "ticks" => m = "reset_quantum" /\ ~More(f)
            /\ s \in {"enable", "disable"} =>
                 m \in {"start", "enable_schedule", "disable_schedule"} /\ ~More(f)
<1>1. f.method \in DOMAIN Body
  BY DEF Framed
<1>2. CASE f.method = "handler"
  BY <1>2, HandlerCalls DEF Going, Ending, Switching, Stopping
<1>3. CASE f.method \in {"remove", "suspend"}
  BY <1>3, RemoveCalls, SuspendCalls DEF Going, Ending, Switching, Stopping
<1>4. CASE f.method \in {"choose", "choose_another"}
  BY <1>4, ChooseCalls, ChooseAnotherCalls DEF Going, Ending, Switching, Stopping
<1>5. CASE f.method \in {"choose_this", "resume"}
  BY <1>5, ChooseThisCalls, ResumeCalls DEF Going, Ending, Switching, Stopping
<1>6. CASE f.method \in {"insert", "start"}
  BY <1>6, InsertCalls, StartCalls DEF Going, Ending, Switching, Stopping
<1>7. CASE f.method \in DOMAIN Single
  BY <1>7, SingleCalls DEF Single, Ending, Switching, Stopping
<1> QED BY <1>1, <1>2, <1>3, <1>4, <1>5, <1>6, <1>7, Table DEF Single

\* When the method returns.
LEMMA LeavesFacts ==
  ASSUME NEW f, Framed(f), NEW value
  PROVE  Leaves(Keep(f, value), value) <=>
           \/ ~More(f)
           \/ Now(f) = "create" /\ value <= 0
           \/ Now(f) = "findObj" /\ IF f.method \in Stopping THEN value < 0 ELSE value = 0
           \/ f.method = "remove" /\ Now(f) = "destroy" /\ f.running # f.obj
           \/ f.method = "suspend" /\ Now(f) = "chosen" /\ value # f.obj
           \/ f.method = "choose_this" /\ Now(f) = "removeObj" /\ value = 0
<1> DEFINE g == Keep(f, value)
<1>1. /\ g.method = f.method /\ g.obj = f.obj /\ g.todo = f.todo
      /\ Now(f) # "chosen" => g.running = f.running
  BY KeepFacts DEF Framed, Now
<1> HIDE DEF g
<1>2. Leaves(g, value) <=>
           \/ ~More(f)
           \/ Now(f) = "create" /\ value <= 0
           \/ Now(f) = "findObj" /\ IF f.method \in Stopping THEN value < 0 ELSE value = 0
           \/ f.method = "remove" /\ Now(f) = "destroy" /\ f.running # f.obj
           \/ f.method = "suspend" /\ Now(f) = "chosen" /\ value # f.obj
           \/ f.method = "choose_this" /\ Now(f) = "removeObj" /\ value = 0
  BY <1>1 DEF Leaves, Now, More, Stopping
<1> QED BY <1>2 DEF g

\* The frame of the next call, when the result of this one is value.
Follows(g, f, value) ==
  /\ Framed(g) /\ g.access = "cmd" /\ More(f) /\ Now(g) = Then(f)
  /\ g.method = f.method /\ g.obj = f.obj
  /\ g.tid = IF Now(f) \in {"create", "findObj", "findHead"} THEN value ELSE f.tid
  /\ g.running = IF Now(f) = "chosen" THEN value ELSE f.running
  /\ g.running_tid = IF Now(f) = "findRunning" THEN value ELSE f.running_tid
  /\ g.head = IF Now(f) = "removeHead" THEN value ELSE f.head

LEMMA FollowsFacts ==
  ASSUME NEW f, Framed(f), f.method # "none", NEW value, ~Leaves(Keep(f, value), value)
  PROVE  Follows(Advanced(Keep(f, value)), f, value)
<1> DEFINE kept == Keep(f, value)
           g == Advanced(kept)
<1>1. /\ FrameOf(kept) /\ kept.access = f.access
      /\ kept.method = f.method /\ kept.obj = f.obj /\ kept.todo = f.todo
      /\ kept.tid = IF Now(f) \in {"create", "findObj", "findHead"} THEN value ELSE f.tid
      /\ kept.running = IF Now(f) = "chosen" THEN value ELSE f.running
      /\ kept.running_tid = IF Now(f) = "findRunning" THEN value ELSE f.running_tid
      /\ kept.head = IF Now(f) = "removeHead" THEN value ELSE f.head
  BY KeepFacts DEF Framed, Now
<1>2. More(f)
  BY LeavesFacts
<1> HIDE DEF kept
<1>3. Framed(kept) /\ More(kept) /\ Then(kept) = Then(f)
  BY <1>1, <1>2 DEF Framed, More, Then
<1>4. Framed(g) /\ Now(g) = Then(f)
  BY <1>1, <1>3, AdvancedFramed
<1>5. /\ g.access = "cmd" /\ g.method = kept.method /\ g.obj = kept.obj /\ g.tid = kept.tid
      /\ g.running = kept.running /\ g.running_tid = kept.running_tid /\ g.head = kept.head
  BY <1>1, AdvancedFacts
<1> HIDE DEF g
<1>6. Follows(g, f, value)
  BY <1>1, <1>2, <1>4, <1>5 DEF Follows
<1> QED BY <1>6 DEF g, kept

\* To show what a method has learned, look at its return and at its next call.
LEMMA LearnsNext ==
  ASSUME NEW f, Framed(f), f.method # "none", NEW value,
         Leaves(Keep(f, value), value) => AtRest(f)',
         \A g : ~Leaves(Keep(f, value), value) /\ Follows(g, f, value) => Knows(g)'
  PROVE  Learns(f, value)'
<1> DEFINE g == Advanced(Keep(f, value))
<1>1. ~Leaves(Keep(f, value), value) => Follows(g, f, value)
  BY FollowsFacts
<1>2. ~Leaves(Keep(f, value), value) => Knows(g)'
  <2> HIDE DEF g
  <2> QED BY <1>1
<1> QED BY <1>2 DEF Learns, g

-----------------------------------------------------------------------------
(***************************************************************************)
(* What each command does to the block, and what its caller learns.         *)
(***************************************************************************)
LEMMA SoundFacts ==
  ASSUME Fits, Sound
  PROVE  /\ object \in [Threads -> Objects \cup {0}] /\ created \subseteq Threads
         /\ \A t \in Threads : t \in created <=> object[t] # 0
         /\ \A t \in created : object[t] \in Objects /\ object[t] # 0
         /\ \A t, u \in created : object[t] = object[u] => t = u
         /\ Spare \in Threads /\ Spare \notin created /\ object[Spare] = 0
         /\ order \in [Threads -> Nat]
         /\ \A t \in created : order[t] = Prio[object[t]]
         /\ \A t \in Threads \ created : order[t] = 0
         /\ Line(ready) /\ Queued \subseteq created
         /\ running \in Threads \cup {0}
         /\ 0 \notin Threads /\ 0 \notin Objects
  BY SpareFacts, ThreadsAssumption, ObjectsAssumption DEF Sound, Owned, Ranked

\* The running object is the object of a thread in use unless it is 0.
LEMMA RunsNowFacts ==
  ASSUME Fits, Sound
  PROVE  /\ RunsNow = 0 <=> running \notin created
         /\ running \in created => RunsNow = object[running]
  BY SoundFacts DEF RunsNow

Steady == UNCHANGED <<object, created, ready, running, order>>

LEMMA SteadyFacts ==
  ASSUME Steady
  PROVE  /\ Sound' <=> Sound
         /\ Queued' = Queued /\ RunsNow' = RunsNow /\ created' = created /\ object' = object
         /\ ready' = ready /\ running' = running
         /\ Settled' <=> Settled
         /\ Busy' <=> Busy
         /\ \A t : Held(t)' <=> Held(t)
         /\ \A obj : (Loose(obj)' <=> Loose(obj)) /\ (Found(obj)' <=> Found(obj))
  BY DEF Steady, Sound, Owned, Ranked, Queued, RunsNow, Settled, Busy, Held, Loose, Found

LEMMA LearnsChosen ==
  ASSUME Fits, Sound, NEW f, Framed(f), f.method # "none", Knows(f), Now(f) = "chosen",
         Steady, NEW value, value = RunsNow
  PROVE  Learns(f, value)'
<1> DEFINE m == f.method
<1>1. \/ m = "chosen" /\ ~More(f)
      \/ m = "insert" /\ More(f) /\ Then(f) = "place"
      \/ m = "remove" /\ More(f) /\ Then(f) = "destroy"
      \/ m = "suspend" /\ More(f) /\ Then(f) = "removeHead"
      \/ m \in Switching /\ More(f) /\ Then(f) = "findRunning"
  BY NextFacts
<1>2. /\ Settled
      /\ m \in Switching => running \in created
      /\ m = "insert" => Held(f.tid) /\ object[f.tid] = f.obj
      /\ m = "choose_this" => Held(f.tid)
      /\ m = "remove" => f.tid \in created /\ object[f.tid] = f.obj
      /\ m \in {"handler", "choose_another"} => \E t \in Threads : Held(t) /\ object[t] = f.head
  BY DEF Knows
<1>3. ASSUME Leaves(Keep(f, value), value)
      PROVE  AtRest(f)'
  <2>1. m \in {"chosen", "suspend"}
    BY <1>1, <1>3, LeavesFacts DEF Switching
  <2> QED BY <1>2, <2>1, SteadyFacts DEF AtRest
<1>4. ASSUME NEW g, Follows(g, f, value)
      PROVE  Knows(g)'
  <2>1. /\ Now(g) = Then(f) /\ More(f)
        /\ g.method = f.method /\ g.obj = f.obj /\ g.tid = f.tid /\ g.running = RunsNow
        /\ g.head = f.head
    BY <1>4 DEF Follows
  <2> QED BY <1>1, <1>2, <2>1, SteadyFacts DEF Knows, Switching
<1> QED BY <1>3, <1>4, LearnsNext

\* Commands that only touch the timer, and SIZE.
LEMMA LearnsQuiet ==
  ASSUME Fits, Sound, NEW f, Framed(f), f.method # "none", Knows(f),
         Now(f) \in {"size", "ticks", "quantum", "enable", "disable"},
         Steady, request' = (request /\ Now(f) \notin {"ticks", "quantum"}), NEW value
  PROVE  Learns(f, value)'
<1> DEFINE m == f.method
           s == Now(f)
<1>1. /\ s = "quantum" => (m = "set_quantum" /\ ~More(f))
                          \/ (m = "start" /\ More(f) /\ Then(f) = "enable")
      /\ s \in {"size", "ticks", "enable", "disable"} =>
           /\ ~More(f)
           /\ m \in {"schedulables", "reset_quantum", "start", "enable_schedule",
                     "disable_schedule"}
      /\ s \in {"size", "ticks", "disable"} => m # "start" \/ s = "disable"
  BY NextFacts
<1>2. Settled /\ (s = "enable" => Alarmed)
  BY DEF Knows
<1>3. m = "start" => s # "disable"
  BY StartCalls DEF Going, Ending
<1>4. ASSUME Leaves(Keep(f, value), value)
      PROVE  AtRest(f)'
  <2>1. m # "handler" /\ (m = "start" => s = "enable")
    BY <1>1, <1>3, <1>4, LeavesFacts
  <2> QED BY <1>2, <2>1, SteadyFacts DEF AtRest, Alarmed
<1>5. ASSUME NEW g, Follows(g, f, value)
      PROVE  Knows(g)'
  <2>1. m = "start" /\ g.method = m /\ Now(g) = "enable" /\ s = "quantum"
    BY <1>1, <1>5 DEF Follows
  <2> QED BY <1>2, <2>1, SteadyFacts DEF Knows, Switching, Alarmed
<1> QED BY <1>4, <1>5, LearnsNext

LEMMA LearnsReset ==
  ASSUME Fits, Sound, NEW f, Framed(f), f.method # "none", Now(f) = "reset",
         RQReset, order' = [t \in Threads |-> 0], NEW value
  PROVE  Sound' /\ Learns(f, value)'
<1>1. f.method = "reset" /\ ~More(f)
  BY NextFacts
<1>2. /\ object' = [t \in Threads |-> 0] /\ created' = {} /\ ready' = <<>> /\ running' = 0
  BY DEF RQReset
<1>3. Line(ready)' /\ Queued' = {}
  BY <1>2, EmptySeq DEF Line, Queued, Ids
<1>4. Sound'
  BY <1>2, <1>3, SpareFacts DEF Sound, Owned, Ranked
<1>5. AtRest(f)'
  BY <1>1, <1>2, <1>3 DEF AtRest, Settled
<1>6. \A g : ~Follows(g, f, value)
  BY <1>1 DEF Follows
<1> QED BY <1>4, <1>5, <1>6, LearnsNext

\* CREATE leaves the spare row: there are more rows than objects, and each object has one
\* at most.
LEMMA LearnsCreate ==
  ASSUME Fits, Sound, NEW f, Framed(f), f.method # "none", Knows(f), Now(f) = "create",
         f.obj \in Objects, created # Threads, RQCreate(f.obj),
         reply' = Max(Threads \ created), SetOrder(reply', Prio[f.obj]), NEW t, t = reply'
  PROVE  Sound' /\ Learns(f, t)'
<1> DEFINE obj == f.obj
<1>1. /\ object \in [Threads -> Objects \cup {0}] /\ created \subseteq Threads
      /\ \A u \in Threads : u \in created <=> object[u] # 0
      /\ \A u \in created : object[u] \in Objects /\ object[u] # 0
      /\ \A u, v \in created : object[u] = object[v] => u = v
      /\ Spare \in Threads /\ Spare \notin created /\ order \in [Threads -> Nat]
      /\ 0 \notin Threads /\ 0 \notin Objects
  BY SoundFacts
<1>2. /\ f.method = "insert" /\ More(f) /\ Then(f) = "chosen"
      /\ Settled /\ ~Found(obj)
  BY NextFacts DEF Knows
<1>3. /\ t \in Threads \ created
      /\ created' = created \cup {t} /\ object' = [object EXCEPT ![t] = obj]
      /\ ready' = ready /\ running' = running
      /\ order' = [order EXCEPT ![t] = Prio[obj]]
  BY DEF RQCreate, SetOrder
<1>4. \A u \in Threads \ created : u <= t
  <2>1. \E m \in Threads \ created : \A u \in Threads \ created : u <= m
    <3>1. Threads \ created \in SUBSET Int /\ Threads \ created # {}
      BY <1>1, ThreadsAssumption
    <3>2. IsFiniteSet(Threads \ created)
      BY FS_Subset DEF Fits
    <3> QED BY <3>1, <3>2, Extremes
  <2> QED BY <2>1 DEF Max
<1>5. t # Spare
  <2> SUFFICES ASSUME t = Spare PROVE FALSE
    OBVIOUS
  <2>1. ASSUME NEW u \in Threads \ created PROVE u = Spare
    <3>1. u \in Nat /\ Spare \in Nat /\ u <= Spare /\ Spare <= u
      BY <1>1, <1>4, SpareFacts, ThreadsAssumption
    <3> QED BY <3>1
  <2> DEFINE h == [u \in Threads |-> IF u = Spare THEN obj ELSE object[u]]
  <2>2. \A u \in Threads : u # Spare => object[u] \in Objects /\ object[u] # obj
    BY <1>1, <1>2, <2>1 DEF Found
  <2>3. h \in [Threads -> Objects]
    BY <2>2
  <2>4. \A u, v \in Threads : h[u] = h[v] => u = v
    BY <1>1, <2>1, <2>2
  <2> HIDE DEF h
  <2>5. h \in Injection(Threads, Objects)
    BY <2>3, <2>4 DEF Injection, IsInjective
  <2>6. Cardinality(Threads) <= Cardinality(Objects)
    BY <2>5, FS_Injection DEF Fits
  <2> QED BY <2>6, FS_CardinalityType DEF Fits
<1>6. Owned'
  <2>1. /\ object'[t] = obj /\ obj # 0
        /\ \A u \in Threads : u # t => object'[u] = object[u]
        /\ \A u \in created : u # t /\ object[u] # obj
    BY <1>1, <1>2, <1>3 DEF Found
  <2>2. \A u, v \in created' : object'[u] = object'[v] => u = v
    BY <1>1, <1>3, <2>1
  <2>3. created' = {u \in Threads : object'[u] # 0}
    BY <1>1, <1>3, <2>1
  <2>4. object' \in [Threads -> Objects \cup {0}] /\ Spare \notin created'
    BY <1>1, <1>3, <1>5
  <2> QED BY <2>2, <2>3, <2>4 DEF Owned
<1>7. Prio[obj] \in Nat
  BY PrioAssumption
<1>8. Ranked'
  BY <1>1, <1>3, <1>7 DEF Ranked, Sound
<1>9. Sound' /\ Queued' = Queued
  BY <1>3, <1>6, <1>8 DEF Sound, Queued
<1>10. Settled' /\ Held(t)' /\ object'[t] = obj
  <2>1. t # running /\ t \notin Queued
    BY <1>1, <1>2, <1>3, <1>5 DEF Settled, Sound
  <2> QED BY <1>1, <1>2, <1>3, <1>9, <2>1 DEF Settled, Held
<1>11. ~Leaves(Keep(f, t), t)
  <2>1. ~(t <= 0)
    <3>1. t \in Nat /\ t # 0
      BY <1>3, ThreadsAssumption
    <3> QED BY <3>1
  <2> QED BY <1>2, <2>1, LeavesFacts
<1>12. ASSUME NEW g, Follows(g, f, t)
       PROVE  Knows(g)'
  <2>1. Now(g) = "chosen" /\ g.method = "insert" /\ g.obj = obj /\ g.tid = t
    BY <1>2, <1>12 DEF Follows
  <2> QED BY <1>10, <2>1 DEF Knows, Switching
<1>13. Learns(f, t)'
  BY <1>11, <1>12, LearnsNext
<1> QED BY <1>9, <1>13

\* What a search finds.
LEMMA SearchFacts ==
  ASSUME Fits, Sound, NEW obj, RQGetId(obj), NEW value,
         value = IF ~Found(obj) THEN -1 ELSE reply'
  PROVE  IF Found(obj)
         THEN /\ value \in Threads /\ object[value] = obj
              /\ \A u \in Threads : object[u] = obj => value <= u
         ELSE value = -1
  BY DEF RQGetId, Found

\* It is the one thread of the object.
LEMMA SearchOwner ==
  ASSUME Fits, Sound, NEW obj, RQGetId(obj), NEW value,
         value = (IF ~Found(obj) THEN -1 ELSE reply'), NEW t \in created, object[t] = obj
  PROVE  value = t
<1>1. Found(obj)
  BY SoundFacts DEF Found
<1>2. value \in Threads /\ object[value] = obj
  BY <1>1, SearchFacts
<1> QED BY <1>2, SoundFacts

LEMMA LearnsFindObj ==
  ASSUME Fits, Sound, NEW f, Framed(f), f.method # "none", Knows(f), Now(f) = "findObj",
         f.obj \in Objects, RQGetId(f.obj), Steady, NEW value,
         value = IF ~Found(f.obj) THEN -1 ELSE reply'
  PROVE  Learns(f, value)'
<1> DEFINE m == f.method
<1>1. \/ m = "remove" /\ More(f) /\ Then(f) = "chosen"
      \/ m \in {"suspend", "choose_this"} /\ More(f) /\ Then(f) = "removeObj"
      \/ m = "resume" /\ More(f) /\ Then(f) = "insertObj"
  BY NextFacts
<1>2. /\ Settled
      /\ m = "choose_this" => running \in created
      /\ m = "resume" => \E t \in Threads : Held(t) /\ object[t] = f.obj
      /\ m = "choose_this" => Found(f.obj)
  BY DEF Knows, Switching
<1>3. Found(f.obj) => value \in created /\ object[value] = f.obj
  <2>1. f.obj # 0
    BY ObjectsAssumption
  <2> QED BY <2>1, SearchFacts, SoundFacts
<1>4. m = "resume" => Held(value) /\ object[value] = f.obj
  BY <1>2, SearchOwner DEF Held
<1>5. ~Found(f.obj) => value = -1
  BY SearchFacts
<1>6. ASSUME Leaves(Keep(f, value), value)
      PROVE  AtRest(f)'
  BY <1>1, <1>2, SteadyFacts DEF AtRest
<1>7. ASSUME NEW g, ~Leaves(Keep(f, value), value), Follows(g, f, value)
      PROVE  Knows(g)'
  <2>1. Now(g) = Then(f) /\ More(f) /\ g.method = m /\ g.obj = f.obj /\ g.tid = value
    BY <1>7 DEF Follows
  <2>2. m \in Stopping => Found(f.obj)
    BY <1>5, <1>7, LeavesFacts
  <2>3. m \in {"remove", "suspend", "choose_this"} => value \in created /\ object[value] = f.obj
    BY <1>2, <1>3, <2>2 DEF Stopping
  <2> QED BY <1>1, <1>2, <1>4, <2>1, <2>3, SteadyFacts DEF Knows, Switching
<1> QED BY <1>6, <1>7, LearnsNext

LEMMA LearnsFindRunning ==
  ASSUME Fits, Sound, NEW f, Framed(f), f.method # "none", Knows(f), Now(f) = "findRunning",
         RQGetId(f.running), Steady, NEW value,
         value = IF ~Found(f.running) THEN -1 ELSE reply'
  PROVE  Learns(f, value)'
<1> DEFINE m == f.method
<1>1. m \in Switching /\ More(f) /\ Then(f) = "insertRunning"
  BY NextFacts
<1>2. /\ Settled /\ running \in created /\ f.running = RunsNow
      /\ m = "choose_this" => Held(f.tid)
      /\ m \in {"handler", "choose_another"} => \E t \in Threads : Held(t) /\ object[t] = f.head
  BY <1>1 DEF Knows
<1>3. value = running
  BY <1>2, SearchOwner, RunsNowFacts
<1>4. ~Leaves(Keep(f, value), value)
  BY <1>1, LeavesFacts
<1>5. ASSUME NEW g, Follows(g, f, value)
      PROVE  Knows(g)'
  <2>1. /\ Now(g) = "insertRunning" /\ g.method = m /\ g.tid = f.tid /\ g.running = f.running
        /\ g.running_tid = value /\ g.head = f.head
    BY <1>1, <1>5 DEF Follows
  <2> QED BY <1>1, <1>2, <1>3, <2>1, SteadyFacts DEF Knows, Switching
<1> QED BY <1>4, <1>5, LearnsNext

\* The driver looks up the head it has taken off the queue; if the queue was empty, it
\* looks up 0, and finds the spare row.
LEMMA LearnsFindHead ==
  ASSUME Fits, Sound, NEW f, Framed(f), f.method # "none", Knows(f), Now(f) = "findHead",
         RQGetId(f.head), Steady, NEW value,
         value = IF ~Found(f.head) THEN -1 ELSE reply'
  PROVE  Learns(f, value)'
<1> DEFINE m == f.method
<1>1. m \in Stopping \cup {"handler", "choose", "choose_another"} /\ More(f) /\ Then(f) = "run"
  BY NextFacts
<1>2. /\ m \in Switching => running \in created
      /\ m = "handler" => ready # <<>>
      /\ Loose(f.head) \/ (f.head = 0 /\ m \in Stopping)
  BY DEF Knows
<1>3. Loose(f.head) => value \in created /\ value \notin Queued /\ object[value] = f.head
                       /\ f.head # 0
  BY SearchOwner, SoundFacts DEF Loose
<1>4. f.head = 0 => value = Spare
  <2> SUFFICES ASSUME f.head = 0 PROVE value = Spare
    OBVIOUS
  <2>1. object[Spare] = 0 /\ Spare \in Threads
    BY SoundFacts
  <2>2. Found(f.head)
    BY <2>1 DEF Found
  <2>3. value \in Threads /\ value <= Spare
    BY <2>1, <2>2, SearchFacts
  <2> QED BY <2>1, <2>3, SpareFacts, ThreadsAssumption
<1>5. Spare \notin Queued
  BY SoundFacts
<1>6. ~Leaves(Keep(f, value), value)
  BY <1>1, LeavesFacts
<1>7. ASSUME NEW g, Follows(g, f, value)
      PROVE  Knows(g)'
  <2>1. Now(g) = "run" /\ g.method = m /\ g.tid = value /\ g.head = f.head
    BY <1>1, <1>7 DEF Follows
  <2>2. /\ value \in created \/ (value = Spare /\ m \in Stopping)
        /\ value \notin Queued
        /\ m = "handler" => f.head # 0
    BY <1>2, <1>3, <1>4, <1>5 DEF Stopping
  <2> QED BY <1>1, <1>2, <2>1, <2>2, SteadyFacts DEF Knows, Switching
<1> QED BY <1>6, <1>7, LearnsNext

\* The queue gets a thread with the priority of its object.
LEMMA JoinFacts ==
  ASSUME Fits, Sound, NEW t \in created, t \notin Queued, NEW key, key = Prio[object[t]],
         RQEnqueue(t, key), SetOrder(t, key)
  PROVE  /\ Sound' /\ Queued' = Queued \cup {t} /\ ready' # <<>>
         /\ UNCHANGED <<object, created, running, order>>
         /\ RunsNow' = RunsNow
<1> DEFINE e == [tid |-> t, key |-> key]
<1>1. /\ object \in [Threads -> Objects \cup {0}] /\ created \subseteq Threads
      /\ object[t] \in Objects /\ order \in [Threads -> Nat] /\ order[t] = key
      /\ Line(ready) /\ Queued \subseteq created
  BY SoundFacts
<1>2. key \in Keys
  BY <1>1, PrioAssumption
<1>3. e \in Entry /\ e.tid = t
  BY <1>1, <1>2 DEF Entry
<1>4. ready' = Placed(e) /\ UNCHANGED <<object, created, running>>
  BY DEF RQEnqueue
<1> HIDE DEF e
<1>5. Line(ready') /\ Ids(ready') = Ids(ready) \cup {t}
  BY <1>1, <1>3, <1>4, LineWith DEF Queued
<1>6. ready' # <<>>
  BY <1>5, LineFacts
<1>7. order' = order
  BY <1>1 DEF SetOrder
<1>8. Sound'
  BY <1>1, <1>4, <1>5, <1>7 DEF Sound, Owned, Ranked, Queued
<1> QED BY <1>4, <1>5, <1>6, <1>7, <1>8 DEF Queued, RunsNow

LEMMA LearnsInsertObj ==
  ASSUME Fits, Sound, NEW f, Framed(f), f.method # "none", Knows(f),
         Now(f) \in {"insertObj", "place"}, NEW key, key = Prio[f.obj],
         RQEnqueue(f.tid, key), SetOrder(f.tid, key), NEW value
  PROVE  Sound' /\ Learns(f, value)'
<1>1. f.method \in {"resume", "insert"} /\ ~More(f)
  BY NextFacts
<1>2. Settled /\ Held(f.tid) /\ object[f.tid] = f.obj
  BY DEF Knows
<1>3. /\ Sound' /\ Queued' = Queued \cup {f.tid}
      /\ UNCHANGED <<created, running>>
  BY <1>2, JoinFacts DEF Held
<1>4. AtRest(f)'
  BY <1>1, <1>2, <1>3 DEF AtRest, Settled, Held
<1>5. \A g : ~Follows(g, f, value)
  BY <1>1 DEF Follows
<1> QED BY <1>3, <1>4, <1>5, LearnsNext

\* The running thread goes back to the queue, and still is the running one.
LEMMA LearnsInsertRunning ==
  ASSUME Fits, Sound, NEW f, Framed(f), f.method # "none", Knows(f),
         Now(f) = "insertRunning", NEW key, key = Prio[f.running],
         RQEnqueue(f.running_tid, key), SetOrder(f.running_tid, key), NEW value
  PROVE  Sound' /\ Learns(f, value)'
<1> DEFINE m == f.method
<1>1. \/ m = "choose" /\ More(f) /\ Then(f) = "removeHead"
      \/ m \in {"handler", "choose_another"} /\ More(f) /\ Then(f) = "findHead"
      \/ m = "choose_this" /\ More(f) /\ Then(f) = "run"
  BY NextFacts
<1>2. /\ Settled /\ running \in created /\ f.running = RunsNow /\ f.running_tid = running
      /\ m = "choose_this" => Held(f.tid)
      /\ m \in {"handler", "choose_another"} => \E t \in Threads : Held(t) /\ object[t] = f.head
  BY <1>1 DEF Knows, Switching
<1>3. running \notin Queued /\ f.running = object[running]
  BY <1>2, RunsNowFacts DEF Settled
<1>4. /\ Sound' /\ Queued' = Queued \cup {running} /\ ready' # <<>>
      /\ UNCHANGED <<object, created, running>>
  BY <1>2, <1>3, JoinFacts
<1>5. ~Leaves(Keep(f, value), value)
  BY <1>1, LeavesFacts
<1>6. ASSUME NEW g, Follows(g, f, value)
      PROVE  Knows(g)'
  <2>1. Now(g) = Then(f) /\ g.method = m /\ g.tid = f.tid /\ g.head = f.head
    BY <1>6 DEF Follows
  <2>2. m \in {"handler", "choose_another"} => Loose(g.head)'
    BY <1>2, <1>4, <2>1 DEF Loose, Held
  <2>3. m = "choose_this" => g.tid \in created' /\ g.tid \notin Queued'
    BY <1>2, <1>4, <2>1 DEF Held
  <2> QED BY <1>1, <1>2, <1>4, <2>1, <2>2, <2>3 DEF Knows
<1> QED BY <1>4, <1>5, <1>6, LearnsNext

\* A thread leaves the queue.
LEMMA LeaveFacts ==
  ASSUME Fits, Sound, NEW q, ready' = q, Line(q), Ids(q) \subseteq Queued,
         UNCHANGED <<object, created, running, order>>
  PROVE  Sound' /\ Queued' = Ids(q) /\ RunsNow' = RunsNow
  BY DEF Sound, Owned, Ranked, Queued, RunsNow

LEMMA LearnsRemoveObj ==
  ASSUME Fits, Sound, NEW f, Framed(f), f.method # "none", Knows(f), Now(f) = "removeObj",
         RQDequeue(f.tid), UNCHANGED order, NEW value, value = reply'
  PROVE  Sound' /\ Learns(f, value)'
<1> DEFINE m == f.method
<1>1. m \in {"suspend", "choose_this"} /\ More(f) /\ Then(f) = "chosen"
  BY NextFacts
<1>2. Settled /\ f.tid \in created /\ (m = "choose_this" => running \in created)
  BY DEF Knows, Switching
<1>3. /\ ready' = Without(f.tid) /\ UNCHANGED <<object, created, running>>
      /\ value = IF IsReady(f.tid) THEN object[f.tid] ELSE 0
  BY DEF RQDequeue
<1>4. /\ Line(Without(f.tid)) /\ Ids(Without(f.tid)) = Queued \ {f.tid}
      /\ IsReady(f.tid) <=> f.tid \in Queued
  BY LineWithout, SoundFacts DEF Queued
<1>5. Sound' /\ Queued' = Queued \ {f.tid}
  BY <1>3, <1>4, LeaveFacts
<1>6. Settled'
  BY <1>2, <1>3, <1>5 DEF Settled
<1>7. ASSUME Leaves(Keep(f, value), value)
      PROVE  AtRest(f)'
  BY <1>1, <1>6 DEF AtRest
<1>8. ASSUME NEW g, ~Leaves(Keep(f, value), value), Follows(g, f, value)
      PROVE  Knows(g)'
  <2>1. Now(g) = "chosen" /\ g.method = m /\ g.tid = f.tid
    BY <1>1, <1>8 DEF Follows
  <2>2. m = "choose_this" => f.tid \in Queued
    BY <1>1, <1>3, <1>4, <1>8, LeavesFacts
  <2>3. m = "choose_this" => Held(f.tid)'
    BY <1>2, <1>3, <1>5, <2>2 DEF Held, Settled
  <2> QED BY <1>1, <1>2, <1>3, <1>6, <2>1, <2>3 DEF Knows, Switching
<1> QED BY <1>5, <1>7, <1>8, LearnsNext

LEMMA LearnsRemoveHead ==
  ASSUME Fits, Sound, NEW f, Framed(f), f.method # "none", Knows(f), Now(f) = "removeHead",
         RQDequeueHead, UNCHANGED order, NEW value, value = reply'
  PROVE  Sound' /\ Learns(f, value)'
<1> DEFINE m == f.method
           h == Head(ready).tid
<1>1. \/ m \in Stopping \cup {"choose"} /\ More(f) /\ Then(f) = "findHead"
      \/ m \in {"handler", "choose_another"} /\ More(f) /\ Then(f) = "chosen"
  BY NextFacts
<1>2. /\ m \in {"remove", "choose"} \/ Settled
      /\ m \in Switching => running \in created
      /\ m \in {"handler", "choose_another", "choose"} => ready # <<>>
  BY DEF Knows
<1>3. /\ UNCHANGED <<object, created, running>>
      /\ ready = <<>> => ready' = ready /\ value = 0
      /\ ready # <<>> => ready' = Tail(ready) /\ value = object[h]
  BY DEF RQDequeueHead
<1>4. Line(ready) /\ Queued \subseteq created /\ created \subseteq Threads
  BY SoundFacts
<1>5. ready # <<>> => /\ Line(Tail(ready)) /\ h \in Queued
                      /\ Ids(Tail(ready)) = Queued \ {h}
  BY <1>4, LineTail DEF Queued
<1> HIDE DEF h
<1>6. /\ Sound'
      /\ ready = <<>> => Queued' = Queued
      /\ ready # <<>> => Queued' = Queued \ {h}
  <2>1. CASE ready = <<>>
    BY <1>3, <1>4, <2>1, LeaveFacts DEF Queued
  <2>2. CASE ready # <<>>
    BY <1>3, <1>5, <2>2, LeaveFacts
  <2> QED BY <2>1, <2>2
<1>7. Settled => Settled'
  BY <1>3, <1>6 DEF Settled
<1>8. ready # <<>> => Loose(value)'
  BY <1>3, <1>4, <1>5, <1>6 DEF Loose
<1>9. Settled /\ ready # <<>> => \E t \in Threads : Held(t)' /\ object'[t] = value
  BY <1>3, <1>4, <1>5, <1>6 DEF Held, Settled
<1>10. ~Leaves(Keep(f, value), value)
  BY <1>1, LeavesFacts
<1>11. ASSUME NEW g, Follows(g, f, value)
       PROVE  Knows(g)'
  <2>1. Now(g) = Then(f) /\ g.method = m /\ g.head = value
    BY <1>11 DEF Follows
  <2>2. CASE m \in {"handler", "choose_another"}
    BY <1>1, <1>2, <1>3, <1>7, <1>9, <2>1, <2>2 DEF Knows, Switching, Stopping
  <2>3. CASE m \in Stopping \cup {"choose"}
    <3>1. Loose(g.head)' \/ (g.head = 0 /\ m \in Stopping)
      BY <1>2, <1>3, <1>8, <2>1, <2>3
    <3> QED BY <1>1, <1>2, <1>3, <2>1, <2>3, <3>1 DEF Knows, Switching, Stopping
  <2> QED BY <1>1, <2>2, <2>3
<1> QED BY <1>6, <1>10, <1>11, LearnsNext

LEMMA LearnsDestroy ==
  ASSUME Fits, Sound, NEW f, Framed(f), f.method # "none", Knows(f), Now(f) = "destroy",
         RQDestroy(f.tid), SetOrder(f.tid, 0), NEW value
  PROVE  Sound' /\ Learns(f, value)'
<1> DEFINE t == f.tid
<1>1. f.method = "remove" /\ More(f) /\ Then(f) = "removeHead"
  BY NextFacts
<1>2. Settled /\ t \in created /\ object[t] = f.obj /\ f.running = RunsNow
  BY <1>1 DEF Knows
<1>3. /\ object \in [Threads -> Objects \cup {0}] /\ created \subseteq Threads
      /\ \A u \in Threads : u \in created <=> object[u] # 0
      /\ \A u, v \in created : object[u] = object[v] => u = v
      /\ Spare \in Threads /\ Spare \notin created /\ order \in [Threads -> Nat]
      /\ Line(ready) /\ Queued \subseteq created
  BY SoundFacts
<1>4. /\ created' = created \ {t} /\ object' = [object EXCEPT ![t] = 0]
      /\ ready' = Without(t) /\ running' = running /\ order' = [order EXCEPT ![t] = 0]
  BY DEF RQDestroy, SetOrder
<1>5. Line(ready') /\ Queued' = Queued \ {t}
  BY <1>3, <1>4, LineWithout DEF Queued
<1>6. Owned'
  <2>1. /\ object'[t] = 0 /\ \A u \in Threads : u # t => object'[u] = object[u]
    BY <1>2, <1>3, <1>4
  <2>2. created' = {u \in Threads : object'[u] # 0}
    BY <1>3, <1>4, <2>1
  <2>3. \A u, v \in created' : object'[u] = object'[v] => u = v
    BY <1>3, <1>4, <2>1
  <2>4. object' \in [Threads -> Objects \cup {0}] /\ Spare \notin created'
    BY <1>3, <1>4
  <2> QED BY <2>2, <2>3, <2>4 DEF Owned
<1>7. Ranked'
  BY <1>2, <1>3, <1>4 DEF Ranked, Sound
<1>8. Sound'
  BY <1>3, <1>4, <1>5, <1>6, <1>7 DEF Sound
<1>9. ASSUME Leaves(Keep(f, value), value)
      PROVE  AtRest(f)'
  <2>1. RunsNow # f.obj
    BY <1>1, <1>2, <1>9, LeavesFacts
  <2>2. running # t
    BY <1>2, <1>3, <2>1, ThreadsAssumption DEF RunsNow
  <2> QED BY <1>1, <1>2, <1>4, <1>5, <2>2 DEF AtRest, Settled
<1>10. ASSUME NEW g, Follows(g, f, value)
       PROVE  Knows(g)'
  <2>1. Now(g) = "removeHead" /\ g.method = "remove"
    BY <1>1, <1>10 DEF Follows
  <2> QED BY <2>1 DEF Knows, Switching
<1> QED BY <1>8, <1>9, <1>10, LearnsNext

\* A thread gets the processor.
LEMMA LearnsRun ==
  ASSUME Fits, Sound, NEW f, Framed(f), f.method # "none", Knows(f),
         Now(f) \in {"run", "place"}, RQSetRunning(f.tid), UNCHANGED order, NEW value
  PROVE  Sound' /\ Learns(f, value)'
<1>1. /\ Now(f) = "run" => f.method \in Stopping \cup Switching /\ ~More(f)
      /\ Now(f) = "place" => f.method = "insert" /\ ~More(f)
  BY NextFacts
<1>2. /\ f.tid \in created \/ (f.tid = Spare /\ f.method \in Stopping)
      /\ f.tid \notin Queued
      /\ f.method = "handler" => ready # <<>>
  BY <1>1 DEF Knows, Held
<1>3. /\ running' = f.tid /\ UNCHANGED <<object, created, ready>>
  BY DEF RQSetRunning
<1>4. f.tid \in Threads
  BY <1>2, SoundFacts
<1>5. Sound' /\ Queued' = Queued
  BY <1>3, <1>4 DEF Sound, Owned, Ranked, Queued
<1>6. AtRest(f)'
  BY <1>1, <1>2, <1>3, <1>5 DEF AtRest, Settled, Busy, Stopping, Switching
<1>7. \A g : ~Follows(g, f, value)
  BY <1>1 DEF Follows
<1> QED BY <1>5, <1>6, <1>7, LearnsNext

\* The request of each call.
LEMMA RequestTable ==
  ASSUME NEW f
  PROVE  LET s == Now(f)
             r == Request(f)
             Is(cmd, param) == r.cmd = cmd /\ r.param = param
         IN /\ s = "reset" => r.cmd = "RESET"
            /\ s = "size" => r.cmd = "SIZE"
            /\ s = "chosen" => r.cmd = "CHOSEN"
            /\ s = "create" => Is("CREATE", f.obj) /\ r.priority = Prio[f.obj]
            /\ s = "place" /\ f.running = 0 => Is("UPDATE_RUNNING", f.tid)
            /\ s = "place" /\ f.running # 0 => Is("INSERT", f.tid) /\ r.priority = Prio[f.obj]
            /\ s = "insertObj" => Is("INSERT", f.tid) /\ r.priority = Prio[f.obj]
            /\ s = "insertRunning" => Is("INSERT", f.running_tid) /\ r.priority = Prio[f.running]
            /\ s = "findObj" => Is("GETID", f.obj)
            /\ s = "findRunning" => Is("GETID", f.running)
            /\ s = "findHead" => Is("GETID", f.head)
            /\ s = "destroy" => Is("DESTROY", f.tid)
            /\ s = "removeObj" => Is("REMOVE", f.tid)
            /\ s = "removeHead" => r.cmd = "REMOVE_HEAD"
            /\ s = "run" => Is("UPDATE_RUNNING", f.tid)
            /\ s = "quantum" => r.cmd = "SET_QUANTUM"
            /\ s = "ticks" => r.cmd = "RSTICKS"
            /\ s = "enable" => r.cmd = "ENABLE"
            /\ s = "disable" => r.cmd = "DISABLE"
            /\ s = "ack" => r.cmd = "INT_ACK"
  BY DEF Request, Now

\* Every call keeps the block sound and teaches its caller what the next call relies on.
LEMMA CallLearns ==
  ASSUME Fits, Sound, NEW f, Framed(f), f.method # "none", Knows(f), Now(f) # "ack",
         f.method \in Takes => f.obj \in Objects,
         NEW r, LET q == Request(f)
                IN /\ r.cmd = q.cmd /\ r.param = q.param
                   /\ q.cmd \in {"CREATE", "INSERT"} => r.priority = q.priority,
         Performs(r),
         failed' = Refuses(r),
         request' = (request /\ r.cmd \notin {"SET_QUANTUM", "RSTICKS", "INT_ACK"})
  PROVE  Sound' /\ Learned(f)'
<1> DEFINE s == Now(f)
<1>0. PICK value : value = IF failed' THEN -1 ELSE reply'
  OBVIOUS
<1>1. SUFFICES Sound' /\ Learns(f, value)'
  BY <1>0 DEF Learned
<1>2. s \in Calls
  BY CallFacts
<1>3. s \in {"create", "findObj", "place", "insertObj"} => f.obj \in Objects
  <2>1. s \in {"create", "findObj", "place", "insertObj"} => f.method \in Takes
    BY NextFacts DEF Takes
  <2> QED BY <2>1
<1>4. created # Threads
  BY SoundFacts
<1>5. CASE s \in {"size", "ticks", "quantum", "enable", "disable"}
  <2>1. Steady
    BY <1>5, RequestTable DEF Performs, Serves, SetsOrder, TimerControls, RQSize, rqVars, Steady
  <2>2. request' = (request /\ s \notin {"ticks", "quantum"})
    BY <1>5, RequestTable
  <2>3. Sound'
    BY <2>1, SteadyFacts
  <2> QED BY <1>5, <2>1, <2>2, <2>3, LearnsQuiet
<1>6. CASE s = "reset"
  <2>1. RQReset /\ order' = [t \in Threads |-> 0]
    BY <1>6, RequestTable DEF Performs, Serves, SetsOrder, TimerControls
  <2> QED BY <1>6, <2>1, LearnsReset
<1>7. CASE s = "chosen"
  <2>1. RQChosen /\ UNCHANGED order /\ failed' = FALSE
    BY <1>7, RequestTable DEF Performs, Serves, SetsOrder, TimerControls, Refuses
  <2>2. Steady /\ value = RunsNow
    BY <1>0, <2>1 DEF RQChosen, Steady, RunsNow
  <2>3. Sound'
    BY <2>2, SteadyFacts
  <2> QED BY <1>7, <2>1, <2>2, <2>3, LearnsChosen
<1>8. CASE s = "create"
  <2>1. /\ RQCreate(f.obj) /\ reply' = Max(Threads \ created) /\ SetOrder(reply', Prio[f.obj])
        /\ failed' = FALSE
    BY <1>4, <1>8, RequestTable DEF Performs, Serves, SetsOrder, TimerControls, Refuses
  <2> QED BY <1>0, <1>3, <1>4, <1>8, <2>1, LearnsCreate
<1>9. CASE s \in {"insertObj", "place"} /\ r.cmd = "INSERT"
  <2>1. RQEnqueue(f.tid, Prio[f.obj]) /\ SetOrder(f.tid, Prio[f.obj])
    BY <1>9, RequestTable DEF Performs, Serves, SetsOrder, TimerControls
  <2> QED BY <1>9, <2>1, LearnsInsertObj
<1>10. CASE s \in {"run", "place"} /\ r.cmd = "UPDATE_RUNNING"
  <2>1. RQSetRunning(f.tid) /\ UNCHANGED order
    BY <1>10, RequestTable DEF Performs, Serves, SetsOrder, TimerControls
  <2> QED BY <1>10, <2>1, LearnsRun
<1>11. CASE s = "insertRunning"
  <2>1. RQEnqueue(f.running_tid, Prio[f.running]) /\ SetOrder(f.running_tid, Prio[f.running])
    BY <1>11, RequestTable DEF Performs, Serves, SetsOrder, TimerControls
  <2> QED BY <1>11, <2>1, LearnsInsertRunning
<1>12. CASE s \in {"findObj", "findRunning", "findHead"}
  <2>1. RQGetId(r.param) /\ UNCHANGED order /\ (failed' <=> ~Found(r.param))
    BY <1>12, RequestTable DEF Performs, Serves, SetsOrder, TimerControls, Refuses
  <2>2. value = IF ~Found(r.param) THEN -1 ELSE reply'
    BY <1>0, <2>1
  <2>3. Steady
    BY <2>1 DEF RQGetId, Steady
  <2>4. Sound'
    BY <2>3, SteadyFacts
  <2>5. CASE s = "findObj"
    <3>1. r.param = f.obj
      BY <2>5, RequestTable
    <3> QED BY <1>3, <2>1, <2>2, <2>3, <2>4, <2>5, <3>1, LearnsFindObj
  <2>6. CASE s = "findRunning"
    <3>1. r.param = f.running
      BY <2>6, RequestTable
    <3> QED BY <2>1, <2>2, <2>3, <2>4, <2>6, <3>1, LearnsFindRunning
  <2>7. CASE s = "findHead"
    <3>1. r.param = f.head
      BY <2>7, RequestTable
    <3> QED BY <2>1, <2>2, <2>3, <2>4, <2>7, <3>1, LearnsFindHead
  <2> QED BY <1>12, <2>5, <2>6, <2>7
<1>13. CASE s = "destroy"
  <2>1. RQDestroy(f.tid) /\ SetOrder(f.tid, 0)
    BY <1>13, RequestTable DEF Performs, Serves, SetsOrder, TimerControls
  <2> QED BY <1>13, <2>1, LearnsDestroy
<1>14. CASE s = "removeObj"
  <2>1. RQDequeue(f.tid) /\ UNCHANGED order /\ failed' = FALSE
    BY <1>14, RequestTable DEF Performs, Serves, SetsOrder, TimerControls, Refuses
  <2> QED BY <1>0, <1>14, <2>1, LearnsRemoveObj
<1>15. CASE s = "removeHead"
  <2>1. RQDequeueHead /\ UNCHANGED order /\ failed' = FALSE
    BY <1>15, RequestTable DEF Performs, Serves, SetsOrder, TimerControls, Refuses
  <2> QED BY <1>0, <1>15, <2>1, LearnsRemoveHead
<1>16. s \in {"insertObj", "place"} => r.cmd \in {"INSERT", "UPDATE_RUNNING"}
       /\ (s = "insertObj" => r.cmd = "INSERT")
  BY RequestTable
<1>17. s = "run" => r.cmd = "UPDATE_RUNNING"
  BY RequestTable
<1> QED BY <1>2, <1>5, <1>6, <1>7, <1>8, <1>9, <1>10, <1>11, <1>12, <1>13, <1>14, <1>15, <1>16,
           <1>17 DEF Calls

-----------------------------------------------------------------------------
(***************************************************************************)
(* The invariant.                                                           *)
(***************************************************************************)
LEMMA KnowsSame ==
  ASSUME NEW f, NEW g, g.method = f.method, g.obj = f.obj, g.todo = f.todo, g.tid = f.tid,
         g.running = f.running, g.running_tid = f.running_tid, g.head = f.head
  PROVE  /\ Knows(g) <=> Knows(f)
         /\ Real(g) <=> Real(f)
         /\ AtRest(g) <=> AtRest(f)
  BY DEF Knows, Real, AtRest, Now

LEMMA DataInit ==
  ASSUME Fits
  PROVE  DriverInit => Data
<1> SUFFICES ASSUME DriverInit PROVE Data
  OBVIOUS
<1> DEFINE f == Enter("reset", 0)
<1>1. frame = [main |-> f, isr |-> NoFrame] /\ cpu = "program"
  BY DEF DriverInit
<1>2. "reset" \in DOMAIN Body
  BY Table
<1>3. Framed(f) /\ f.method = "reset" /\ f.access = "cmd"
  BY <1>2, EnterFacts
<1> HIDE DEF f
<1>4. frame["main"] = f /\ frame["isr"] = NoFrame
  BY <1>1
<1>5. /\ object = [t \in Threads |-> 0] /\ created = {} /\ ready = <<>> /\ running = 0
      /\ order = [t \in Threads |-> 0]
  BY DEF DriverInit, RQInit
<1>6. Line(ready) /\ Queued = {}
  BY <1>5, EmptySeq DEF Line, Queued, Ids
<1>7. Sound
  BY <1>5, <1>6, SpareFacts DEF Sound, Owned, Ranked
<1>8. Ending(f, "reset")
  BY <1>3, SingleCalls DEF Single
<1>9. Knows(f) /\ Real(f)
  BY <1>3, <1>5, <1>6, <1>8 DEF Knows, Real, Settled, Switching, Ending
<1>10. Informed("main")
  BY <1>3, <1>4, <1>9 DEF Informed, Executed
<1>11. \A k \in Callers : (Active(k) => Real(frame[k])) /\ frame[k].access # "return"
  BY <1>3, <1>4, <1>9, NoFrameFacts DEF Callers, Active
<1>12. Active("main") /\ frame["main"].method \notin Takes
  BY <1>3, <1>4 DEF Active, Takes
<1> QED BY <1>1, <1>7, <1>10, <1>11, <1>12 DEF Data

\* The timer asks for another thread only if a thread runs: the spare row has order 0,
\* which no queued thread reaches.
LEMMA RaisedFacts ==
  ASSUME Fits, Sound, Settled, PreemptionDue
  PROVE  Busy
<1>1. running # 0 /\ ready # <<>> /\ order[running] >= order[Head(ready).tid]
  BY DEF PreemptionDue
<1>2. Line(ready) /\ Queued \subseteq created /\ created \subseteq Threads
  BY SoundFacts
<1>3. Head(ready).tid \in created
  BY <1>1, <1>2, LineTail DEF Queued
<1>4. order[Head(ready).tid] = Prio[object[Head(ready).tid]]
      /\ object[Head(ready).tid] \in Objects
  BY <1>3, SoundFacts
<1>5. order[Head(ready).tid] > 0
  BY <1>4 DEF Fits
<1>6. order[Spare] = 0
  BY SoundFacts
<1>7. running # Spare
  BY <1>1, <1>2, <1>3, <1>5, <1>6, SoundFacts
<1> QED BY <1>1, <1>7 DEF Settled, Busy

LEMMA DataRaise ==
  ASSUME Fits, Control, Data, Raise
  PROVE  Data'
<1>1. /\ UNCHANGED <<object, created, ready, running, order, reply, failed, posted, cpu, frame,
                     started>>
      /\ PreemptionDue /\ request' = TRUE
  BY DEF Raise, rqVars, adapter
<1>2. Sound /\ Steady
  BY <1>1 DEF Data, Steady
<1>3. Settled => Busy
  BY <1>1, <1>2, RaisedFacts
<1>4. ASSUME NEW f, Knows(f) PROVE Knows(f)'
  <2>1. Now(f) = "enable" => Busy
    BY <1>3, <1>4 DEF Knows
  <2> QED BY <1>2, <1>4, <2>1, SteadyFacts DEF Knows, Alarmed
<1>5. ASSUME NEW f, AtRest(f) PROVE AtRest(f)'
  BY <1>2, <1>3, <1>5, SteadyFacts DEF AtRest, Alarmed
<1>6. ASSUME NEW f, NEW value, Learns(f, value) PROVE Learns(f, value)'
  <2>1. CASE Leaves(Keep(f, value), value)
    BY <1>5, <1>6, <2>1 DEF Learns
  <2>2. CASE ~Leaves(Keep(f, value), value)
    <3> DEFINE g == Advanced(Keep(f, value))
    <3>1. Knows(g)
      BY <1>6, <2>2 DEF Learns
    <3> HIDE DEF g
    <3>2. Knows(g)'
      BY <1>4, <3>1
    <3> QED BY <2>2, <3>2 DEF Learns, g
  <2> QED BY <2>1, <2>2
<1>7. ASSUME NEW k \in Callers, Informed(k) PROVE Informed(k)'
  <2> DEFINE f == frame[k]
             value == IF failed THEN -1 ELSE reply
  <2>1. frame'[k] = f /\ (IF failed' THEN -1 ELSE reply') = value /\ (Executed(k)' <=> Executed(k))
    BY <1>1 DEF Executed
  <2>2. PICK g, v : g = f /\ v = value
    OBVIOUS
  <2>3. IF Executed(k) THEN Learns(g, v) ELSE Knows(g)
    BY <1>7, <2>2 DEF Informed, Learned
  <2>4. IF Executed(k) THEN Learns(g, v)' ELSE Knows(g)'
    BY <1>4, <1>6, <2>3
  <2>5. g = frame'[k] /\ v = IF failed' THEN -1 ELSE reply'
    BY <2>1, <2>2
  <2> HIDE DEF f, value
  <2> QED BY <2>1, <2>4, <2>5 DEF Informed, Learned
<1>8. Sound' /\ (Settled => Settled' /\ Alarmed')
  BY <1>1, <1>2, <1>3, SteadyFacts DEF Alarmed
<1>9. \A k \in Callers : /\ Active(k)' <=> Active(k)
                         /\ Turn(k)' <=> Turn(k)
                         /\ frame'[k] = frame[k]
                         /\ At(k, "enable")' <=> At(k, "enable")
  BY <1>1 DEF Active, Turn, At
<1>10. \A k \in Callers : Active(k) /\ Real(frame[k]) => Real(frame[k])'
  BY <1>1 DEF Real
<1> QED BY <1>1, <1>7, <1>8, <1>9, <1>10 DEF Data, Callers

\* A step that leaves the block and its timer alone.
Unmoved == Steady /\ UNCHANGED <<request, failed, reply>>

LEMMA UnmovedFacts ==
  ASSUME Unmoved
  PROVE  /\ Sound' <=> Sound
         /\ Settled' <=> Settled
         /\ Alarmed' <=> Alarmed
         /\ \A f : Knows(f)' <=> Knows(f)
         /\ \A f : AtRest(f)' <=> AtRest(f)
         /\ \A f, value : Learns(f, value)' <=> Learns(f, value)
<1>1. Steady /\ request' = request
  BY DEF Unmoved
<1>2. Alarmed' <=> Alarmed
  BY <1>1, SteadyFacts DEF Alarmed
<1>3. ASSUME NEW f PROVE Knows(f)' <=> Knows(f)
  BY <1>1, <1>2, SteadyFacts DEF Knows
<1>4. ASSUME NEW f PROVE AtRest(f)' <=> AtRest(f)
  BY <1>1, <1>2, SteadyFacts DEF AtRest
<1>5. ASSUME NEW f, NEW value PROVE Learns(f, value)' <=> Learns(f, value)
  <2> DEFINE g == Advanced(Keep(f, value))
  <2>1. Knows(g)' <=> Knows(g)
    <3> HIDE DEF g
    <3> QED BY <1>3
  <2> QED BY <1>4, <2>1 DEF Learns, g
<1> QED BY <1>1, <1>2, <1>3, <1>4, <1>5, SteadyFacts

LEMMA UnmovedBlock ==
  ASSUME UNCHANGED block
  PROVE  Unmoved
  BY DEF block, rqVars, Unmoved, Steady

\* The accesses, as far as the frames and the command in flight go.
LEMMA WritesFrames ==
  ASSUME Control, NEW k \in Callers,
         WriteCommand(k) \/ WritePriority(k) \/ WriteParameter(k)
  PROVE  LET f == frame[k]
             g == frame'[k]
         IN /\ Framed(f) /\ Active(k) /\ Turn(k) /\ f.access \in {"cmd", "priority", "param"}
            /\ Unmoved /\ started' = started /\ cpu' = cpu
            /\ \A j \in Callers \ {k} : frame'[j] = frame[j]
            /\ \/ /\ g.method = f.method /\ g.obj = f.obj /\ g.todo = f.todo /\ g.tid = f.tid
                  /\ g.running = f.running /\ g.running_tid = f.running_tid /\ g.head = f.head
                  /\ \/ g.access \in {"priority", "param"}
                     \/ g.access = "status" /\ posted' # NoRequest /\ Now(f) # "ack"
               \/ /\ k = "isr" /\ Now(f) = "ack" /\ g.method = "handler" /\ Now(g) = "removeHead"
                  /\ g.access = "cmd" /\ posted'.cmd = "INT_ACK"
<1> DEFINE f == frame[k]
           g == frame'[k]
<1>1. /\ Frames /\ FrameOf(f) /\ Framed(f) /\ Active(k) /\ Turn(k)
      /\ f.access \in {"cmd", "priority", "param"} /\ started' = started /\ UNCHANGED block
  BY DEF Control, Frames, Framed, WriteCommand, WritePriority, WriteParameter, Accesses
<1>2. CASE WriteCommand(k) \/ WritePriority(k) \/ (WriteParameter(k) /\ ~At(k, "ack"))
  <2>1. PICK access \in {"priority", "param", "status"} :
          GoTo(k, access) /\ (access = "status" => WriteParameter(k) /\ ~At(k, "ack"))
    BY <1>2 DEF WriteCommand, WritePriority, WriteParameter
  <2>2. /\ g = [f EXCEPT !.access = access]
        /\ \A j \in Callers \ {k} : frame'[j] = frame[j]
        /\ cpu' = cpu
    BY <1>1, <2>1, GoToFrame
  <2>3. /\ g.access = access
        /\ g.method = f.method /\ g.obj = f.obj /\ g.todo = f.todo /\ g.tid = f.tid
        /\ g.running = f.running /\ g.running_tid = f.running_tid /\ g.head = f.head
    BY <1>1, <2>2, AccessFacts
  <2>4. access = "status" => posted' # NoRequest
    <3> SUFFICES ASSUME access = "status" PROVE posted' # NoRequest
      OBVIOUS
    <3>1. posted' = [cmd |-> reg_command, priority |-> reg_priority,
                     param |-> Request(f).param]
          /\ f.access = "param"
      BY <2>1 DEF WriteParameter, Accesses
    <3>2. reg_command = Request(f).cmd
      BY <1>1, <3>1 DEF Control, Writes
    <3>3. Request(f).cmd # "NONE"
      BY <1>1, CallFacts, RequestTable DEF Active, Calls
    <3> QED BY <3>1, <3>2, <3>3 DEF NoRequest
  <2> HIDE DEF f, g
  <2>5. \/ g.access \in {"priority", "param"}
        \/ g.access = "status" /\ posted' # NoRequest /\ Now(f) # "ack"
    <3>1. At(k, "ack") <=> Now(f) = "ack"
      BY <1>1 DEF At, Now, f
    <3> QED BY <2>1, <2>3, <2>4, <3>1
  <2> QED BY <1>1, <2>2, <2>3, <2>5, UnmovedBlock DEF f, g
<1>3. CASE WriteParameter(k) /\ At(k, "ack")
  <2>1. Now(f) = "ack" /\ f.method = "handler" /\ More(f) /\ Then(f) = "removeHead"
    BY <1>1, <1>3, CallFacts DEF At, Now, Active
  <2>2. k = "isr"
    BY <1>1, <2>1 DEF Frames, Callers, ProgramMethods
  <2>3. /\ g = Advanced(f)
        /\ \A j \in Callers \ {k} : frame'[j] = frame[j]
        /\ cpu' = cpu
    BY <1>1, <1>3, NextCallFrame DEF WriteParameter
  <2>4. Now(g) = "removeHead" /\ g.access = "cmd" /\ g.method = "handler"
    BY <1>1, <2>1, <2>3, AdvancedFramed, AdvancedFacts DEF Framed
  <2>5. posted'.cmd = "INT_ACK"
    <3>1. posted'.cmd = reg_command /\ f.access = "param"
      BY <1>3 DEF WriteParameter, Accesses
    <3>2. reg_command = Request(f).cmd
      BY <1>1, <3>1 DEF Control, Writes
    <3> QED BY <2>1, <3>1, <3>2, RequestFacts
  <2> HIDE DEF f, g
  <2> QED BY <1>1, <2>1, <2>2, <2>3, <2>4, <2>5, UnmovedBlock DEF f, g
<1> QED BY <1>2, <1>3

LEMMA DataWrites ==
  ASSUME Fits, Control, Data, NEW k \in Callers,
         WriteCommand(k) \/ WritePriority(k) \/ WriteParameter(k)
  PROVE  Data'
<1>0. PICK f : f = frame[k]
  OBVIOUS
<1>1. PICK g : g = frame'[k]
  OBVIOUS
<1>2. /\ Framed(f) /\ Active(k) /\ Turn(k) /\ f.access \in {"cmd", "priority", "param"}
      /\ Unmoved /\ started' = started /\ cpu' = cpu
      /\ \A j \in Callers \ {k} : frame'[j] = frame[j]
      /\ \/ /\ g.method = f.method /\ g.obj = f.obj /\ g.todo = f.todo /\ g.tid = f.tid
            /\ g.running = f.running /\ g.running_tid = f.running_tid /\ g.head = f.head
            /\ g.access \in {"priority", "param"} \/ (g.access = "status" /\ posted' # NoRequest)
         \/ /\ k = "isr" /\ Now(f) = "ack" /\ g.method = "handler" /\ Now(g) = "removeHead"
            /\ g.access = "cmd"
  BY <1>0, <1>1, WritesFrames
<1>3. Knows(f) /\ Real(f)
  <2>1. ~Executed(k)
    BY <1>0, <1>2 DEF Executed
  <2>2. Informed(k)
    BY <1>2 DEF Data, Turn, Callers
  <2>3. Real(frame[k])
    BY <1>2 DEF Data
  <2> QED BY <1>0, <2>1, <2>2, <2>3 DEF Informed
<1>4. Knows(g) /\ Real(g) /\ g.method # "none"
  <2>1. CASE /\ g.method = f.method /\ g.obj = f.obj /\ g.todo = f.todo /\ g.tid = f.tid
             /\ g.running = f.running /\ g.running_tid = f.running_tid /\ g.head = f.head
    BY <1>0, <1>2, <1>3, <2>1, KnowsSame DEF Active
  <2>2. CASE Now(f) = "ack" /\ g.method = "handler" /\ Now(g) = "removeHead"
    <3>1. f.method = "handler"
      BY <1>0, <1>2, <2>2, CallFacts DEF Active
    <3> QED BY <1>3, <2>2, <3>1 DEF Knows, Real, Switching
  <2> QED BY <1>2, <2>1, <2>2
<1>5. Knows(g)'
  BY <1>2, <1>4, UnmovedFacts
<1>6. Informed(k)'
  <2>1. ~Executed(k)'
    BY <1>1, <1>2 DEF Executed
  <2> QED BY <1>1, <1>5, <2>1 DEF Informed
<1>7. \A j \in Callers : Active(j)' => Real(frame[j])'
  <2> SUFFICES ASSUME NEW j \in Callers, Active(j)' PROVE Real(frame'[j])
    BY DEF Real
  <2>1. CASE j = k
    BY <1>1, <1>4, <2>1
  <2>2. CASE j # k
    BY <1>2, <2>2 DEF Data, Active
  <2> QED BY <2>1, <2>2
<1>8. frame'["main"].method \in Takes => frame'["main"].obj \in Objects
  BY <1>0, <1>1, <1>2 DEF Data, Callers, Takes
<1>9. \A j \in Callers : ~(Turn(j)' /\ frame'[j].access = "return")
  BY <1>1, <1>2 DEF Turn, Callers
<1>10. cpu = (IF k = "isr" THEN "handler" ELSE "program") /\ Active(k)'
  BY <1>1, <1>2, <1>4 DEF Turn, Active
<1>11. Sound'
  BY <1>2, UnmovedFacts DEF Data
<1>12. k = "main" => cpu' # "handler"
  BY <1>2, <1>10
<1> QED BY <1>2, <1>6, <1>7, <1>8, <1>9, <1>10, <1>11 DEF Data, Callers

\* What a method knows before a call rules the null pointers out.
LEMMA KnowsReal ==
  ASSUME Fits, Sound, NEW f, Framed(f), f.method # "none", Knows(f)
  PROVE  Real(f)
<1>1. ASSUME Now(f) = "insertRunning"
      PROVE  f.running # 0
  <2>1. f.method \in Switching
    BY <1>1, NextFacts DEF Switching
  <2>2. f.running = RunsNow /\ running \in created
    BY <1>1, <2>1 DEF Knows
  <2> QED BY <2>2, RunsNowFacts
<1>2. f.method = "handler" /\ Now(f) = "run" => f.head # 0
  BY DEF Knows
<1> QED BY <1>1, <1>2 DEF Real

\* The method that enables interrupts returns, whatever it is told.
LEMMA EnableLearns ==
  ASSUME NEW f, Framed(f), f.method # "none", Now(f) = "enable", NEW value
  PROVE  Learns(f, value) <=> AtRest(f)
<1>1. Leaves(Keep(f, value), value)
  BY CallFacts, LeavesFacts
<1> QED BY <1>1 DEF Learns

\* execute_cmd goes on with the method, or the method returns.
LEMMA DataContinues ==
  ASSUME Fits, Control, Data, NEW k \in Callers, NEW value, Continue(k, value),
         Active(k), Turn(k), Executed(k), Unmoved, UNCHANGED <<started, posted>>,
         Learns(frame[k], value)
  PROVE  Data'
<1>0. PICK f : f = frame[k]
  OBVIOUS
<1>1. /\ Frames /\ Framed(f) /\ f.method # "none" /\ posted = NoRequest
      /\ cpu = IF k = "isr" THEN "handler" ELSE "program"
  BY <1>0 DEF Control, Frames, Active, Executed, Turn
<1>2. Sound' /\ Sound
  BY UnmovedFacts DEF Data
<1>3. CASE Leaves(Keep(f, value), value)
  <2>1. /\ frame'[k] = NoFrame
        /\ \A j \in Callers \ {k} : frame'[j] = frame[j]
        /\ cpu' = IF k = "isr" THEN "handled" ELSE cpu
    BY <1>0, <1>1, <1>3, ReturnsFrame DEF Continue
  <2>2. AtRest(f)
    BY <1>0, <1>3 DEF Learns
  <2>3. ~Active(k)' /\ NoFrame.method \notin Takes
    BY <2>1, NoFrameFacts DEF Active, Takes
  <2>4. \A j \in Callers : ~(Turn(j)' /\ Active(j)')
    BY <1>1, <2>1, <2>3 DEF Turn, Callers
  <2>5. \A j \in Callers : Active(j)' => Real(frame'[j])
    BY <2>1, <2>3 DEF Data, Active
  <2>6. frame'["main"].method \in Takes => frame'["main"].obj \in Objects
    BY <2>1, <2>3 DEF Data, Callers
  <2>7. CASE k = "main"
    <3>1. started => f.method = "start"
      BY <1>0, <2>7 DEF Control
    <3>2. Settled' /\ (started' => Alarmed')
      BY <2>2, <3>1, UnmovedFacts DEF AtRest
    <3> QED BY <1>1, <1>2, <2>1, <2>3, <2>4, <2>5, <2>6, <2>7, <3>2 DEF Data, Real
  <2>8. CASE k = "isr"
    <3>1. f.method = "handler"
      BY <1>0, <1>1, <2>8 DEF Frames
    <3>2. Settled /\ Alarmed
      BY <2>2, <3>1 DEF AtRest, Alarmed
    <3>3. Settled' /\ Alarmed'
      BY <3>2, UnmovedFacts
    <3>4. frame'["main"] = frame["main"] /\ cpu' = "handled"
      BY <2>1, <2>8 DEF Callers
    <3>5. ASSUME Active("main")'
          PROVE  Informed("main")'
      <4>1. PICK h : h = frame["main"]
        OBVIOUS
      <4>2. Active("main") /\ Closing
        BY <1>1, <2>8, <3>4, <3>5 DEF Active, Control
      <4>3. Framed(h) /\ h.method # "none" /\ Now(h) = "enable" /\ h.method # "handler"
            /\ h.access \in {"status", "return"}
        BY <1>1, <4>1, <4>2 DEF Closing, At, Now, Frames, Callers, Active, ProgramMethods
      <4>4. AtRest(h)
        BY <3>2, <4>3 DEF AtRest
      <4>5. \A v : Learns(h, v)
        BY <4>3, <4>4, EnableLearns
      <4>6. \A v : Learns(h, v)'
        BY <4>5, UnmovedFacts
      <4>7. h = frame'["main"] /\ Executed("main")'
        BY <1>1, <3>4, <4>1, <4>3 DEF Executed
      <4>8. PICK v : v = IF failed' THEN -1 ELSE reply'
        OBVIOUS
      <4>9. Learns(h, v)'
        BY <4>6
      <4> QED BY <4>7, <4>8, <4>9 DEF Informed, Learned
    <3> QED BY <1>2, <2>4, <2>5, <2>6, <3>3, <3>4, <3>5 DEF Data, Real
  <2> QED BY <2>7, <2>8 DEF Callers
<1>4. CASE ~Leaves(Keep(f, value), value)
  <2>1. PICK g : g = Advanced(Keep(f, value))
    OBVIOUS
  <2>2. /\ frame'[k] = g
        /\ \A j \in Callers \ {k} : frame'[j] = frame[j]
        /\ cpu' = cpu
    BY <1>0, <1>1, <1>4, <2>1, NextCallFrame DEF Continue
  <2>3. Follows(g, f, value)
    BY <1>1, <1>4, <2>1, FollowsFacts
  <2>4. Framed(g) /\ g.access = "cmd" /\ g.method = f.method /\ g.obj = f.obj
    BY <2>3 DEF Follows
  <2>5. Knows(g)
    BY <1>0, <1>4, <2>1 DEF Learns
  <2>6. Real(g)
    BY <1>1, <1>2, <2>4, <2>5, KnowsReal
  <2>7. Knows(g)'
    BY <2>5, UnmovedFacts
  <2>8. Informed(k)'
    BY <2>2, <2>4, <2>7 DEF Informed, Executed
  <2>9. \A j \in Callers : Active(j)' => Real(frame'[j])
    BY <2>2, <2>6 DEF Data, Active
  <2>10. Active(k)' /\ frame'[k].access = "cmd"
    BY <1>1, <2>2, <2>4 DEF Active
  <2>11. \A j \in Callers : ~(Turn(j)' /\ frame'[j].access = "return")
    BY <1>1, <2>2, <2>10 DEF Turn, Callers
  <2>12. frame'["main"].method \in Takes => frame'["main"].obj \in Objects
    BY <1>0, <2>2, <2>4 DEF Data, Callers
  <2> QED BY <1>1, <1>2, <2>2, <2>8, <2>9, <2>10, <2>11, <2>12 DEF Data, Callers, Real
<1> QED BY <1>3, <1>4

LEMMA LearnsSame ==
  ASSUME NEW f, NEW g, Framed(f), Framed(g), g.method = f.method, g.obj = f.obj,
         g.todo = f.todo, g.tid = f.tid, g.running = f.running, g.running_tid = f.running_tid,
         g.head = f.head, NEW value
  PROVE  Learns(g, value) <=> Learns(f, value)
<1>1. Now(g) = Now(f) /\ (More(g) <=> More(f))
  BY DEF Now, More
<1>2. Leaves(Keep(g, value), value) <=> Leaves(Keep(f, value), value)
  <2>1. Leaves(Keep(f, value), value) <=>
           \/ ~More(f)
           \/ Now(f) = "create" /\ value <= 0
           \/ Now(f) = "findObj" /\ IF f.method \in Stopping THEN value < 0 ELSE value = 0
           \/ f.method = "remove" /\ Now(f) = "destroy" /\ f.running # f.obj
           \/ f.method = "suspend" /\ Now(f) = "chosen" /\ value # f.obj
           \/ f.method = "choose_this" /\ Now(f) = "removeObj" /\ value = 0
    BY LeavesFacts
  <2>2. Leaves(Keep(g, value), value) <=>
           \/ ~More(g)
           \/ Now(g) = "create" /\ value <= 0
           \/ Now(g) = "findObj" /\ IF g.method \in Stopping THEN value < 0 ELSE value = 0
           \/ g.method = "remove" /\ Now(g) = "destroy" /\ g.running # g.obj
           \/ g.method = "suspend" /\ Now(g) = "chosen" /\ value # g.obj
           \/ g.method = "choose_this" /\ Now(g) = "removeObj" /\ value = 0
    BY LeavesFacts
  <2> QED BY <1>1, <2>1, <2>2
<1>3. AtRest(g) <=> AtRest(f)
  BY KnowsSame
<1> DEFINE kf == Keep(f, value)
           kg == Keep(g, value)
<1>4. /\ FrameOf(kf) /\ FrameOf(kg) /\ kg.method = kf.method /\ kg.obj = kf.obj
      /\ kg.todo = kf.todo /\ kg.tid = kf.tid /\ kg.running = kf.running
      /\ kg.running_tid = kf.running_tid /\ kg.head = kf.head
  BY KeepFacts DEF Framed
<1> HIDE DEF kf, kg
<1> DEFINE af == Advanced(kf)
           ag == Advanced(kg)
<1>5. /\ ag.method = af.method /\ ag.obj = af.obj /\ ag.todo = af.todo /\ ag.tid = af.tid
      /\ ag.running = af.running /\ ag.running_tid = af.running_tid /\ ag.head = af.head
  BY <1>4, AdvancedFacts
<1> HIDE DEF af, ag
<1>6. Knows(ag) <=> Knows(af)
  BY <1>5, KnowsSame
<1> QED BY <1>2, <1>3, <1>6 DEF Learns, af, ag, kf, kg

\* The program and the handler read the result of an executed command.
LEMMA DataReads ==
  ASSUME Fits, Control, Data, NEW k \in Callers, ReadStatus(k) \/ ReadReturn(k)
  PROVE  Data'
<1>0. PICK f : f = frame[k]
  OBVIOUS
<1>1. /\ Active(k) /\ Turn(k) /\ Executed(k) /\ Unmoved /\ UNCHANGED <<started, posted>>
  BY UnmovedBlock DEF ReadStatus, ReadReturn, Accesses, Executed, adapter
<1>2. Frames /\ Framed(f) /\ f.method # "none"
  BY <1>0, <1>1 DEF Control, Frames, Active
<1>3. Learned(f)
  <2>1. Informed(k)
    BY <1>1 DEF Data, Turn, Callers
  <2> QED BY <1>0, <1>1, <2>1 DEF Informed
<1>4. CASE ReadStatus(k) /\ failed
  <2>1. Continue(k, -1) /\ Learns(f, -1)
    BY <1>3, <1>4 DEF ReadStatus, Learned
  <2> QED BY <1>0, <1>1, <2>1, DataContinues
<1>5. CASE ReadReturn(k)
  <2>1. Continue(k, reply) /\ frame[k].access = "return"
    BY <1>5 DEF ReadReturn, Accesses
  <2>2. ~failed \/ At(k, "enable")
    BY <1>1, <2>1 DEF Data
  <2>3. CASE ~failed
    <3>1. Learns(f, reply)
      BY <1>3, <2>3 DEF Learned
    <3> QED BY <1>0, <1>1, <2>1, <3>1, DataContinues
  <2>4. CASE At(k, "enable")
    <3>1. Now(f) = "enable"
      BY <1>0, <2>4 DEF At, Now
    <3>2. PICK v : v = IF failed THEN -1 ELSE reply
      OBVIOUS
    <3>3. PICK w : w = reply
      OBVIOUS
    <3>4. Learns(f, v)
      BY <1>3, <3>2 DEF Learned
    <3>5. Learns(f, w)
      BY <1>2, <3>1, <3>4, EnableLearns
    <3>6. Learns(frame[k], w) /\ Continue(k, w)
      BY <1>0, <2>1, <3>3, <3>5
    <3> QED BY <1>1, <3>6, DataContinues
  <2> QED BY <2>2, <2>3, <2>4
<1>6. CASE ReadStatus(k) /\ ~failed
  <2>1. PICK g : g = frame'[k]
    OBVIOUS
  <2>2. /\ g = [f EXCEPT !.access = "return"]
        /\ \A j \in Callers \ {k} : frame'[j] = frame[j]
        /\ cpu' = cpu
    BY <1>0, <1>2, <1>6, <2>1, GoToFrame DEF ReadStatus
  <2>3. /\ FrameOf(g) /\ g.access = "return"
        /\ g.method = f.method /\ g.obj = f.obj /\ g.todo = f.todo /\ g.tid = f.tid
        /\ g.running = f.running /\ g.running_tid = f.running_tid /\ g.head = f.head
    BY <1>2, <2>2, AccessFacts DEF Framed
  <2>4. Framed(g)
    BY <1>2, <2>3 DEF Framed
  <2>5. Learns(f, reply)
    BY <1>3, <1>6 DEF Learned
  <2>6. PICK v : v = reply
    OBVIOUS
  <2>7. Learns(g, v)
    BY <1>2, <2>3, <2>4, <2>5, <2>6, LearnsSame
  <2>8. Learns(g, v)'
    BY <1>1, <2>7, UnmovedFacts
  <2>9. ~failed' /\ v = reply'
    BY <1>1, <1>6, <2>6 DEF Unmoved
  <2>10. Executed(k)'
    BY <1>1, <2>1, <2>3 DEF Executed
  <2>11. Informed(k)'
    BY <2>1, <2>8, <2>9, <2>10 DEF Informed, Learned
  <2>12. Real(f)
    BY <1>0, <1>1 DEF Data
  <2>13. Real(g)
    BY <2>3, <2>12, KnowsSame
  <2>14. \A j \in Callers : Active(j)' => Real(frame'[j])
    BY <2>1, <2>2, <2>13 DEF Data, Active
  <2>15. Active(k)'
    BY <1>2, <2>1, <2>3 DEF Active
  <2>16. frame'["main"].method \in Takes => frame'["main"].obj \in Objects
    BY <1>0, <2>1, <2>2, <2>3 DEF Data, Callers
  <2>17. Sound'
    BY <1>1, UnmovedFacts DEF Data
  <2>18. k = "main" => cpu' # "handler"
    BY <1>1, <2>2 DEF Turn
  <2>19. k = "isr" => cpu' = "handler"
    BY <1>1, <2>2 DEF Turn
  <2> QED BY <2>9, <2>11, <2>14, <2>15, <2>16, <2>17, <2>18, <2>19 DEF Data, Callers, Real
<1> QED BY <1>4, <1>5, <1>6

\* The block executes the command in flight.
LEMMA DataExecute ==
  ASSUME Fits, Control, Data, Execute
  PROVE  Data'
<1>1. /\ posted # NoRequest /\ posted' = NoRequest /\ Performs(posted)
      /\ failed' = Refuses(posted)
      /\ request' = (request /\ posted.cmd \notin {"SET_QUANTUM", "RSTICKS", "INT_ACK"})
      /\ UNCHANGED <<cpu, frame, started>>
  BY DEF Execute
<1>2. Frames /\ InFlight /\ Sound
  BY <1>1 DEF Control, Data
<1>3. \A j \in Callers : Active(j)' => Real(frame'[j])
  BY <1>1 DEF Data, Active
<1>4. /\ frame'["main"].method \in Takes => frame'["main"].obj \in Objects
      /\ Active("main")' <=> Active("main")
  BY <1>1 DEF Data, Active
<1>5. ASSUME NEW k \in Callers, cpu = (IF k = "isr" THEN "handler" ELSE "program"), Active(k),
             ~At(k, "ack"), frame[k].access = "status", Sends(k)
      PROVE  Data'
  <2>1. PICK f : f = frame[k]
    OBVIOUS
  <2>2. PICK r : r = posted
    OBVIOUS
  <2>3. Framed(f) /\ f.method # "none" /\ Now(f) # "ack"
    BY <1>2, <1>5, <2>1 DEF Frames, Active, At, Now
  <2>4. Knows(f)
    <3>1. Informed(k) /\ ~Executed(k)
      BY <1>1, <1>5 DEF Data, Callers, Executed
    <3> QED BY <2>1, <3>1 DEF Informed
  <2>5. f.method \in Takes => f.obj \in Objects
    <3>1. "handler" \notin Takes
      BY DEF Takes
    <3>2. k = "isr" => f.method = "handler"
      BY <1>2, <1>5, <2>1 DEF Frames
    <3> QED BY <2>1, <3>1, <3>2 DEF Data, Callers
  <2>6. LET q == Request(f)
        IN /\ r.cmd = q.cmd /\ r.param = q.param
           /\ q.cmd \in {"CREATE", "INSERT"} => r.priority = q.priority
    BY <1>5, <2>1, <2>2 DEF Sends
  <2>7. /\ Performs(r)
        /\ failed' = Refuses(r)
        /\ request' = (request /\ r.cmd \notin {"SET_QUANTUM", "RSTICKS", "INT_ACK"})
    BY <1>1, <2>2
  <2>8. Sound' /\ Learned(f)'
    BY <1>2, <2>3, <2>4, <2>5, <2>6, <2>7, CallLearns
  <2>9. f = frame'[k] /\ Executed(k)' /\ frame'[k].access = "status"
    BY <1>1, <1>5, <2>1 DEF Executed
  <2>10. Informed(k)'
    BY <2>8, <2>9 DEF Informed
  <2>11. \A j \in Callers : ~(Turn(j)' /\ frame'[j].access = "return")
    BY <1>1, <1>5, <2>9 DEF Turn, Callers
  <2> QED BY <1>1, <1>3, <1>4, <1>5, <2>8, <2>10, <2>11 DEF Data, Callers, Real
<1>6. CASE /\ cpu = "program" /\ ~enabled
           /\ Active("main") /\ frame["main"].access = "status" /\ Sends("main")
  <2>1. ~At("main", "ack")
    BY <1>2, <1>6, CallFacts DEF Frames, Callers, At, Active, Now, ProgramMethods
  <2> QED BY <1>5, <1>6, <2>1 DEF Callers
<1>7. CASE cpu = "handler" /\ ~At("isr", "ack") /\ frame["isr"].access = "status" /\ Sends("isr")
  <2>1. Active("isr")
    BY <1>2, <1>7 DEF Frames, Active
  <2> QED BY <1>5, <1>7, <2>1 DEF Callers
<1>8. CASE /\ cpu = "handler" /\ At("isr", "removeHead") /\ frame["isr"].access = "cmd"
           /\ posted.cmd = "INT_ACK"
  <2>1. PICK f : f = frame["isr"]
    OBVIOUS
  <2>2. Steady
    BY <1>1, <1>8 DEF Performs, Serves, SetsOrder, TimerControls, rqVars, Steady
  <2>3. Knows(f) /\ Now(f) = "removeHead"
    <3>1. Informed("isr") /\ ~Executed("isr")
      BY <1>1, <1>8 DEF Data, Executed
    <3> QED BY <1>8, <2>1, <3>1 DEF Informed, At, Now
  <2>4. Knows(f)'
    BY <2>2, <2>3, SteadyFacts DEF Knows
  <2>5. Informed("isr")'
    BY <1>1, <1>8, <2>1, <2>4 DEF Informed, Executed
  <2>6. \A j \in Callers : ~(Turn(j)' /\ frame'[j].access = "return")
    BY <1>1, <1>8 DEF Turn, Callers
  <2> QED BY <1>1, <1>2, <1>3, <1>4, <1>8, <2>2, <2>5, <2>6, SteadyFacts DEF Data, Callers, Real
<1> QED BY <1>2, <1>6, <1>7, <1>8 DEF InFlight

LEMMA StaysInformed ==
  ASSUME Unmoved, posted' = posted, NEW k \in Callers, frame'[k] = frame[k], Informed(k)
  PROVE  Informed(k)'
<1>1. PICK f : f = frame[k]
  OBVIOUS
<1>2. PICK v : v = IF failed THEN -1 ELSE reply
  OBVIOUS
<1>3. IF Executed(k) THEN Learns(f, v) ELSE Knows(f)
  BY <1>1, <1>2 DEF Informed, Learned
<1>4. (Learns(f, v)' <=> Learns(f, v)) /\ (Knows(f)' <=> Knows(f))
  BY UnmovedFacts
<1>5. f = frame'[k] /\ (v = IF failed' THEN -1 ELSE reply') /\ (Executed(k)' <=> Executed(k))
  BY <1>1, <1>2 DEF Unmoved, Executed
<1> QED BY <1>3, <1>4, <1>5 DEF Informed, Learned

\* When the processor leaves the program or comes back to it, the program rests or is about
\* to: the thread that runs is not queued, and a pending interrupt has something to do.
LEMMA Suspended ==
  ASSUME Fits, Control, Data, cpu \in {"exception", "handled"}
  PROVE  /\ Settled /\ Alarmed /\ enabled /\ posted = NoRequest
         /\ Active("main") => At("main", "enable")
<1>1. enabled /\ started /\ Frames /\ (Active("main") => Closing)
  BY DEF Control
<1>2. posted = NoRequest
  BY DEF Control, InFlight
<1>3. CASE ~Active("main")
  BY <1>1, <1>2, <1>3 DEF Data
<1>4. CASE Active("main")
  <2>1. PICK f : f = frame["main"]
    OBVIOUS
  <2>2. Framed(f) /\ f.method # "none" /\ f.method \in ProgramMethods /\ Now(f) = "enable"
        /\ f.access \in {"status", "return"}
    BY <1>1, <1>4, <2>1 DEF Frames, Callers, Active, Closing, At, Now
  <2>3. f.method = "start"
    BY <2>2, CallFacts DEF ProgramMethods
  <2>4. Informed("main") /\ Executed("main")
    BY <1>2, <1>4, <2>1, <2>2 DEF Data, Executed
  <2>5. PICK v : v = IF failed THEN -1 ELSE reply
    OBVIOUS
  <2>6. Learns(f, v)
    BY <2>1, <2>4, <2>5 DEF Informed, Learned
  <2>7. AtRest(f)
    BY <2>2, <2>6, EnableLearns
  <2> QED BY <1>1, <1>2, <1>4, <2>3, <2>7 DEF AtRest, Closing
<1> QED BY <1>3, <1>4

\* Where each method begins.
LEMMA FirstCall ==
  ASSUME NEW method \in DOMAIN Body, NEW obj
  PROVE  LET s == Now(Enter(method, obj))
         IN /\ method = "handler" => s = "ack"
            /\ method \in {"remove", "suspend", "resume", "choose_this"} => s = "findObj"
            /\ method = "insert" => s = "create"
            /\ method = "choose" => s = "chosen"
            /\ method = "choose_another" => s = "removeHead"
            /\ method = "start" => s = "quantum"
            /\ method \in DOMAIN Single => s = Single[method]
<1> DEFINE f == Enter(method, obj)
<1>1. Framed(f) /\ f.method = method /\ f.todo = Rest(method, 1)
  BY EnterFacts
<1> HIDE DEF f
<1>2. 1 \in 1..Len(Body[method])
  BY Bodies
<1>3. Now(f) = Body[method][1]
  BY <1>1, <1>2, RestFacts DEF Now
<1>4. "none" # method
  BY Names
<1>5. /\ Handler[1] = "ack" /\ Remove[1] = "findObj" /\ Suspend[1] = "findObj"
      /\ ChooseThis[1] = "findObj" /\ Choose[1] = "chosen" /\ ChooseAnother[1] = "removeHead"
      /\ Start[1] = "quantum"
  BY DEF Handler, Remove, Suspend, ChooseThis, Choose, ChooseAnother, Start
<1>6. method \in {"handler", "remove", "suspend"} =>
        Now(f) = IF method = "handler" THEN "ack" ELSE "findObj"
  BY <1>3, <1>5, Table
<1>7. /\ method \in {"resume", "choose_this"} => Now(f) = "findObj"
      /\ method = "insert" => Now(f) = "create"
  BY <1>3, <1>5, Table
<1>8. method \in {"choose", "choose_another"} =>
        Now(f) = IF method = "choose" THEN "chosen" ELSE "removeHead"
  BY <1>3, <1>5, Table
<1>9. method = "start" => Now(f) = "quantum"
  BY <1>3, <1>5, Table
<1>10. method \in DOMAIN Single => Now(f) = Single[method]
  BY <1>1, <1>4, SingleCalls DEF Ending
<1> QED BY <1>6, <1>7, <1>8, <1>9, <1>10 DEF f

\* The processor takes the exception, calls the handler, and comes back.
LEMMA DataInterrupts ==
  ASSUME Fits, Control, Data, TakeException \/ Dispatch
  PROVE  Data'
<1>1. Unmoved /\ UNCHANGED <<posted, started>> /\ Sound' /\ Frames
  BY UnmovedBlock, UnmovedFacts DEF TakeException, Dispatch, adapter, Data, Control
<1>2. CASE TakeException
  <2>1. cpu = "program" /\ cpu' = "exception" /\ frame' = frame
    BY <1>2 DEF TakeException
  <2>2. Active("main") => Informed("main")'
    BY <1>1, <2>1, StaysInformed DEF Data, Callers
  <2>3. \A k \in Callers : (Active(k)' => Real(frame'[k])) /\ ~Turn(k)'
    BY <2>1 DEF Data, Active, Turn, Callers
  <2>4. ~Active("main") => Settled' /\ (started' => Alarmed')
    BY <1>1, <2>1, UnmovedFacts DEF Data
  <2>5. (Active("main")' <=> Active("main"))
        /\ (frame'["main"].method \in Takes => frame'["main"].obj \in Objects)
    BY <2>1 DEF Data, Active
  <2> QED BY <1>1, <2>1, <2>2, <2>3, <2>4, <2>5 DEF Data, Real
<1>3. CASE Dispatch
  <2>1. /\ cpu \in {"exception", "handled"}
        /\ Settled /\ Alarmed /\ enabled /\ posted = NoRequest
        /\ Active("main") => At("main", "enable")
    BY <1>3, Suspended DEF Dispatch
  <2>2. CASE /\ p_interrupt
             /\ cpu' = "handler"
             /\ frame' = [frame EXCEPT !["isr"] = Enter("handler", 0)]
    <3>1. PICK g : g = Enter("handler", 0)
      OBVIOUS
    <3>2. Framed(g) /\ g.method = "handler" /\ Now(g) = "ack" /\ g.access = "cmd"
      BY <3>1, Names, EnterFacts, FirstCall
    <3>3. frame'["isr"] = g /\ frame'["main"] = frame["main"]
      BY <1>1, <2>2, <3>1 DEF Frames, Callers
    <3>4. Busy
      BY <2>1, <2>2 DEF p_interrupt, Alarmed
    <3>5. Knows(g) /\ Real(g)
      BY <2>1, <3>2, <3>4 DEF Knows, Real, Busy
    <3>6. Knows(g)'
      BY <1>1, <3>5, UnmovedFacts
    <3>7. Informed("isr")'
      BY <3>2, <3>3, <3>6 DEF Informed, Executed
    <3>8. \A k \in Callers : Active(k)' => Real(frame'[k])
      BY <3>3, <3>5 DEF Data, Callers, Active
    <3>9. \A k \in Callers : ~(Turn(k)' /\ frame'[k].access = "return")
      BY <2>2, <3>2, <3>3 DEF Turn, Callers
    <3> QED BY <1>1, <2>2, <3>3, <3>7, <3>8, <3>9 DEF Data, Real
  <2>3. CASE ~p_interrupt /\ cpu' = (IF cpu = "exception" THEN "break" ELSE "program")
             /\ UNCHANGED frame
    <3>1. cpu' = "program"
      BY <2>1, <2>3 DEF p_interrupt, Control
    <3>2. Active("main") => Informed("main")'
      BY <1>1, <2>1, <2>3, StaysInformed DEF Data, Callers
    <3>3. Settled' /\ Alarmed'
      BY <1>1, <2>1, UnmovedFacts
    <3>4. \A k \in Callers : /\ Active(k)' => Real(frame'[k])
                             /\ Active(k)' <=> Active(k)
                             /\ At(k, "enable")' <=> At(k, "enable")
      BY <2>3 DEF Data, Active, At
    <3>5. \A k \in Callers : Turn(k)' /\ Active(k)' => At(k, "enable")'
      BY <2>1, <3>1, <3>4 DEF Turn, Callers
    <3> QED BY <1>1, <2>3, <3>1, <3>2, <3>3, <3>4, <3>5 DEF Data, Callers, Real
  <2> QED BY <1>3, <2>2, <2>3 DEF Dispatch
<1> QED BY <1>2, <1>3

\* The program calls a method, when that is what the method expects.
LEMMA DataCall ==
  ASSUME Fits, Rests, Control, Data, NEW method \in Methods, NEW obj, Call(method, obj),
         method \in Takes => obj \in Objects
  PROVE  Data'
<1>1. PICK g : g = Enter(method, obj)
  OBVIOUS
<1>2. /\ cpu = "program" /\ cpu' = "program" /\ ~Active("main") /\ Expected(method, obj)
      /\ Unmoved /\ frame' = [frame EXCEPT !["main"] = g] /\ Frames /\ Sound
  BY <1>1, UnmovedBlock DEF Call, Fits, Control, Data
<1>3. method \in ProgramMethods /\ method \in DOMAIN Body
  BY Names DEF Rests
<1>4. Framed(g) /\ g.method = method /\ g.obj = obj /\ g.access = "cmd" /\ g.method # "none"
  BY <1>1, <1>3, EnterFacts, Names
<1>5. /\ method \in {"remove", "suspend", "resume", "choose_this"} => Now(g) = "findObj"
      /\ method = "insert" => Now(g) = "create"
      /\ method = "choose" => Now(g) = "chosen"
      /\ method = "choose_another" => Now(g) = "removeHead"
      /\ method = "start" => Now(g) = "quantum"
      /\ method \in {"reset", "schedulables", "chosen", "reset_quantum", "set_quantum",
                     "disable_schedule"} =>
           Now(g) \in {"reset", "size", "chosen", "ticks", "quantum", "disable"}
  BY <1>1, <1>3, FirstCall DEF Single
<1>6. Settled
  BY <1>2 DEF Data
<1>7. method \in {"choose", "choose_another", "choose_this"} => running \in created
  BY <1>2, RunsNowFacts DEF Expected, RunsNow
<1>8. /\ method = "choose_another" => ready # <<>>
      /\ method = "insert" => ~Found(obj)
      /\ method = "choose_this" => Found(obj)
  BY <1>2 DEF Expected
<1>9. ASSUME method = "resume"
      PROVE  \E t \in Threads : Held(t) /\ object[t] = obj
  <2>1. /\ Found(obj) /\ obj # RunsNow
        /\ ~\E i \in DOMAIN ready : object[ready[i].tid] = obj
    BY <1>2, <1>9 DEF Expected, RunsNow
  <2>2. PICK t \in Threads : object[t] = obj
    BY <2>1 DEF Found
  <2>3. obj \in Objects
    BY <1>9 DEF Takes
  <2>4. t \in created
    BY <1>2, <2>2, <2>3, SoundFacts
  <2>5. t \notin Queued
    <3>1. DOMAIN ready = 1..Len(ready)
      BY <1>2, LineFacts DEF Sound
    <3> QED BY <2>1, <2>2, <3>1 DEF Queued, Ids
  <2>6. t # running
    BY <1>2, <2>1, <2>2, <2>4, RunsNowFacts
  <2> QED BY <2>2, <2>4, <2>5, <2>6 DEF Held
<1>10. Knows(g)
  <2>1. CASE method \in {"remove", "suspend", "resume"}
    BY <1>4, <1>5, <1>6, <1>9, <2>1 DEF Knows, Switching
  <2>2. CASE method \in {"choose", "choose_another", "choose_this"}
    BY <1>4, <1>5, <1>6, <1>7, <1>8, <2>2 DEF Knows, Switching
  <2>3. CASE method \in {"insert", "start"}
    BY <1>4, <1>5, <1>6, <1>8, <2>3 DEF Knows, Switching
  <2>4. CASE method \in {"reset", "schedulables", "chosen", "reset_quantum", "set_quantum",
                         "disable_schedule"}
    BY <1>4, <1>5, <1>6, <2>4 DEF Knows, Switching
  <2> QED BY <1>3, <2>1, <2>2, <2>3, <2>4 DEF ProgramMethods
<1>11. Real(g) /\ Knows(g)' /\ Sound'
  BY <1>2, <1>4, <1>10, KnowsReal, UnmovedFacts
<1>12. frame'["main"] = g /\ frame'["isr"] = frame["isr"]
  BY <1>2 DEF Frames, Callers
<1>13. Informed("main")'
  BY <1>4, <1>11, <1>12 DEF Informed, Executed
<1>14. \A k \in Callers : Active(k)' => Real(frame'[k])
  BY <1>11, <1>12 DEF Data, Callers, Active
<1>15. \A k \in Callers : ~(Turn(k)' /\ frame'[k].access = "return")
  BY <1>2, <1>4, <1>12 DEF Turn, Callers
<1>16. Active("main")'
  BY <1>4, <1>12 DEF Active
<1> QED BY <1>2, <1>4, <1>11, <1>12, <1>13, <1>14, <1>15, <1>16 DEF Data, Real

LEMMA DataNext ==
  ASSUME Rests, Fits, Control, Data, [DriverNext]_driverVars
  PROVE  Data'
<1>1. CASE UNCHANGED driverVars
  <2>1. Unmoved /\ UNCHANGED <<posted, cpu, frame, started>>
    BY <1>1, UnmovedBlock DEF driverVars, adapter
  <2>2. \A k \in Callers : /\ Informed(k) => Informed(k)'
                           /\ Active(k)' <=> Active(k)
                           /\ Turn(k)' <=> Turn(k)
                           /\ At(k, "enable")' <=> At(k, "enable")
    BY <2>1, StaysInformed DEF Active, Turn, At
  <2>3. /\ Sound' <=> Sound
        /\ Settled' <=> Settled
        /\ Alarmed' <=> Alarmed
    BY <2>1, UnmovedFacts
  <2>4. failed' = failed
    BY <2>1 DEF Unmoved
  <2> QED BY <2>1, <2>2, <2>3, <2>4 DEF Data, Callers, Real
<1>2. CASE \E k \in Callers : ExecuteCmd(k)
  BY <1>2, DataWrites, DataReads DEF ExecuteCmd
<1>3. CASE Execute
  BY <1>3, DataExecute
<1>4. CASE Raise
  BY <1>4, DataRaise
<1>5. CASE TakeException \/ Dispatch
  BY <1>5, DataInterrupts
<1>6. CASE \E method \in Methods, obj \in Objects \cup {0} :
             Call(method, obj) /\ (method \in Takes => obj \in Objects)
  BY <1>6, DataCall
<1>7. CASE Loop
  BY <1>1, <1>7 DEF Loop
<1> QED BY <1>1, <1>2, <1>3, <1>4, <1>5, <1>6, <1>7 DEF DriverNext, Machine, Callers

LEMMA DriverInv ==
  ASSUME Rests, Fits
  PROVE  DriverSpec => [](Control /\ Data)
<1>1. DriverInit => Control /\ Data
  BY ControlInit, DataInit
<1>2. Control /\ Data /\ [DriverNext]_driverVars => (Control /\ Data)'
  BY ControlNext, DataNext
<1> QED BY <1>1, <1>2, PTL DEF DriverSpec

-----------------------------------------------------------------------------
(***************************************************************************)
(* What follows for the block and for the program.                          *)
(***************************************************************************)
LEMMA KnownRequest ==
  ASSUME Fits, Sound, NEW f, Framed(f), f.method # "none", Knows(f),
         f.method \in Takes => f.obj \in Objects
  PROVE  /\ Legal(Request(f))
         /\ Request(f).cmd = "INSERT" => Request(f).priority \in Keys
<1> DEFINE s == Now(f)
           r == Request(f)
<1>1. s \in Calls
  BY CallFacts
<1>2. \A t : IsReady(t) <=> t \in Queued
  BY DEF IsReady, Queued, Ids
<1>3. CASE s \in {"insertObj", "place"}
  <2>1. Held(f.tid)
    BY <1>3 DEF Knows
  <2>2. f.tid \in created /\ f.tid \in Threads /\ ~IsReady(f.tid)
    BY <1>2, <2>1, SoundFacts DEF Held
  <2>3. /\ r.cmd \in {"INSERT", "UPDATE_RUNNING"} /\ r.param = f.tid
        /\ r.cmd = "INSERT" => r.priority = Prio[f.obj]
    BY <1>3, RequestTable
  <2>4. f.obj \in Objects
    BY <1>3, NextFacts DEF Takes
  <2>5. Prio[f.obj] \in Keys
    BY <2>4, PrioAssumption
  <2> QED BY <2>2, <2>3, <2>5 DEF Legal
<1>4. CASE s = "insertRunning"
  <2>1. f.method \in Switching
    BY <1>4, NextFacts DEF Switching
  <2>2. /\ f.running_tid = running /\ running \in created /\ running \notin Queued
        /\ f.running = RunsNow
    BY <1>4, <2>1 DEF Knows, Settled
  <2>3. r.cmd = "INSERT" /\ r.param = running /\ r.priority = Prio[f.running]
    BY <1>4, <2>2, RequestTable
  <2>4. f.running \in Objects
    BY <2>2, RunsNowFacts, SoundFacts
  <2>5. Prio[f.running] \in Keys
    BY <2>4, PrioAssumption
  <2> QED BY <1>2, <2>2, <2>3, <2>5, SoundFacts DEF Legal
<1>5. CASE s = "run"
  <2>1. f.tid \in Threads
    BY <1>5, SoundFacts DEF Knows
  <2>2. r.cmd = "UPDATE_RUNNING" /\ r.param = f.tid
    BY <1>5, RequestTable
  <2> QED BY <2>1, <2>2 DEF Legal
<1>6. CASE s \in {"destroy", "removeObj"}
  <2>1. f.method = "remove" \/ s = "removeObj"
    BY <1>6, NextFacts
  <2>2. f.tid \in Threads
    BY <1>6, <2>1, SoundFacts DEF Knows
  <2>3. r.cmd \in {"DESTROY", "REMOVE"} /\ r.param = f.tid
    BY <1>6, RequestTable
  <2> QED BY <2>2, <2>3 DEF Legal
<1>7. CASE s \notin {"insertObj", "place", "insertRunning", "run", "destroy", "removeObj"}
  <2>1. r.cmd \notin {"INSERT", "DESTROY", "REMOVE", "UPDATE_RUNNING"}
    BY <1>1, <1>7, RequestTable DEF Calls
  <2> QED BY <2>1 DEF Legal
<1> QED BY <1>3, <1>4, <1>5, <1>6, <1>7

LEMMA PostedRequest ==
  ASSUME Fits, Control, Data, posted # NoRequest
  PROVE  Legal(posted) /\ (posted.cmd = "INSERT" => posted.priority \in Keys)
<1>1. InFlight /\ Frames /\ Sound
  BY DEF Control, Data
<1>2. ASSUME NEW k \in Callers, Active(k), Sends(k), Informed(k), frame[k].access = "status"
      PROVE  Legal(posted) /\ (posted.cmd = "INSERT" => posted.priority \in Keys)
  <2>1. PICK f : f = frame[k]
    OBVIOUS
  <2>2. Framed(f) /\ f.method # "none" /\ Knows(f)
    BY <1>1, <1>2, <2>1 DEF Frames, Active, Informed, Executed
  <2>3. f.method \in Takes => f.obj \in Objects
    <3>1. k = "isr" => f.method \notin Takes
      BY <1>1, <2>1, <2>2 DEF Frames, Takes
    <3> QED BY <2>1, <3>1 DEF Data, Callers
  <2>4. /\ Legal(Request(f))
        /\ Request(f).cmd = "INSERT" => Request(f).priority \in Keys
    BY <1>1, <2>2, <2>3, KnownRequest
  <2>5. /\ posted.cmd = Request(f).cmd /\ posted.param = Request(f).param
        /\ Request(f).cmd = "INSERT" => posted.priority = Request(f).priority
    BY <1>2, <2>1 DEF Sends
  <2> QED BY <2>4, <2>5 DEF Legal
<1>3. CASE /\ cpu = "program" /\ ~enabled
           /\ Active("main") /\ frame["main"].access = "status" /\ Sends("main")
  <2>1. Informed("main")
    BY <1>3 DEF Data
  <2> QED BY <1>2, <1>3, <2>1 DEF Callers
<1>4. CASE cpu = "handler" /\ frame["isr"].access = "status" /\ Sends("isr")
  <2>1. Informed("isr") /\ Active("isr")
    BY <1>1, <1>4 DEF Data, Frames, Active
  <2> QED BY <1>2, <1>4, <2>1 DEF Callers
<1>5. CASE posted.cmd = "INT_ACK"
  BY <1>5 DEF Legal
<1> QED BY <1>1, <1>3, <1>4, <1>5 DEF InFlight

\* The driver never sends an identifier out of range, and never inserts a thread that does
\* not exist or is queued already: for every table that the objects do not fill, whatever
\* the program calls and whenever the interrupt comes.
THEOREM LegalCommands ==
  ASSUME Rests, Fits
  PROVE  DriverSpec => []LegalRequests
<1>1. Control /\ Data => LegalRequests
  BY PostedRequest DEF LegalRequests
<1>2. DriverSpec => [](Control /\ Data)
  BY DriverInv
<1> QED BY <1>1, <1>2, PTL

\* No method reads a priority, and the handler executes no object, through a null pointer.
THEOREM NoNullPointers ==
  ASSUME Rests, Fits
  PROVE  DriverSpec => []ObjectsExist
<1>1. ASSUME Control, Data
      PROVE  ObjectsExist
  <2>1. \A k \in Callers : Active(k) => Real(frame[k])
    BY <1>1 DEF Data
  <2>2. Active("isr") => frame["isr"].method = "handler"
    BY <1>1 DEF Control, Frames, Active
  <2> QED BY <2>1, <2>2 DEF ObjectsExist, At, Real, Now, Callers
<1>2. Control /\ Data => ObjectsExist
  BY <1>1
<1>3. DriverSpec => [](Control /\ Data)
  BY DriverInv
<1> QED BY <1>2, <1>3, PTL

-----------------------------------------------------------------------------
(***************************************************************************)
(* The best thread runs, if a quantum is longer than the handler.           *)
(***************************************************************************)
\* The queue in the order of the priorities, its keys the priorities of the table.
Ordered(seq) == \A i, j \in 1..Len(seq) : i < j => seq[i].key <= seq[j].key
Marked == \A i \in 1..Len(ready) : ready[i].key = order[ready[i].tid]
InOrder == Ordered(ready) /\ Marked

\* No queued thread is better than this priority.
Least(n) == \A t \in Queued : n <= order[t]

LEMMA EntryFacts ==
  \A e \in Entry : e.key \in Nat /\ e.tid \in Threads
  BY PrioAssumption DEF Entry

LEMMA OrderedWith ==
  ASSUME Line(ready), Ordered(ready), NEW entry \in Entry
  PROVE  LET new == Placed(entry)
         IN /\ Ordered(new)
            /\ \A i \in 1..Len(new) : new[i] = entry \/ \E j \in 1..Len(ready) : new[i] = ready[j]
<1> DEFINE new == Placed(entry)
<1>1. PICK n \in 0..Len(ready) :
        /\ \A i \in 1..n : ready[i].key <= entry.key
        /\ n < Len(ready) => ~(ready[n + 1].key <= entry.key)
        /\ new \in Seq(Entry) /\ Len(new) = Len(ready) + 1
        /\ \A i \in 1..(Len(ready) + 1) : new[i] = IF i <= n THEN ready[i]
                                                   ELSE IF i = n + 1 THEN entry ELSE ready[i - 1]
  BY PlacedFacts
<1>2. /\ Len(ready) \in Nat /\ entry.key \in Nat
      /\ \A i \in 1..Len(ready) : ready[i].key \in Nat
  BY LineFacts, EntryFacts
<1> HIDE DEF new
<1>3. \A i, j \in 1..Len(ready) : i <= j => ready[i].key <= ready[j].key
  BY <1>2 DEF Ordered
<1>4. \A i \in 1..Len(ready) : i > n => entry.key <= ready[i].key
  <2> SUFFICES ASSUME NEW i \in 1..Len(ready), i > n
               PROVE  entry.key <= ready[i].key
    OBVIOUS
  <2>1. n + 1 \in 1..Len(ready) /\ n + 1 <= i
    BY <1>2
  <2>2. ready[n + 1].key <= ready[i].key
    BY <1>3, <2>1
  <2>3. ~(ready[n + 1].key <= entry.key)
    BY <1>1, <1>2, <2>1
  <2> QED BY <1>2, <2>1, <2>2, <2>3
<1>5. \A i \in 1..Len(new) : /\ i <= n => i \in 1..Len(ready) /\ new[i] = ready[i]
                             /\ i = n + 1 => new[i] = entry
                             /\ i > n + 1 => i - 1 \in 1..Len(ready) /\ new[i] = ready[i - 1]
  BY <1>1, <1>2
<1>6. ASSUME NEW i \in 1..Len(new), NEW j \in 1..Len(new), i < j
      PROVE  new[i].key <= new[j].key
  <2>1. CASE j <= n
    BY <1>1, <1>2, <1>3, <1>5, <1>6, <2>1
  <2>2. CASE j = n + 1
    BY <1>1, <1>2, <1>5, <1>6, <2>2
  <2>3. CASE j > n + 1
    <3>1. new[j] = ready[j - 1] /\ j - 1 \in 1..Len(ready) /\ j - 1 > n
      BY <1>1, <1>2, <1>5, <2>3
    <3>2. CASE i <= n
      <4>1. new[i] = ready[i] /\ i \in 1..Len(ready) /\ i <= j - 1
        BY <1>2, <1>5, <1>6, <3>2
      <4> QED BY <1>3, <3>1, <4>1
    <3>3. CASE i = n + 1
      BY <1>4, <1>5, <3>1, <3>3
    <3>4. CASE i > n + 1
      <4>1. new[i] = ready[i - 1] /\ i - 1 \in 1..Len(ready) /\ i - 1 <= j - 1
        BY <1>1, <1>2, <1>5, <1>6, <3>4
      <4> QED BY <1>3, <3>1, <4>1
    <3> QED BY <1>1, <1>2, <3>2, <3>3, <3>4
  <2> QED BY <1>1, <1>2, <2>1, <2>2, <2>3
<1>7. \A i \in 1..Len(new) : new[i] = entry \/ \E j \in 1..Len(ready) : new[i] = ready[j]
  BY <1>1, <1>2, <1>5
<1> QED BY <1>6, <1>7 DEF Ordered, new

LEMMA OrderedWithout ==
  ASSUME Line(ready), Ordered(ready), NEW tid
  PROVE  LET new == Without(tid)
         IN /\ Ordered(new)
            /\ \A i \in 1..Len(new) : \E j \in 1..Len(ready) : new[i] = ready[j]
<1>1. CASE ~IsReady(tid)
  BY <1>1 DEF Without
<1>2. CASE IsReady(tid)
  <2> DEFINE new == Without(tid)
             from(i, k) == IF i < k THEN i ELSE i + 1
  <2>1. PICK k \in 1..Len(ready) :
          /\ Len(new) = Len(ready) - 1
          /\ \A i \in 1..(Len(ready) - 1) : new[i] = IF i < k THEN ready[i] ELSE ready[i + 1]
    BY <1>2, WithoutFacts
  <2>2. Len(ready) \in Nat
    BY LineFacts
  <2> HIDE DEF new
  <2>3. \A i \in 1..Len(new) : from(i, k) \in 1..Len(ready) /\ new[i] = ready[from(i, k)]
    BY <2>1, <2>2
  <2>4. \A i, j \in 1..Len(new) : i < j => from(i, k) < from(j, k)
    BY <2>1, <2>2
  <2> HIDE DEF from
  <2> QED BY <2>3, <2>4 DEF Ordered, new
<1> QED BY <1>1, <1>2

LEMMA OrderedTail ==
  ASSUME Line(ready), Ordered(ready), ready # <<>>
  PROVE  LET new == Tail(ready)
         IN /\ Ordered(new)
            /\ \A i \in 1..Len(new) : \E j \in 1..Len(ready) : new[i] = ready[j]
<1> DEFINE new == Tail(ready)
<1>1. ready \in Seq(Entry) /\ Len(ready) \in Nat
  BY LineFacts
<1>2. /\ Len(new) = Len(ready) - 1
      /\ \A i \in 1..(Len(ready) - 1) : new[i] = ready[i + 1]
  BY <1>1, HeadTailProperties
<1> HIDE DEF new
<1>3. \A i \in 1..Len(new) : i + 1 \in 1..Len(ready) /\ new[i] = ready[i + 1]
  BY <1>1, <1>2
<1>4. \A i, j \in 1..Len(new) : i < j => i + 1 < j + 1
  BY <1>1, <1>2
<1>5. Ordered(new)
  BY <1>3, <1>4 DEF Ordered
<1> QED BY <1>3, <1>5 DEF new

\* The head of the queue is a best thread of it.
LEMMA HeadLeast ==
  ASSUME Line(ready), InOrder, ready # <<>>
  PROVE  \A t \in Queued : order[Head(ready).tid] <= order[t]
<1>1. /\ ready \in Seq(Entry) /\ Len(ready) \in Nat /\ Len(ready) > 0
      /\ \A i \in 1..Len(ready) : ready[i] \in Entry
  BY LineFacts, EmptySeq
<1>2. Head(ready) = ready[1] /\ 1 \in 1..Len(ready)
  BY <1>1, HeadTailProperties
<1>3. ASSUME NEW i \in 1..Len(ready)
      PROVE  order[ready[1].tid] <= order[ready[i].tid]
  <2>1. ready[1].key \in Nat /\ ready[i].key \in Nat
    BY <1>1, <1>2, EntryFacts
  <2>2. ready[1].key <= ready[i].key
    BY <1>1, <1>2, <2>1 DEF InOrder, Ordered
  <2> QED BY <1>2, <2>2 DEF InOrder, Marked
<1> QED BY <1>2, <1>3 DEF Queued, Ids

\* Whatever the commands, the queue stays in order.
LEMMA OrderNext ==
  ASSUME Fits, Sound, InOrder, NEW r, Legal(r), r.cmd = "INSERT" => r.priority \in Keys,
         Performs(r)
  PROVE  InOrder'
<1>1. /\ Line(ready) /\ Queued \subseteq created /\ created \subseteq Threads
      /\ order \in [Threads -> Nat] /\ Ordered(ready) /\ Len(ready) \in Nat
      /\ \A i \in 1..Len(ready) : /\ ready[i] \in Entry /\ ready[i].key = order[ready[i].tid]
                                  /\ ready[i].tid \in Queued
  BY SoundFacts, LineFacts DEF InOrder, Marked, Queued, Ids
<1>2. CASE r.cmd = "CREATE"
  <2>1. CASE created = Threads
    BY <1>2, <2>1 DEF Performs, Serves, SetsOrder, TimerControls, rqVars, InOrder, Marked
  <2>2. CASE created # Threads
    <3>1. PICK t \in Threads \ created : ready' = ready /\ order' = [order EXCEPT ![t] = r.priority]
      BY <1>2, <2>2 DEF Performs, Serves, SetsOrder, TimerControls, RQCreate, SetOrder
    <3>2. \A i \in 1..Len(ready) : ready[i].tid # t /\ ready[i].tid \in Threads
      BY <1>1
    <3> QED BY <1>1, <3>1, <3>2 DEF InOrder, Marked
  <2> QED BY <2>1, <2>2
<1>3. CASE r.cmd = "DESTROY"
  <2> DEFINE new == Without(r.param)
  <2>1. ready' = new /\ order' = [order EXCEPT ![r.param] = 0]
    BY <1>3 DEF Performs, Serves, SetsOrder, TimerControls, RQDestroy, SetOrder
  <2>2. Ordered(new) /\ \A i \in 1..Len(new) : \E j \in 1..Len(ready) : new[i] = ready[j]
    BY <1>1, OrderedWithout
  <2>3. Line(new) /\ Ids(new) = Queued \ {r.param}
    BY <1>1, LineWithout DEF Queued
  <2> HIDE DEF new
  <2>4. \A i \in 1..Len(new) : new[i].tid # r.param
    BY <2>3 DEF Ids
  <2> QED BY <1>1, <2>1, <2>2, <2>4 DEF InOrder, Marked
<1>4. CASE r.cmd = "INSERT"
  <2> DEFINE e == [tid |-> r.param, key |-> r.priority]
             new == Placed(e)
  <2>1. r.param \in Threads /\ ~IsReady(r.param) /\ r.priority \in Keys
    BY <1>4 DEF Legal
  <2>2. e \in Entry /\ e.tid = r.param /\ e.key = r.priority
    BY <2>1 DEF Entry
  <2>3. ready' = new /\ order' = [order EXCEPT ![r.param] = r.priority]
    BY <1>4 DEF Performs, Serves, SetsOrder, TimerControls, RQEnqueue, SetOrder
  <2> HIDE DEF e
  <2>4. /\ Ordered(new)
        /\ \A i \in 1..Len(new) : new[i] = e \/ \E j \in 1..Len(ready) : new[i] = ready[j]
    BY <1>1, <2>2, OrderedWith
  <2> HIDE DEF new
  <2>5. \A j \in 1..Len(ready) : ready[j].tid # r.param
    BY <2>1 DEF IsReady
  <2>6. \A i \in 1..Len(new) : new[i].key = order'[new[i].tid]
    BY <1>1, <2>1, <2>2, <2>3, <2>4, <2>5
  <2> QED BY <2>3, <2>4, <2>6 DEF InOrder, Marked
<1>5. CASE r.cmd = "REMOVE"
  <2> DEFINE new == Without(r.param)
  <2>1. ready' = new /\ order' = order
    BY <1>5 DEF Performs, Serves, SetsOrder, TimerControls, RQDequeue
  <2>2. Ordered(new) /\ \A i \in 1..Len(new) : \E j \in 1..Len(ready) : new[i] = ready[j]
    BY <1>1, OrderedWithout
  <2> HIDE DEF new
  <2> QED BY <1>1, <2>1, <2>2 DEF InOrder, Marked
<1>6. CASE r.cmd = "REMOVE_HEAD"
  <2>1. (IF ready = <<>> THEN ready' = ready ELSE ready' = Tail(ready)) /\ order' = order
    BY <1>6 DEF Performs, Serves, SetsOrder, TimerControls, RQDequeueHead
  <2>2. CASE ready = <<>>
    BY <2>1, <2>2 DEF InOrder, Marked
  <2>3. CASE ready # <<>>
    <3> DEFINE new == Tail(ready)
    <3>1. Ordered(new) /\ \A i \in 1..Len(new) : \E j \in 1..Len(ready) : new[i] = ready[j]
      BY <1>1, <2>3, OrderedTail
    <3>2. ready' = new
      BY <2>1, <2>3
    <3> HIDE DEF new
    <3> QED BY <1>1, <2>1, <3>1, <3>2 DEF InOrder, Marked
  <2> QED BY <2>2, <2>3
<1>7. CASE r.cmd = "RESET"
  <2>1. ready' = <<>>
    BY <1>7 DEF Performs, Serves, SetsOrder, TimerControls, RQReset
  <2> QED BY <2>1 DEF InOrder, Ordered, Marked
<1>8. CASE r.cmd \notin {"CREATE", "DESTROY", "INSERT", "REMOVE", "REMOVE_HEAD", "RESET"}
  <2>1. ready' = ready /\ order' = order
    BY <1>8 DEF Performs, Serves, SetsOrder, TimerControls, RQSetRunning, RQGetId, RQChosen,
       RQSize, rqVars
  <2> QED BY <2>1 DEF InOrder, Marked
<1> QED BY <1>2, <1>3, <1>4, <1>5, <1>6, <1>7, <1>8

\* What the handler may rely on for its choice: a thread was due when it began, the head
\* it has taken was a best one and as good as the running thread, and is a best one still.
KnowsBest(f) ==
  LET s == Now(f)
  IN /\ s \in {"ack", "removeHead"} => PreemptionDue
     /\ s \in {"chosen", "findRunning", "insertRunning", "findHead"} =>
          \E t \in created \ Queued :
            /\ object[t] = f.head /\ Least(order[t])
            /\ s # "findHead" => order[t] <= order[running]
     /\ s = "run" => Least(order[f.tid])

\* What holds when the handler returns.
BestRunsNow == running # 0 /\ Least(order[running])

LearnsBest(f, value) ==
  LET kept == Keep(f, value)
  IN IF Leaves(kept, value) THEN BestRunsNow ELSE KnowsBest(Advanced(kept))

LearnedBest(f) == LearnsBest(f, IF failed THEN -1 ELSE reply)

InformedBest == IF Executed("isr") THEN LearnedBest(frame["isr"]) ELSE KnowsBest(frame["isr"])

\* The quantum has been set, and the handler is not at work.
Timed == started /\ cpu # "handler" /\ ~(At("main", "quantum") /\ ~Executed("main"))

\* The handler has acknowledged the interrupt.
Acknowledged ==
  /\ cpu = "handler" /\ posted.cmd # "INT_ACK"
  /\ ~At("isr", "ack") \/ frame["isr"].access \in {"status", "return"}

Best ==
  /\ InOrder
  /\ Timed /\ request => PreemptionDue
  /\ Acknowledged => ~request
  /\ cpu = "handler" => InformedBest

LEMMA BestInit ==
  ASSUME Fits
  PROVE  DriverInit => Best
  BY EmptySeq DEF DriverInit, RQInit, Best, InOrder, Ordered, Marked, Timed, Acknowledged

\* What depends on the block alone stays as it is when the block does.
LEMMA UnmovedBest ==
  ASSUME Unmoved
  PROVE  /\ InOrder' <=> InOrder
         /\ PreemptionDue' <=> PreemptionDue
         /\ BestRunsNow' <=> BestRunsNow
         /\ request' = request
         /\ \A f : KnowsBest(f)' <=> KnowsBest(f)
         /\ \A f, value : LearnsBest(f, value)' <=> LearnsBest(f, value)
<1>1. /\ object' = object /\ created' = created /\ ready' = ready /\ running' = running
      /\ order' = order /\ request' = request
  BY DEF Unmoved, Steady
<1>2. (InOrder' <=> InOrder) /\ (PreemptionDue' <=> PreemptionDue)
  BY <1>1 DEF InOrder, Ordered, Marked, PreemptionDue
<1>3. Queued' = Queued /\ \A n : Least(n)' <=> Least(n)
  BY <1>1 DEF Queued, Ids, Least
<1>4. BestRunsNow' <=> BestRunsNow
  BY <1>1, <1>3 DEF BestRunsNow, Least
<1>5. ASSUME NEW f PROVE KnowsBest(f)' <=> KnowsBest(f)
  BY <1>1, <1>2, <1>3 DEF KnowsBest, Least
<1>6. ASSUME NEW f, NEW value PROVE LearnsBest(f, value)' <=> LearnsBest(f, value)
  <2> DEFINE g == Advanced(Keep(f, value))
  <2>1. KnowsBest(g)' <=> KnowsBest(g)
    <3> HIDE DEF g
    <3> QED BY <1>5
  <2> QED BY <1>4, <2>1 DEF LearnsBest, g
<1> QED BY <1>1, <1>2, <1>4, <1>5, <1>6

LEMMA LearnsBestNext ==
  ASSUME NEW f, Framed(f), f.method # "none", NEW value,
         Leaves(Keep(f, value), value) => BestRunsNow',
         \A g : ~Leaves(Keep(f, value), value) /\ Follows(g, f, value) => KnowsBest(g)'
  PROVE  LearnsBest(f, value)'
<1> DEFINE g == Advanced(Keep(f, value))
<1>1. ~Leaves(Keep(f, value), value) => Follows(g, f, value)
  BY FollowsFacts
<1>2. ~Leaves(Keep(f, value), value) => KnowsBest(g)'
  <2> HIDE DEF g
  <2> QED BY <1>1
<1> QED BY <1>2 DEF LearnsBest, g

\* The handler asks who runs, and which thread that is; nothing moves meanwhile.
LEMMA BestAsked ==
  ASSUME Fits, Sound, NEW f, Framed(f), f.method = "handler", KnowsBest(f),
         Now(f) \in {"chosen", "findRunning"}, Steady, NEW value
  PROVE  LearnsBest(f, value)'
<1>1. /\ More(f) /\ Then(f) \in {"findRunning", "insertRunning"}
  BY HandlerCalls DEF Going, Ending
<1>2. PICK t \in created \ Queued : object[t] = f.head /\ Least(order[t])
                                    /\ order[t] <= order[running]
  BY DEF KnowsBest
<1>3. ~Leaves(Keep(f, value), value)
  BY <1>1, LeavesFacts
<1>4. ASSUME NEW g, Follows(g, f, value)
      PROVE  KnowsBest(g)'
  <2>1. Now(g) \in {"findRunning", "insertRunning"} /\ g.head = f.head
    BY <1>1, <1>4 DEF Follows
  <2>2. t \in created' \ Queued' /\ object'[t] = g.head /\ order'[t] <= order'[running']
    BY <1>2, <2>1, SteadyFacts DEF Steady
  <2>3. Least(order[t])'
    BY <1>2, SteadyFacts DEF Steady, Least
  <2> QED BY <2>1, <2>2, <2>3 DEF KnowsBest
<1> QED BY <1>3, <1>4, LearnsBestNext

\* It takes the head off the queue: no thread is better, and it is as good as the one that
\* runs.
LEMMA BestTaken ==
  ASSUME Fits, Sound, InOrder, NEW f, Framed(f), f.method = "handler", KnowsBest(f),
         Now(f) = "removeHead", RQDequeueHead, UNCHANGED order, NEW value, value = reply'
  PROVE  LearnsBest(f, value)'
<1>0. PICK h : h = Head(ready).tid
  OBVIOUS
<1>1. More(f) /\ Then(f) = "chosen"
  BY HandlerCalls DEF Going, Ending
<1>2. running # 0 /\ ready # <<>> /\ order[running] >= order[h]
  BY <1>0 DEF KnowsBest, PreemptionDue
<1>3. /\ Line(ready) /\ Queued \subseteq created /\ created \subseteq Threads
      /\ order \in [Threads -> Nat] /\ running \in Threads
  BY <1>2, SoundFacts
<1>4. h \in Queued /\ Ids(Tail(ready)) = Queued \ {h}
  BY <1>0, <1>2, <1>3, LineTail DEF Queued
<1>5. \A t \in Queued : order[h] <= order[t]
  BY <1>0, <1>2, <1>3, HeadLeast
<1>6. /\ UNCHANGED <<object, created, running>> /\ ready' = Tail(ready) /\ value = object[h]
  BY <1>0, <1>2 DEF RQDequeueHead
<1>7. Queued' = Queued \ {h}
  BY <1>4, <1>6 DEF Queued
<1>8. ~Leaves(Keep(f, value), value)
  BY <1>1, LeavesFacts
<1>9. ASSUME NEW g, Follows(g, f, value)
      PROVE  KnowsBest(g)'
  <2>1. Now(g) = "chosen" /\ g.head = value
    BY <1>1, <1>9 DEF Follows
  <2>2. h \in created' \ Queued' /\ object'[h] = g.head
    BY <1>3, <1>4, <1>6, <1>7, <2>1
  <2>3. Least(order[h])'
    BY <1>5, <1>7 DEF Least
  <2>4. order'[h] <= order'[running']
    <3>1. order[h] \in Nat /\ order[running] \in Nat
      BY <1>3, <1>4
    <3> QED BY <1>2, <1>6, <3>1
  <2> QED BY <2>1, <2>2, <2>3, <2>4 DEF KnowsBest
<1> QED BY <1>8, <1>9, LearnsBestNext

\* It puts the running thread back into the queue: that one is no better than the head.
LEMMA BestReturned ==
  ASSUME Fits, Sound, NEW f, Framed(f), f.method = "handler", Knows(f), KnowsBest(f),
         Now(f) = "insertRunning", NEW key, key = Prio[f.running],
         RQEnqueue(f.running_tid, key), SetOrder(f.running_tid, key), NEW value
  PROVE  LearnsBest(f, value)'
<1>1. More(f) /\ Then(f) = "findHead"
  BY HandlerCalls DEF Going, Ending
<1>2. /\ Settled /\ running \in created /\ f.running = RunsNow /\ f.running_tid = running
      /\ \E u \in Threads : Held(u) /\ object[u] = f.head
  BY DEF Knows, Switching
<1>3. running \notin Queued /\ f.running = object[running]
  BY <1>2, RunsNowFacts DEF Settled
<1>4. Queued' = Queued \cup {running} /\ UNCHANGED <<object, created, running, order>>
  BY <1>2, <1>3, JoinFacts
<1>5. PICK t \in created \ Queued : object[t] = f.head /\ Least(order[t])
                                    /\ order[t] <= order[running]
  BY DEF KnowsBest
<1>6. t # running
  <2>1. PICK u \in Threads : Held(u) /\ object[u] = f.head
    BY <1>2
  <2>2. t = u
    BY <1>5, <2>1, SoundFacts DEF Held
  <2> QED BY <2>1, <2>2 DEF Held
<1>7. ~Leaves(Keep(f, value), value)
  BY <1>1, LeavesFacts
<1>8. ASSUME NEW g, Follows(g, f, value)
      PROVE  KnowsBest(g)'
  <2>1. Now(g) = "findHead" /\ g.head = f.head
    BY <1>1, <1>8 DEF Follows
  <2>2. t \in created' \ Queued' /\ object'[t] = g.head
    BY <1>4, <1>5, <1>6, <2>1
  <2>3. Least(order[t])'
    BY <1>4, <1>5 DEF Least
  <2> QED BY <2>1, <2>2, <2>3 DEF KnowsBest
<1> QED BY <1>7, <1>8, LearnsBestNext

\* It looks the head up, and finds the thread it has taken off the queue.
LEMMA BestFound ==
  ASSUME Fits, Sound, NEW f, Framed(f), f.method = "handler", KnowsBest(f),
         Now(f) = "findHead", RQGetId(f.head), Steady, NEW value,
         value = IF ~Found(f.head) THEN -1 ELSE reply'
  PROVE  LearnsBest(f, value)'
<1>1. More(f) /\ Then(f) = "run"
  BY HandlerCalls DEF Going, Ending
<1>2. PICK t \in created \ Queued : object[t] = f.head /\ Least(order[t])
  BY DEF KnowsBest
<1>3. value = t
  BY <1>2, SearchOwner
<1>4. ~Leaves(Keep(f, value), value)
  BY <1>1, LeavesFacts
<1>5. ASSUME NEW g, Follows(g, f, value)
      PROVE  KnowsBest(g)'
  <2>1. Now(g) = "run" /\ g.tid = t
    BY <1>1, <1>3, <1>5 DEF Follows
  <2>2. Least(order[t])'
    BY <1>2, SteadyFacts DEF Steady, Least
  <2> QED BY <2>1, <2>2 DEF KnowsBest
<1> QED BY <1>4, <1>5, LearnsBestNext

\* It makes that thread run, and returns.
LEMMA BestRun ==
  ASSUME Fits, Sound, NEW f, Framed(f), f.method = "handler", Knows(f), KnowsBest(f),
         Now(f) = "run", RQSetRunning(f.tid), UNCHANGED order, NEW value
  PROVE  LearnsBest(f, value)'
<1>1. ~More(f)
  BY HandlerCalls DEF Going, Ending
<1>2. f.tid \in created /\ Least(order[f.tid])
  BY DEF Knows, KnowsBest, Stopping
<1>3. running' = f.tid /\ ready' = ready /\ f.tid # 0
  BY <1>2, SoundFacts DEF RQSetRunning
<1>4. BestRunsNow'
  <2>1. Queued' = Queued
    BY <1>3 DEF Queued
  <2> QED BY <1>2, <1>3, <2>1 DEF BestRunsNow, Least
<1>5. \A g : ~Follows(g, f, value)
  BY <1>1 DEF Follows
<1> QED BY <1>4, <1>5, LearnsBestNext

\* The handler, call by call.
LEMMA CallLearnsBest ==
  ASSUME Fits, Sound, InOrder, NEW f, Framed(f), f.method = "handler", Knows(f), KnowsBest(f),
         Now(f) # "ack",
         NEW r, LET q == Request(f)
                IN /\ r.cmd = q.cmd /\ r.param = q.param
                   /\ q.cmd \in {"CREATE", "INSERT"} => r.priority = q.priority,
         Performs(r),
         failed' = Refuses(r)
  PROVE  LearnedBest(f)'
<1> DEFINE s == Now(f)
<1>0. PICK value : value = IF failed' THEN -1 ELSE reply'
  OBVIOUS
<1>1. SUFFICES LearnsBest(f, value)'
  BY <1>0 DEF LearnedBest
<1>2. s \in {"removeHead", "chosen", "findRunning", "insertRunning", "findHead", "run"}
  BY HandlerCalls DEF Going, Ending
<1>3. CASE s = "removeHead"
  <2>1. RQDequeueHead /\ UNCHANGED order /\ failed' = FALSE
    BY <1>3, RequestTable DEF Performs, Serves, SetsOrder, TimerControls, Refuses
  <2> QED BY <1>0, <1>3, <2>1, BestTaken
<1>4. CASE s = "chosen"
  <2>1. Steady
    BY <1>4, RequestTable DEF Performs, Serves, SetsOrder, TimerControls, RQChosen, Steady
  <2> QED BY <1>4, <2>1, BestAsked
<1>5. CASE s \in {"findRunning", "findHead"}
  <2>1. RQGetId(r.param) /\ UNCHANGED order /\ (failed' <=> ~Found(r.param))
    BY <1>5, RequestTable DEF Performs, Serves, SetsOrder, TimerControls, Refuses
  <2>2. Steady /\ value = IF ~Found(r.param) THEN -1 ELSE reply'
    BY <1>0, <2>1 DEF RQGetId, Steady
  <2>3. s = "findHead" => r.param = f.head
    BY RequestTable
  <2> QED BY <1>5, <2>1, <2>2, <2>3, BestAsked, BestFound
<1>6. CASE s = "insertRunning"
  <2>1. RQEnqueue(f.running_tid, Prio[f.running]) /\ SetOrder(f.running_tid, Prio[f.running])
    BY <1>6, RequestTable DEF Performs, Serves, SetsOrder, TimerControls
  <2> QED BY <1>6, <2>1, BestReturned
<1>7. CASE s = "run"
  <2>1. RQSetRunning(f.tid) /\ UNCHANGED order
    BY <1>7, RequestTable DEF Performs, Serves, SetsOrder, TimerControls
  <2> QED BY <1>7, <2>1, BestRun
<1> QED BY <1>2, <1>3, <1>4, <1>5, <1>6, <1>7

LEMMA KnowsBestSame ==
  ASSUME NEW f, NEW g, g.todo = f.todo, g.tid = f.tid, g.head = f.head
  PROVE  KnowsBest(g) <=> KnowsBest(f)
  BY DEF KnowsBest, Now

LEMMA LearnsBestSame ==
  ASSUME NEW f, NEW g, Framed(f), Framed(g), f.method = "handler", g.method = "handler",
         g.todo = f.todo, g.tid = f.tid, g.head = f.head, NEW value
  PROVE  LearnsBest(g, value) <=> LearnsBest(f, value)
<1>1. Now(g) = Now(f) /\ (More(g) <=> More(f))
  BY DEF Now, More
<1>2. Now(f) \notin {"create", "findObj"}
  BY HandlerCalls DEF Going, Ending
<1>3. Leaves(Keep(g, value), value) <=> Leaves(Keep(f, value), value)
  <2>1. /\ Leaves(Keep(f, value), value) <=> ~More(f)
        /\ Leaves(Keep(g, value), value) <=> ~More(g)
    BY <1>1, <1>2, LeavesFacts
  <2> QED BY <1>1, <2>1
<1> DEFINE kf == Keep(f, value)
           kg == Keep(g, value)
<1>4. FrameOf(kf) /\ FrameOf(kg) /\ kg.todo = kf.todo /\ kg.tid = kf.tid /\ kg.head = kf.head
  BY KeepFacts DEF Framed
<1> HIDE DEF kf, kg
<1> DEFINE af == Advanced(kf)
           ag == Advanced(kg)
<1>5. ag.todo = af.todo /\ ag.tid = af.tid /\ ag.head = af.head
  BY <1>4, AdvancedFacts
<1> HIDE DEF af, ag
<1>6. KnowsBest(ag) <=> KnowsBest(af)
  BY <1>5, KnowsBestSame
<1> QED BY <1>3, <1>6 DEF LearnsBest, af, ag, kf, kg

LEMMA BestWrites ==
  ASSUME Control, Best, NEW k \in Callers,
         WriteCommand(k) \/ WritePriority(k) \/ WriteParameter(k)
  PROVE  Best'
<1>0. PICK f : f = frame[k]
  OBVIOUS
<1>1. PICK g : g = frame'[k]
  OBVIOUS
<1>2. /\ Framed(f) /\ Active(k) /\ Turn(k) /\ f.access \in {"cmd", "priority", "param"}
      /\ Unmoved /\ started' = started /\ cpu' = cpu
      /\ \A j \in Callers \ {k} : frame'[j] = frame[j]
      /\ \/ /\ g.method = f.method /\ g.todo = f.todo /\ g.tid = f.tid /\ g.head = f.head
            /\ \/ g.access \in {"priority", "param"}
               \/ g.access = "status" /\ posted' # NoRequest /\ Now(f) # "ack"
         \/ /\ k = "isr" /\ Now(f) = "ack" /\ g.method = "handler" /\ Now(g) = "removeHead"
            /\ g.access = "cmd" /\ posted'.cmd = "INT_ACK"
  BY <1>0, <1>1, WritesFrames
<1>3. posted = NoRequest
  BY DEF WriteCommand, WritePriority, WriteParameter, Accesses
<1>4. InOrder' /\ (PreemptionDue' <=> PreemptionDue) /\ request' = request
  BY <1>2, UnmovedBest DEF Best
<1>5. ~Executed(k) /\ ~Executed(k)'
  BY <1>0, <1>1, <1>2 DEF Executed
<1>6. CASE k = "main"
  <2>1. cpu' = "program" /\ cpu = "program"
    BY <1>2, <1>6 DEF Turn
  <2>2. At("main", "quantum") => At("main", "quantum")'
    BY <1>0, <1>1, <1>2, <1>6 DEF At, Active
  <2>3. Timed' => Timed
    BY <1>2, <1>5, <1>6, <2>1, <2>2 DEF Timed
  <2> QED BY <1>4, <2>1, <2>3 DEF Best, Acknowledged
<1>7. CASE k = "isr"
  <2>1. cpu' = "handler" /\ cpu = "handler"
    BY <1>2, <1>7 DEF Turn
  <2>2. KnowsBest(f)
    BY <1>0, <1>5, <1>7, <2>1 DEF Best, InformedBest
  <2>3. KnowsBest(g)
    BY <1>2, <2>2, KnowsBestSame DEF KnowsBest
  <2>4. KnowsBest(g)'
    BY <1>2, <2>3, UnmovedBest
  <2>5. InformedBest'
    BY <1>1, <1>5, <1>7, <2>4 DEF InformedBest
  <2>6. ASSUME Acknowledged'
        PROVE  ~request
    <3>1. Now(g) # "ack" \/ g.access = "status"
      BY <1>0, <1>1, <1>2, <1>7, <2>6 DEF Acknowledged, At, Active, Now
    <3>2. posted'.cmd # "INT_ACK"
      BY <2>6 DEF Acknowledged
    <3>3. Now(f) # "ack"
      BY <1>2, <3>1, <3>2 DEF Now
    <3>4. ~At("isr", "ack") /\ posted.cmd # "INT_ACK"
      BY <1>0, <1>3, <1>7, <3>3 DEF At, Now, NoRequest
    <3> QED BY <2>1, <3>4 DEF Best, Acknowledged
  <2> QED BY <1>4, <2>1, <2>5, <2>6 DEF Best, Timed
<1> QED BY <1>6, <1>7 DEF Callers

LEMMA BestContinues ==
  ASSUME Control, Best, NEW k \in Callers, NEW value, Continue(k, value),
         Active(k), Turn(k), Executed(k), Unmoved, UNCHANGED <<started, posted>>,
         k = "isr" => LearnsBest(frame[k], value)
  PROVE  Best' /\ (cpu' = "handled" => BestRunsNow)
<1>0. PICK f : f = frame[k]
  OBVIOUS
<1>1. /\ Frames /\ Framed(f) /\ f.method # "none" /\ posted = NoRequest
      /\ f.access \in {"status", "return"}
      /\ cpu = IF k = "isr" THEN "handler" ELSE "program"
  BY <1>0 DEF Control, Frames, Active, Executed, Turn
<1>2. InOrder' /\ (PreemptionDue' <=> PreemptionDue) /\ request' = request
  BY UnmovedBest DEF Best
<1>3. CASE k = "main"
  <2>1. cpu' = "program"
    BY <1>1, <1>3, ReturnsFrame, NextCallFrame DEF Continue
  <2>2. started => Timed
    BY <1>1, <1>3 DEF Timed
  <2> QED BY <1>2, <2>1, <2>2 DEF Best, Timed, Acknowledged
<1>4. CASE k = "isr"
  <2>1. ~request
    BY <1>0, <1>1, <1>4 DEF Best, Acknowledged, NoRequest
  <2>2. CASE Leaves(Keep(f, value), value)
    <3>1. cpu' = "handled"
      BY <1>0, <1>1, <1>4, <2>2, ReturnsFrame DEF Continue
    <3>2. BestRunsNow
      BY <1>0, <1>4, <2>2 DEF LearnsBest
    <3> QED BY <1>2, <2>1, <3>1, <3>2 DEF Best
  <2>3. CASE ~Leaves(Keep(f, value), value)
    <3>1. PICK g : g = Advanced(Keep(f, value))
      OBVIOUS
    <3>2. frame'[k] = g /\ cpu' = cpu
      BY <1>0, <1>1, <2>3, <3>1, NextCallFrame DEF Continue
    <3>3. KnowsBest(g)
      BY <1>0, <1>4, <2>3, <3>1 DEF LearnsBest
    <3>4. KnowsBest(g)'
      BY <3>3, UnmovedBest
    <3>5. g.access = "cmd"
      BY <1>1, <2>3, <3>1, FollowsFacts DEF Follows
    <3>6. InformedBest'
      BY <1>4, <3>2, <3>4, <3>5 DEF InformedBest, Executed
    <3> QED BY <1>1, <1>2, <1>4, <2>1, <3>2, <3>6 DEF Best, Timed
  <2> QED BY <2>2, <2>3
<1> QED BY <1>3, <1>4 DEF Callers

LEMMA BestReads ==
  ASSUME Control, Data, Best, NEW k \in Callers, ReadStatus(k) \/ ReadReturn(k)
  PROVE  Best' /\ (cpu' = "handled" => BestRunsNow)
<1>0. PICK f : f = frame[k]
  OBVIOUS
<1>1. /\ Active(k) /\ Turn(k) /\ Executed(k) /\ Unmoved /\ UNCHANGED <<started, posted>>
  BY UnmovedBlock DEF ReadStatus, ReadReturn, Accesses, Executed, adapter
<1>2. /\ Frames /\ Framed(f) /\ f.method # "none" /\ (k = "isr" => f.method = "handler")
      /\ cpu = IF k = "isr" THEN "handler" ELSE "program"
  BY <1>0, <1>1 DEF Control, Frames, Active, Turn
<1>3. k = "isr" => LearnedBest(f)
  BY <1>0, <1>1, <1>2 DEF Best, InformedBest
<1>4. CASE ReadStatus(k) /\ failed
  <2>1. Continue(k, -1) /\ (k = "isr" => LearnsBest(f, -1))
    BY <1>3, <1>4 DEF ReadStatus, LearnedBest
  <2> QED BY <1>0, <1>1, <2>1, BestContinues
<1>5. CASE ReadReturn(k)
  <2>1. Continue(k, reply) /\ frame[k].access = "return"
    BY <1>5 DEF ReadReturn, Accesses
  <2>2. k = "isr" => ~failed
    <3> SUFFICES ASSUME k = "isr" PROVE ~failed
      OBVIOUS
    <3>1. Now(f) # "enable"
      BY <1>2, HandlerCalls DEF Going, Ending
    <3>2. ~At(k, "enable")
      BY <1>0, <3>1 DEF At, Now
    <3> QED BY <1>1, <2>1, <3>2 DEF Data
  <2>3. k = "isr" => LearnsBest(f, reply)
    BY <1>3, <2>2 DEF LearnedBest
  <2> QED BY <1>0, <1>1, <2>1, <2>3, BestContinues
<1>6. CASE ReadStatus(k) /\ ~failed
  <2>1. PICK g : g = frame'[k]
    OBVIOUS
  <2>2. /\ g = [f EXCEPT !.access = "return"]
        /\ \A j \in Callers \ {k} : frame'[j] = frame[j]
        /\ cpu' = cpu
    BY <1>0, <1>2, <1>6, <2>1, GoToFrame DEF ReadStatus
  <2>3. /\ FrameOf(g) /\ g.access = "return"
        /\ g.method = f.method /\ g.todo = f.todo /\ g.tid = f.tid /\ g.head = f.head
    BY <1>2, <2>2, AccessFacts DEF Framed
  <2>4. Framed(g)
    BY <1>2, <2>3 DEF Framed
  <2>5. InOrder' /\ (PreemptionDue' <=> PreemptionDue) /\ request' = request
    BY <1>1, UnmovedBest DEF Best
  <2>6. CASE k = "main"
    <3>1. started => Timed
      BY <1>1, <1>2, <2>6 DEF Timed
    <3> QED BY <1>1, <1>2, <2>2, <2>5, <2>6, <3>1 DEF Best, Timed, Acknowledged
  <2>7. CASE k = "isr"
    <3>1. ~request
      BY <1>1, <1>2, <2>7 DEF Best, Acknowledged, Executed, NoRequest
    <3>2. PICK v : v = reply
      OBVIOUS
    <3>3. LearnsBest(f, v)
      BY <1>3, <1>6, <2>7, <3>2 DEF LearnedBest
    <3>4. LearnsBest(g, v)
      BY <1>2, <2>3, <2>4, <2>7, <3>3, LearnsBestSame
    <3>5. LearnsBest(g, v)'
      BY <1>1, <3>4, UnmovedBest
    <3>6. ~failed' /\ v = reply' /\ Executed(k)'
      BY <1>1, <1>6, <2>1, <2>3, <3>2 DEF Unmoved, Executed
    <3>7. InformedBest'
      BY <2>1, <2>7, <3>5, <3>6 DEF InformedBest, LearnedBest
    <3> QED BY <1>2, <2>2, <2>5, <2>7, <3>1, <3>7 DEF Best, Timed
  <2> QED BY <2>6, <2>7 DEF Callers
<1> QED BY <1>4, <1>5, <1>6

LEMMA BestExecute ==
  ASSUME Fits, Control, Data, Best, Execute
  PROVE  Best'
<1>1. /\ posted # NoRequest /\ posted' = NoRequest /\ Performs(posted)
      /\ failed' = Refuses(posted)
      /\ request' = (request /\ posted.cmd \notin {"SET_QUANTUM", "RSTICKS", "INT_ACK"})
      /\ UNCHANGED <<cpu, frame, started>>
  BY DEF Execute
<1>2. Frames /\ InFlight /\ Sound /\ InOrder
  BY <1>1 DEF Control, Data, Best
<1>3. InOrder'
  <2>1. PICK r : r = posted
    OBVIOUS
  <2>2. Legal(r) /\ (r.cmd = "INSERT" => r.priority \in Keys) /\ Performs(r)
    BY <1>1, <2>1, PostedRequest
  <2> QED BY <1>2, <2>2, OrderNext
<1>4. CASE /\ cpu = "program" /\ ~enabled
           /\ Active("main") /\ frame["main"].access = "status" /\ Sends("main")
  <2>1. ASSUME started, request'
        PROVE  PreemptionDue'
    <3>1. PICK f : f = frame["main"]
      OBVIOUS
    <3>2. Framed(f) /\ f.method = "start"
      BY <1>2, <1>4, <2>1, <3>1 DEF Frames, Callers, Control
    <3>3. Now(f) \in {"quantum", "enable"}
      BY <3>2, StartCalls DEF Going, Ending
    <3>4. posted.cmd = Request(f).cmd
      BY <1>4, <3>1 DEF Sends
    <3>5. posted.cmd # "SET_QUANTUM"
      BY <1>1, <2>1
    <3>6. Now(f) = "enable" /\ posted.cmd = "ENABLE"
      BY <3>3, <3>4, <3>5, RequestTable
    <3>7. Timed /\ request
      BY <1>1, <1>4, <2>1, <3>1, <3>6 DEF Timed, At, Now
    <3>8. UNCHANGED <<running, ready, order>>
      BY <1>1, <3>6 DEF Performs, Serves, SetsOrder, TimerControls, rqVars
    <3> QED BY <3>7, <3>8 DEF Best, PreemptionDue
  <2> QED BY <1>1, <1>3, <1>4, <2>1 DEF Best, Timed, Acknowledged
<1>5. ASSUME cpu = "handler" PROVE Acknowledged' => ~request'
  <2> SUFFICES ASSUME Acknowledged' PROVE ~request'
    OBVIOUS
  <2>1. CASE posted.cmd = "INT_ACK"
    BY <1>1, <2>1
  <2>2. CASE posted.cmd # "INT_ACK"
    <3>1. Acknowledged
      BY <1>1, <1>5, <2>2 DEF Acknowledged, At, Active
    <3> QED BY <1>1, <3>1 DEF Best
  <2> QED BY <2>1, <2>2
<1>6. CASE cpu = "handler" /\ ~At("isr", "ack") /\ frame["isr"].access = "status" /\ Sends("isr")
  <2>1. PICK f : f = frame["isr"]
    OBVIOUS
  <2>2. PICK r : r = posted
    OBVIOUS
  <2>3. Framed(f) /\ f.method = "handler" /\ Now(f) # "ack"
    BY <1>2, <1>6, <2>1 DEF Frames, Callers, Active, At, Now
  <2>4. Knows(f) /\ KnowsBest(f)
    BY <1>1, <1>6, <2>1 DEF Data, Best, Informed, InformedBest, Executed
  <2>5. LET q == Request(f)
        IN /\ r.cmd = q.cmd /\ r.param = q.param
           /\ q.cmd \in {"CREATE", "INSERT"} => r.priority = q.priority
    BY <1>6, <2>1, <2>2 DEF Sends
  <2>6. /\ Performs(r)
        /\ failed' = Refuses(r)
    BY <1>1, <2>2
  <2>7. LearnedBest(f)'
    BY <1>2, <2>3, <2>4, <2>5, <2>6, CallLearnsBest
  <2>8. f = frame'["isr"] /\ Executed("isr")'
    BY <1>1, <1>6, <2>1 DEF Executed
  <2>9. InformedBest'
    BY <2>7, <2>8 DEF InformedBest
  <2> QED BY <1>1, <1>3, <1>5, <1>6, <2>9 DEF Best, Timed
<1>7. CASE /\ cpu = "handler" /\ At("isr", "removeHead") /\ frame["isr"].access = "cmd"
           /\ posted.cmd = "INT_ACK"
  <2>1. PICK f : f = frame["isr"]
    OBVIOUS
  <2>2. UNCHANGED <<running, ready, order>>
    BY <1>1, <1>7 DEF Performs, Serves, SetsOrder, TimerControls, rqVars
  <2>3. KnowsBest(f) /\ Now(f) = "removeHead"
    BY <1>7, <2>1 DEF Best, InformedBest, Executed, At, Now
  <2>4. KnowsBest(f)'
    BY <2>2, <2>3 DEF KnowsBest, PreemptionDue
  <2>5. InformedBest'
    BY <1>1, <1>7, <2>1, <2>4 DEF InformedBest, Executed
  <2> QED BY <1>1, <1>3, <1>5, <1>7, <2>5 DEF Best, Timed
<1> QED BY <1>2, <1>4, <1>6, <1>7 DEF InFlight

\* The timer does not run out while the handler is at work.
LEMMA BestInterrupts ==
  ASSUME LongQuantum, Fits, Control, Data, Best, Raise \/ TakeException \/ Dispatch
  PROVE  Best' /\ cpu' # "handled"
<1>1. CASE Raise
  <2>1. /\ cpu = "program" /\ cpu' = "program" /\ PreemptionDue
        /\ UNCHANGED <<running, ready, order>>
    BY <1>1 DEF Raise, rqVars
  <2>2. InOrder' /\ PreemptionDue'
    BY <2>1 DEF Best, InOrder, Ordered, Marked, PreemptionDue
  <2> QED BY <2>1, <2>2 DEF Best, Acknowledged
<1>2. CASE TakeException
  <2>1. Unmoved /\ cpu' = "exception" /\ cpu = "program" /\ UNCHANGED <<frame, started, posted>>
    BY <1>2, UnmovedBlock DEF TakeException, adapter
  <2>2. InOrder' /\ (PreemptionDue' <=> PreemptionDue) /\ request' = request
    BY <2>1, UnmovedBest DEF Best
  <2>3. Timed' => Timed
    BY <2>1 DEF Timed, At, Active, Executed
  <2> QED BY <2>1, <2>2, <2>3 DEF Best, Acknowledged
<1>3. CASE Dispatch
  <2>1. Unmoved /\ UNCHANGED <<started, posted>> /\ cpu \in {"exception", "handled"}
    BY <1>3, UnmovedBlock DEF Dispatch, adapter
  <2>2. /\ enabled /\ posted = NoRequest
        /\ Active("main") => At("main", "enable")
        /\ started /\ Frames
    BY <2>1, Suspended DEF Control
  <2>3. Timed
    BY <2>1, <2>2 DEF Timed, At, Active
  <2>4. InOrder' /\ (PreemptionDue' <=> PreemptionDue) /\ request' = request
    BY <2>1, UnmovedBest DEF Best
  <2>5. CASE /\ p_interrupt
             /\ cpu' = "handler"
             /\ frame' = [frame EXCEPT !["isr"] = Enter("handler", 0)]
    <3>1. PICK g : g = Enter("handler", 0)
      OBVIOUS
    <3>2. Framed(g) /\ g.method = "handler" /\ Now(g) = "ack" /\ g.access = "cmd"
      BY <3>1, Names, EnterFacts, FirstCall
    <3>3. frame'["isr"] = g
      BY <2>2, <2>5, <3>1 DEF Frames, Callers
    <3>4. PreemptionDue
      BY <2>3, <2>5 DEF Best, p_interrupt
    <3>5. KnowsBest(g)
      BY <3>2, <3>4 DEF KnowsBest
    <3>6. KnowsBest(g)'
      BY <2>1, <3>5, UnmovedBest
    <3>7. InformedBest'
      BY <3>2, <3>3, <3>6 DEF InformedBest, Executed
    <3>8. ~Acknowledged'
      BY <3>2, <3>3 DEF Acknowledged, At, Active, Now
    <3> QED BY <2>4, <2>5, <3>7, <3>8 DEF Best, Timed
  <2>6. CASE ~p_interrupt /\ cpu' = (IF cpu = "exception" THEN "break" ELSE "program")
             /\ UNCHANGED frame
    <3>1. cpu' # "handler" /\ cpu' # "handled"
      BY <2>6
    <3> QED BY <2>3, <2>4, <3>1 DEF Best, Acknowledged
  <2> QED BY <1>3, <2>5, <2>6 DEF Dispatch
<1> QED BY <1>1, <1>2, <1>3

LEMMA BestCall ==
  ASSUME Rests, Control, Best, NEW method \in Methods, NEW obj, Call(method, obj)
  PROVE  Best' /\ cpu' # "handled"
<1>1. PICK g : g = Enter(method, obj)
  OBVIOUS
<1>2. /\ cpu = "program" /\ cpu' = "program" /\ Unmoved /\ Frames /\ ~started
      /\ frame' = [frame EXCEPT !["main"] = g] /\ started' = (method = "start")
  BY <1>1, UnmovedBlock DEF Call, Rests, Control
<1>3. method \in DOMAIN Body /\ method # "none"
  BY Names DEF Rests
<1>4. g.method = method /\ g.access = "cmd" /\ (method = "start" => Now(g) = "quantum")
  BY <1>1, <1>3, EnterFacts, FirstCall
<1>5. frame'["main"] = g
  BY <1>2 DEF Frames, Callers
<1>6. ~Timed'
  BY <1>2, <1>3, <1>4, <1>5 DEF Timed, At, Active, Now, Executed
<1>7. InOrder'
  BY <1>2, UnmovedBest DEF Best
<1> QED BY <1>2, <1>6, <1>7 DEF Best, Acknowledged

LEMMA BestNext ==
  ASSUME Rests, Fits, LongQuantum, Control, Data, Best, [DriverNext]_driverVars
  PROVE  Best' /\ (cpu' = "handled" => BestRunsNow \/ UNCHANGED driverVars)
<1>1. CASE UNCHANGED driverVars
  <2>1. Unmoved /\ UNCHANGED <<posted, cpu, frame, started>>
    BY <1>1, UnmovedBlock DEF driverVars, adapter
  <2>2. InOrder' /\ (PreemptionDue' <=> PreemptionDue) /\ request' = request
    BY <2>1, UnmovedBest DEF Best
  <2>3. /\ Timed' <=> Timed
        /\ Acknowledged' <=> Acknowledged
        /\ Executed("isr")' <=> Executed("isr")
    BY <2>1 DEF Timed, Acknowledged, At, Active, Executed
  <2>4. PICK f : f = frame["isr"]
    OBVIOUS
  <2>5. PICK v : v = IF failed THEN -1 ELSE reply
    OBVIOUS
  <2>6. f = frame'["isr"] /\ (v = IF failed' THEN -1 ELSE reply')
    BY <2>1, <2>4, <2>5 DEF Unmoved
  <2>7. (LearnsBest(f, v)' <=> LearnsBest(f, v)) /\ (KnowsBest(f)' <=> KnowsBest(f))
    BY <2>1, UnmovedBest
  <2>8. InformedBest => InformedBest'
    BY <2>3, <2>4, <2>5, <2>6, <2>7 DEF InformedBest, LearnedBest
  <2> QED BY <1>1, <2>1, <2>2, <2>3, <2>8 DEF Best
<1>2. CASE \E k \in Callers : WriteCommand(k) \/ WritePriority(k) \/ WriteParameter(k)
  <2>1. PICK k \in Callers : WriteCommand(k) \/ WritePriority(k) \/ WriteParameter(k)
    BY <1>2
  <2>2. Best' /\ cpu' = cpu /\ Turn(k)
    BY <2>1, BestWrites, WritesFrames
  <2> QED BY <2>2 DEF Turn
<1>3. CASE \E k \in Callers : ReadStatus(k) \/ ReadReturn(k)
  BY <1>3, BestReads
<1>4. CASE Execute
  <2>1. cpu' \in {"program", "handler"}
    BY <1>4 DEF Execute, Control, InFlight
  <2> QED BY <1>4, <2>1, BestExecute
<1>5. CASE Raise \/ TakeException \/ Dispatch
  BY <1>5, BestInterrupts
<1>6. CASE \E method \in Methods, obj \in Objects \cup {0} : Call(method, obj)
  BY <1>6, BestCall
<1>7. CASE Loop
  BY <1>1, <1>7 DEF Loop
<1> QED BY <1>1, <1>2, <1>3, <1>4, <1>5, <1>6, <1>7
        DEF DriverNext, Machine, ExecuteCmd, Callers

\* When the handler returns, no ready thread is better than the one it has made run: if the
\* program rests once the timer is started, and a quantum is longer than the handler.
THEOREM BestChosen ==
  ASSUME Rests, Fits, LongQuantum
  PROVE  DriverSpec => BestRuns
<1> DEFINE Chosen == cpu' = "handled" =>
                       /\ running # 0
                       /\ \A i \in DOMAIN ready : order[running] <= order[ready[i].tid]
<1>1. DriverSpec => [](Control /\ Data)
  BY DriverInv
<1>2. DriverInit => Best
  BY BestInit
<1>3. Control /\ Data /\ Best /\ [DriverNext]_driverVars => Best'
  BY BestNext
<1>4. ASSUME Control, Data, Best, [DriverNext]_driverVars
      PROVE  [Chosen]_driverVars
  <2> SUFFICES ASSUME cpu' = "handled", ~UNCHANGED driverVars
               PROVE  /\ running # 0
                      /\ \A i \in DOMAIN ready : order[running] <= order[ready[i].tid]
    OBVIOUS
  <2>1. BestRunsNow
    BY <1>4, BestNext
  <2>2. DOMAIN ready = 1..Len(ready)
    BY <1>4, LineFacts DEF Data, Sound
  <2> QED BY <2>1, <2>2 DEF BestRunsNow, Least, Queued, Ids
<1>5. Control /\ Data /\ Best /\ [DriverNext]_driverVars => [Chosen]_driverVars
  BY <1>4
<1> QED BY <1>1, <1>2, <1>3, <1>5, PTL DEF DriverSpec, BestRuns
=============================================================================
