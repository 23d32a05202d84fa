--------------------------- MODULE InterfaceProofs ---------------------------
(***************************************************************************)
(* Theorems about SchedulerInterface: what execute_cmd may rely on when at  *)
(* least two edges lie between two bus accesses.                            *)
(***************************************************************************)
EXTENDS SchedulerInterface, TLAPS

Before == {"boot", "ready", "priority", "param"}
Places == Before \cup {"poll", "polling", "return", "returning"}

\* The command on its way from the adapter to the block, and when it gets there: load
\* is up in the edge after the parameter, the command is shown in the next.
OnItsWay == load \/ i_command # "NONE"

Carried ==
  /\ load => /\ at = "poll" /\ gap = 0 /\ i_command = "NONE"
             /\ reg_command = call.cmd
             /\ reg_priority = call.priority
             /\ reg_parameter = call.param
  /\ i_command # "NONE" => /\ at = "poll" /\ gap = 1
                           /\ i_command = call.cmd
                           /\ i_priority = call.priority
                           /\ i_parameter = call.param

\* What the registers hold of the call, and how much of it has been executed.
Written ==
  /\ at \in {"priority", "param"} => reg_command = call.cmd
  /\ at = "param" => reg_priority = call.priority
  /\ InCall => /\ call = [cmd |-> call.cmd, priority |-> call.priority, param |-> call.param]
               /\ call.cmd # "NONE"
               /\ executed = IF at \in Before \/ OnItsWay THEN <<>> ELSE <<call>>

BusInv ==
  /\ gap \in 0..MinGap
  /\ at \in Places
  /\ Carried
  /\ Written

LEMMA BusInvInit == BusInit => BusInv
  BY GapAssumption DEF BusInit, BusInv, Carried, Written, InCall, OnItsWay, Places, Before

\* What an edge shows to the block, and what that adds to executed.
LEMMA Shown ==
  ASSUME NEW before, Edge(before)
  PROVE  /\ ~load => i_command' = "NONE"
         /\ load => /\ i_command' = reg_command
                    /\ i_priority' = reg_priority
                    /\ i_parameter' = reg_parameter
         /\ i_command = "NONE" => executed' = before
  BY DEF Edge, Present, Accepting

\* The block accepts what it is shown in idle.
LEMMA Taken ==
  ASSUME Carried, Written, Edge(executed), i_command # "NONE", s_state = "idle"
  PROVE  executed' = <<call>>
<1>1. executed = <<>>
  BY DEF Carried, Written, OnItsWay, InCall
<1>2. call = [cmd |-> i_command, priority |-> i_priority, param |-> i_parameter]
  BY DEF Carried, Written, InCall
<1>3. executed' = Append(<<>>, call)
  BY <1>1, <1>2 DEF Edge, Accepting
<1>4. QED BY <1>3

\* The adapter and the processor keep the invariant whatever the block does, provided
\* that it accepts what it is shown.
LEMMA BusInvStep ==
  ASSUME BusInv, [BusNext]_busVars, MinGap >= 2,
         i_command # "NONE" => s_state = "idle"
  PROVE  BusInv'
<1> USE GapAssumption DEF BusInv, Carried, Written, OnItsWay, InCall, Places, Before,
        CanAccess
<1>1. CASE UNCHANGED busVars
  BY <1>1 DEF busVars, processor, registers
<1>2. CASE Quiet
  <2>1. Edge(executed) /\ UNCHANGED <<at, call, result, reg_command, reg_priority, reg_parameter>>
        /\ load' = FALSE
    BY <1>2 DEF Quiet, NoAccess, processor, registers
  <2>2. gap' \in 0..MinGap /\ (gap = 0 => gap' = 1)
    BY <1>2 DEF Quiet
  <2>3. CASE i_command # "NONE"
    BY <2>1, <2>2, <2>3, Taken, Shown
  <2>4. CASE i_command = "NONE"
    BY <2>1, <2>2, <2>4, Shown
  <2>5. QED BY <2>3, <2>4
<1>3. ASSUME NEW c \in Calls, Begin(c)
      PROVE  BusInv'
  <2>1. /\ Edge(<<>>)
        /\ gap' = 0 /\ at' = "priority" /\ call' = c
        /\ reg_command' = c.cmd
        /\ i_command = "NONE" /\ ~load /\ ~load'
    BY <1>3 DEF Begin, Write
  <2>2. executed' = <<>> /\ i_command' = "NONE"
    BY <2>1, Shown
  <2>3. c.cmd # "NONE" /\ c = [cmd |-> c.cmd, priority |-> c.priority, param |-> c.param]
    BY CallsAssumption, ClientAssumption DEF CommandNames
  <2>4. QED BY <2>1, <2>2, <2>3
<1>4. CASE WritePriority
  <2>1. /\ Edge(executed)
        /\ gap' = 0 /\ at = "priority" /\ at' = "param" /\ call' = call
        /\ reg_command' = reg_command /\ reg_priority' = call.priority
        /\ i_command = "NONE" /\ ~load /\ ~load'
    BY <1>4 DEF WritePriority, Write
  <2>2. executed' = <<>> /\ i_command' = "NONE"
    BY <2>1, Shown
  <2>3. QED BY <2>1, <2>2
<1>5. CASE WriteParameter
  <2>1. /\ Edge(executed)
        /\ gap' = 0 /\ at = "param" /\ at' = "poll" /\ call' = call
        /\ reg_command' = call.cmd /\ reg_priority' = call.priority
        /\ reg_parameter' = call.param
        /\ i_command = "NONE" /\ ~load /\ load'
    BY <1>5 DEF WriteParameter, Write
  <2>2. executed' = <<>> /\ i_command' = "NONE"
    BY <2>1, Shown
  <2>3. QED BY <2>1, <2>2
<1>6. CASE ReadStatus
  BY <1>6, Shown DEF ReadStatus, Read, registers
<1>7. CASE TakeStatus
  BY <1>7, Shown DEF TakeStatus, Read, registers, Return
<1>8. CASE ReadReturn
  BY <1>8, Shown DEF ReadReturn, Read, registers
<1>9. CASE TakeReturn
  BY <1>9, Shown DEF TakeReturn, Read, registers, Return
<1>10. CASE SystemReset
  BY <1>10 DEF SystemReset
<1>11. QED
  BY <1>1, <1>2, <1>3, <1>4, <1>5, <1>6, <1>7, <1>8, <1>9, <1>10 DEF BusNext, Access

-----------------------------------------------------------------------------
(***************************************************************************)
(* The block behind the adapter.                                            *)
(***************************************************************************)
\* The block waits for the command that is on its way; what has been read of its
\* status and its answer is still so.
AnswerInv ==
  /\ s_done => s_state = "idle"
  /\ at \in Before \/ OnItsWay => s_state = "idle"
  /\ at = "polling" /\ readdata.done => s_done /\ (readdata.error <=> s_error)
  /\ at \in {"return", "returning"} => s_done /\ ~s_error
  /\ at = "returning" => readdata.value = s_return

BusIInv == BusInv /\ AnswerInv

LEMMA BlockEdge ==
  ASSUME NEW before, Edge(before), s_done => s_state = "idle"
  PROVE  /\ s_done' => s_state' = "idle"
         /\ s_state = "idle" /\ i_command = "NONE"
              => UNCHANGED <<s_state, s_done, s_error, s_return>>
<1> USE DEF machine
<1>1. CASE Accepting
  <2>1. Execute BY <1>1 DEF Edge
  <2>2. ~s_done'
    BY <2>1 DEF Execute, Executes, Accept, Create, Destroy, Insert, Remove, RemoveHead, UpdateRunning,
       SetQuantum, ResetTicks, RestartTime, Enable, Disable, SetEnabled, IntAck, GetId,
       Chosen, Size, Answer, Reset, ClearAll
  <2>3. QED BY <1>1, <2>2 DEF Accepting
<1>2. CASE ~Accepting
  <2>1. Clock BY <1>2 DEF Edge
  <2>2. CASE Idle
    BY <2>2 DEF Idle
  <2>3. CASE ~Idle
    BY <2>1, <2>3 DEF Clock, PreInsert, InsertWait, InsertLink, DestroyFree,
       RemoveUnlink, Finish, PreGetId, GetIdWait, GetIdFinish
  <2>4. QED BY <2>2, <2>3
<1>3. QED BY <1>1, <1>2

LEMMA AnswerStep ==
  ASSUME BusIInv, [BusNext]_busVars, MinGap >= 2
  PROVE  AnswerInv'
<1> USE DEF BusIInv, AnswerInv
<1>1. CASE UNCHANGED busVars
  BY <1>1 DEF busVars, vars, machine, processor, OnItsWay
<1>2. ASSUME NEW before, Edge(before)
      PROVE  /\ s_done' => s_state' = "idle"
             /\ s_state = "idle" /\ i_command = "NONE"
                  => UNCHANGED <<s_state, s_done, s_error, s_return>>
             /\ OnItsWay' => load \/ load'
  <2>1. OnItsWay' => load \/ load'
    BY <1>2, Shown DEF OnItsWay
  <2>2. QED BY <1>2, <2>1, BlockEdge
<1> USE DEF Before, OnItsWay
<1>3. CASE Quiet
  <2>1. Edge(executed) /\ at' = at /\ ~load' /\ at \notin {"polling", "returning"}
    BY <1>3 DEF Quiet, NoAccess, processor
  <2>2. load => i_command = "NONE"
    BY DEF BusInv, Carried
  <2>3. at \in Before \cup {"return"} => i_command = "NONE"
    BY DEF BusInv, Carried
  <2>4. QED BY <2>1, <2>2, <2>3, <1>2
<1>4. ASSUME NEW c \in Calls, Begin(c)
      PROVE  AnswerInv'
  <2>1. Edge(<<>>) /\ at \in Before /\ at' = "priority" /\ i_command = "NONE"
    BY <1>4 DEF Begin, BusInv, Carried
  <2>2. QED BY <2>1, <1>2
<1>5. CASE WritePriority \/ WriteParameter
  <2>1. Edge(executed) /\ at \in Before /\ at' \in {"param", "poll"} /\ i_command = "NONE"
    BY <1>5 DEF WritePriority, WriteParameter, BusInv, Carried
  <2>2. QED BY <2>1, <1>2
<1>6. CASE ReadStatus
  <2>1. /\ Edge(executed) /\ at' = "polling" /\ i_command = "NONE" /\ ~load /\ ~load'
        /\ readdata' = [done |-> s_done, error |-> s_error]
    BY <1>6 DEF ReadStatus, Read, registers, BusInv, Carried, CanAccess
  <2>2. readdata'.done = s_done /\ readdata'.error = s_error
    BY <2>1
  <2>3. QED BY <2>1, <2>2, <1>2
<1>7. CASE TakeStatus
  <2>1. /\ Edge(executed) /\ at = "polling" /\ i_command = "NONE" /\ ~load /\ ~load'
        /\ \/ at' = "poll"
           \/ at' = "ready" /\ readdata.done
           \/ at' = "return" /\ readdata.done /\ ~readdata.error
    BY <1>7 DEF TakeStatus, Read, registers, Return, BusInv, Carried
  <2>2. QED BY <2>1, <1>2
<1>8. CASE ReadReturn
  <2>1. /\ Edge(executed) /\ at = "return" /\ at' = "returning" /\ i_command = "NONE"
        /\ ~load /\ ~load'
        /\ readdata' = [value |-> s_return]
    BY <1>8 DEF ReadReturn, Read, registers, BusInv, Carried
  <2>2. readdata'.value = s_return
    BY <2>1
  <2>3. QED BY <2>1, <2>2, <1>2
<1>9. CASE TakeReturn
  <2>1. Edge(executed) /\ at = "returning" /\ at' = "ready" /\ i_command = "NONE" /\ ~load'
    BY <1>9 DEF TakeReturn, Read, registers, Return, BusInv, Carried
  <2>2. QED BY <2>1, <1>2
<1>10. CASE SystemReset
  BY <1>10 DEF SystemReset, PinReset, ClearAll
<1>11. QED
  BY <1>1, <1>3, <1>4, <1>5, <1>6, <1>7, <1>8, <1>9, <1>10 DEF BusNext, Access

LEMMA BusInvariant ==
  ASSUME MinGap >= 2
  PROVE  BusSpec => []BusIInv
<1>1. BusInit => BusIInv
  BY BusInvInit DEF BusInit, Init, BusIInv, AnswerInv, OnItsWay
<1>2. BusIInv /\ [BusNext]_busVars => BusIInv'
  <2>1. SUFFICES ASSUME BusIInv, [BusNext]_busVars PROVE BusIInv'
    OBVIOUS
  <2>2. i_command # "NONE" => s_state = "idle"
    BY <2>1 DEF BusIInv, AnswerInv, OnItsWay
  <2>3. QED BY <2>1, <2>2, BusInvStep, AnswerStep DEF BusIInv
<1>3. QED BY <1>1, <1>2, PTL DEF BusSpec

\* Behind the adapter each call of execute_cmd is at most one command, with the data of
\* the call, if two edges or more lie between accesses.
THEOREM AtMostOnce ==
  ASSUME MinGap >= 2
  PROVE  BusSpec => []ExecutedAtMostOnce
<1>1. BusIInv => ExecutedAtMostOnce
  BY DEF BusIInv, BusInv, Written, ExecutedAtMostOnce
<1>2. QED BY <1>1, BusInvariant, PTL

\* With the same gap a call returns the block's answer to itself and leaves nothing
\* behind, whatever the calls before it and wherever a reset has come.
THEOREM RightAnswer ==
  ASSUME MinGap >= 2
  PROVE  BusSpec => AnswersItsCall
<1> DEFINE A == at' = "ready" /\ InCall =>
                  /\ executed = <<call>>
                  /\ s_state = "idle" /\ ~load /\ i_command = "NONE"
                  /\ result' = IF s_error THEN -1 ELSE s_return
<1>1. BusIInv /\ [BusNext]_busVars => [A]_busVars
  <2>1. SUFFICES ASSUME BusIInv, BusNext, at' = "ready", InCall PROVE A
    OBVIOUS
  <2>2. TakeStatus \/ TakeReturn
    BY <2>1 DEF BusNext, Access, Quiet, Begin, WritePriority, WriteParameter, ReadStatus,
       ReadReturn, SystemReset, processor, InCall
  <2>3. at \in {"polling", "returning"} /\ ~load /\ i_command = "NONE" /\ executed = <<call>>
    BY <2>1, <2>2 DEF TakeStatus, TakeReturn, BusIInv, BusInv, Carried, Written, OnItsWay,
       InCall, Before
  <2>4. CASE TakeStatus
    BY <2>1, <2>3, <2>4 DEF TakeStatus, Return, BusIInv, AnswerInv
  <2>5. CASE TakeReturn
    BY <2>1, <2>3, <2>5 DEF TakeReturn, Return, BusIInv, AnswerInv
  <2>6. QED BY <2>2, <2>4, <2>5
<1>2. QED BY <1>1, BusInvariant, PTL DEF BusSpec, AnswersItsCall
=============================================================================
