------------------------- MODULE SchedulerInterface -------------------------
(***************************************************************************)
(* The component as the processor sees it: the scheduler block behind its   *)
(* bus adapter (scheduler_adapter.vhd, wired in scheduler_interface.vhd),   *)
(* and a processor that runs execute_cmd of Scheduler.h again and again.    *)
(* Each step is one edge of the common clock.                               *)
(*                                                                         *)
(* A write takes one edge and a read two: the slave has no write wait and   *)
(* one read wait (Scheduler_hw.tcl).  How many edges lie between two        *)
(* accesses depends on the processor and the interconnect; MinGap are the   *)
(* fewest.                                                                  *)
(***************************************************************************)
EXTENDS Scheduler, Sequences

CONSTANTS MinGap,   \* edges without an access between two accesses, at least
          Calls     \* the calls of execute_cmd, records [cmd, priority, param]

ASSUME GapAssumption == MinGap \in Nat
ASSUME CallsAssumption == \A c \in Calls : c.cmd \in Commands \ {"PIN"}
                                         /\ c = [cmd |-> c.cmd, priority |-> c.priority,
                                                 param |-> c.param]

VARIABLES
  reg_command, reg_priority, reg_parameter, load, readdata,   \* of the adapter
  i_command, i_priority, i_parameter,                         \* from it to the block
  at, call, gap, result,   \* the processor: where in execute_cmd, for which call
  executed                 \* history: what the block accepted since the call began

registers == <<reg_command, reg_priority, reg_parameter>>
processor == <<at, call, result>>
NoCall == [cmd |-> "NONE", priority |-> 0, param |-> 0]
busVars == <<vars, registers, load, readdata, i_command, i_priority, i_parameter,
             processor, gap, executed>>

-----------------------------------------------------------------------------
(***************************************************************************)
(* The adapter.                                                             *)
(***************************************************************************)
\* Mutation: only a read ends the command.
NoAccessKeepsLoad == UNCHANGED <<registers, readdata, load>>

NoAccess == load' = FALSE /\ UNCHANGED <<registers, readdata>>

Write(address, data) ==
  /\ reg_command'   = IF address = "CMD" THEN data ELSE reg_command
  /\ reg_priority'  = IF address = "PRIORITY" THEN data ELSE reg_priority
  /\ reg_parameter' = IF address = "PARAM" THEN data ELSE reg_parameter
  /\ load' = (load \/ address = "PARAM")
  /\ UNCHANGED readdata

\* Like a write, a read leaves load as it is: only an edge without an access clears it.
Read(address) ==
  /\ \/ address = "RETURN" /\ readdata' = [value |-> s_return]
     \/ address = "STATUS" /\ readdata' = [done |-> s_done, error |-> s_error]
  /\ UNCHANGED <<registers, load>>

Present ==
  /\ i_command'   = IF load THEN reg_command ELSE "NONE"
  /\ i_priority'  = IF load THEN reg_priority ELSE 0
  /\ i_parameter' = IF load THEN reg_parameter ELSE 0

-----------------------------------------------------------------------------
(***************************************************************************)
(* The block in the same edge: it looks at the command only in idle.        *)
(***************************************************************************)
Execute == Executes(i_command, i_priority, i_parameter)

Accepting == s_state = "idle" /\ i_command # "NONE"

\* before is what the call in progress has had executed until this edge.
Edge(before) ==
  /\ Present
  /\ IF Accepting THEN Execute ELSE Clock
  /\ executed' = IF Accepting
                 THEN Append(before, [cmd |-> i_command, priority |-> i_priority,
                                      param |-> i_parameter])
                 ELSE before

-----------------------------------------------------------------------------
(***************************************************************************)
(* The processor in execute_cmd.                                            *)
(***************************************************************************)
CanAccess == gap = MinGap
Return(value) == at' = "ready" /\ call' = NoCall /\ result' = value

Quiet ==
  /\ at \notin {"polling", "returning"}
  /\ gap' = IF gap = MinGap THEN gap ELSE gap + 1
  /\ NoAccess
  /\ UNCHANGED processor
  /\ Edge(executed)

Begin(c) ==
  /\ at \in {"boot", "ready"}
  /\ c.cmd = "INSERT" => c.param \in Insertable
  /\ CanAccess
  /\ gap' = 0
  /\ Write("CMD", c.cmd)
  /\ at' = "priority"
  /\ call' = c
  /\ result' = 0
  /\ Edge(<<>>)

WritePriority ==
  /\ at = "priority"
  /\ CanAccess
  /\ gap' = 0
  /\ Write("PRIORITY", call.priority)
  /\ at' = "param"
  /\ UNCHANGED <<call, result>>
  /\ Edge(executed)

WriteParameter ==
  /\ at = "param"
  /\ CanAccess
  /\ gap' = 0
  /\ Write("PARAM", call.param)
  /\ at' = "poll"
  /\ UNCHANGED <<call, result>>
  /\ Edge(executed)

\* The first of the two edges of a read.
ReadStatus ==
  /\ at = "poll"
  /\ CanAccess
  /\ Read("STATUS")
  /\ at' = "polling"
  /\ UNCHANGED <<call, result, gap>>
  /\ Edge(executed)

\* The second: the processor takes what the first one put into readdata.
TakeStatus ==
  /\ at = "polling"
  /\ gap' = 0
  /\ Read("STATUS")
  /\ \/ ~readdata.done /\ at' = "poll" /\ UNCHANGED <<call, result>>
     \/ readdata.done /\ readdata.error /\ Return(-1)
     \/ readdata.done /\ ~readdata.error /\ at' = "return" /\ UNCHANGED <<call, result>>
  /\ Edge(executed)

ReadReturn ==
  /\ at = "return"
  /\ CanAccess
  /\ Read("RETURN")
  /\ at' = "returning"
  /\ UNCHANGED <<call, result, gap>>
  /\ Edge(executed)

TakeReturn ==
  /\ at = "returning"
  /\ gap' = 0
  /\ Read("RETURN")
  /\ Return(readdata.value)
  /\ Edge(executed)

\* The system's reset reaches the processor, the adapter and the block.
SystemReset ==
  /\ PinReset
  /\ reg_command' = "NONE" /\ reg_priority' = 0 /\ reg_parameter' = 0
  /\ load' = FALSE
  /\ i_command' = "NONE" /\ i_priority' = 0 /\ i_parameter' = 0
  /\ at' = "boot" /\ call' = NoCall /\ result' = 0
  /\ gap' = 0
  /\ executed' = <<>>
  /\ UNCHANGED readdata

-----------------------------------------------------------------------------
BusInit ==
  /\ Init
  /\ reg_command = "NONE" /\ reg_priority = 0 /\ reg_parameter = 0
  /\ load = FALSE
  /\ readdata = [value |-> 0]
  /\ i_command = "NONE" /\ i_priority = 0 /\ i_parameter = 0
  /\ at = "boot" /\ call = NoCall /\ result = 0
  /\ gap = 0
  /\ executed = <<>>

Access == \/ WritePriority \/ WriteParameter
          \/ ReadStatus \/ TakeStatus
          \/ ReadReturn \/ TakeReturn

BusNext == Quiet \/ (\E c \in Calls : Begin(c)) \/ Access \/ SystemReset

BusSpec == BusInit /\ [][BusNext]_busVars
FairBusSpec == BusSpec /\ WF_busVars(Quiet) /\ WF_busVars(Access)

-----------------------------------------------------------------------------
InCall == at \notin {"boot", "ready"}

\* One call of execute_cmd is at most one command of the block, with the data of
\* the call: neither the registers left from another call nor a command presented
\* for too long make it execute anything else.
ExecutedAtMostOnce == InCall => executed \in {<<>>, <<call>>}

\* A call that returns has been executed, has left nothing behind that the block
\* could still execute, and returns the block's answer to it: no done, error or
\* value of an earlier command is taken for its own.
AnswersItsCall ==
  [][at' = "ready" /\ InCall =>
       /\ executed = <<call>>
       /\ s_state = "idle" /\ ~load /\ i_command = "NONE"
       /\ result' = IF s_error THEN -1 ELSE s_return]_busVars

\* Polling ends: every call returns, unless the system is reset.
CallReturns == InCall ~> ~InCall
=============================================================================
