----------------------------- MODULE TimerProofs -----------------------------
(***************************************************************************)
(* The theorem about the timer: a quantum is never cut short.               *)
(***************************************************************************)
EXTENDS SchedulerTimer, SchedulerProofs

\* What is left in the counter and what has elapsed make up the quantum.
TimeInv ==
  /\ granted \in 0..MaxTicks
  /\ elapsed \in 0..(MaxTicks + 1)
  /\ elapsed + s_counter >= granted

\* The history only watches.
LEMMA TimerIsScheduler == TimerSpec => Spec
<1>1. TimerInit => Init
  BY DEF TimerInit
<1>2. [TimerNext]_timerVars => [Next]_vars
  BY DEF TimerNext, timerVars
<1>3. QED BY <1>1, <1>2, PTL DEF TimerSpec, Spec

LEMMA TimerEdge ==
  ASSUME Next
  PROVE  TimeManagement
  BY OthersStep DEF OtherProcesses, PinReset

LEMMA TimeInvInit == TimerInit => TimeInv
  BY TickAssumption DEF TimerInit, Init, TimeInv

LEMMA TimeInvStep ==
  ASSUME TimeInv, QueueInv, [TimerNext]_timerVars
  PROVE  TimeInv' /\ (~s_reschedule /\ s_reschedule' => elapsed >= granted \/ UNCHANGED timerVars)
<1> USE TickAssumption DEF TimeInv
<1>1. CASE UNCHANGED timerVars
  BY <1>1 DEF timerVars, vars, processOutputs
<1>2. CASE TimerNext
  <2>1. TimeManagement /\ Watch
    BY <1>2, TimerEdge DEF TimerNext
  <2>2. s_counter \in 0..MaxTicks /\ s_quantum_ticks \in 0..MaxTicks
    BY DEF QueueInv, Typed, MachineTyped, ProcessesTyped
  <2>3. CASE s_time_reset \/ s_int_ack
    BY <2>1, <2>2, <2>3 DEF TimeManagement, Watch
  <2>4. CASE ~(s_time_reset \/ s_int_ack)
    <3>1. /\ granted' = granted
          /\ elapsed' = IF elapsed > MaxTicks THEN elapsed ELSE elapsed + 1
          /\ s_counter' = IF s_counter = 0 THEN s_quantum_ticks ELSE s_counter - 1
      BY <2>1, <2>4 DEF TimeManagement, Watch
    <3>2. ~s_reschedule /\ s_reschedule' => s_counter = 0
      BY <2>1, <2>4 DEF TimeManagement
    <3>3. TimeInv'
      BY <2>2, <3>1
    <3>4. s_counter = 0 => elapsed >= granted
      OBVIOUS
    <3>5. QED BY <3>2, <3>3, <3>4
  <2>5. QED BY <2>3, <2>4
<1>3. QED BY <1>1, <1>2

\* However long the quanta, and whatever a client does with the timer, the threads and
\* the queue, a request comes no earlier than a whole quantum after the last restart or
\* acknowledgement.
THEOREM WholeQuantum == TimerSpec => FullQuantum
<1>1. TimeInv /\ QueueInv /\ [TimerNext]_timerVars
        => TimeInv' /\ [~s_reschedule /\ s_reschedule' => elapsed >= granted]_timerVars
  BY TimeInvStep
<1>2. QED
  BY <1>1, TimeInvInit, TimerIsScheduler, QueueInvariant, PTL DEF TimerSpec, FullQuantum
=============================================================================
