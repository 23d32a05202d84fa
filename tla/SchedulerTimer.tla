--------------------------- MODULE SchedulerTimer ---------------------------
(***************************************************************************)
(* The scheduler block with two history variables that watch               *)
(* timeManagement: the edges since the timer was last restarted, by         *)
(* SET_QUANTUM, RSTICKS or INT_ACK, and the quantum it was restarted with.  *)
(***************************************************************************)
EXTENDS Scheduler

VARIABLES elapsed, granted

timerVars == <<vars, elapsed, granted>>

TimerInit == Init /\ elapsed = 0 /\ granted = MaxTicks

\* elapsed stops one past the longest quantum: more than that tells nothing apart.
Watch ==
  IF s_time_reset \/ s_int_ack
  THEN elapsed' = 0 /\ granted' = s_quantum_ticks
  ELSE /\ elapsed' = IF elapsed > MaxTicks THEN elapsed ELSE elapsed + 1
       /\ UNCHANGED granted

\* A stuttering step is no edge of the clock, so each of these is one.
TimerNext == Next /\ Watch

TimerSpec == TimerInit /\ [][TimerNext]_timerVars
FairTimerSpec == TimerSpec /\ WF_timerVars(Clock /\ Watch)

\* No request for a reschedule is raised before the whole quantum has passed since
\* the last restart or acknowledgement, whatever quanta were set, commands run and
\* threads queued or made running in the meantime.
FullQuantum ==
  [][~s_reschedule /\ s_reschedule' => elapsed >= granted]_timerVars
=============================================================================
