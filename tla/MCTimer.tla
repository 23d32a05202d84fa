------------------------------ MODULE MCTimer ------------------------------
(***************************************************************************)
(* The commands for the model-checking run of the timer.                    *)
(***************************************************************************)
EXTENDS SchedulerTimer

CONSTANT a

TimerCommands == {"CREATE", "INSERT", "REMOVE_HEAD", "UPDATE_RUNNING", "ENABLE", "DISABLE",
                  "INT_ACK", "SET_QUANTUM", "RSTICKS"}
=============================================================================
