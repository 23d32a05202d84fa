---------------------------- MODULE MCScheduler ----------------------------
(***************************************************************************)
(* Sets of commands for the model-checking runs of the scheduler block.     *)
(***************************************************************************)
EXTENDS Scheduler

CONSTANTS a, b

AllCommands     == {"CREATE", "DESTROY", "INSERT", "REMOVE", "REMOVE_HEAD", "UPDATE_RUNNING",
                    "SET_QUANTUM", "RSTICKS", "ENABLE", "DISABLE", "INT_ACK", "GETID", "CHOSEN",
                    "SIZE", "RESET", "PIN"}
PinCommands     == {"CREATE", "INSERT", "UPDATE_RUNNING", "ENABLE", "RSTICKS", "PIN"}
RestartCommands == {"CREATE", "INSERT", "UPDATE_RUNNING", "ENABLE", "RESET"}
=============================================================================
