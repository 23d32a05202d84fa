------------------------------ MODULE MCQueue ------------------------------
(***************************************************************************)
(* Sets of commands for the runs that check the scheduler block against its *)
(* abstract specification.                                                  *)
(***************************************************************************)
EXTENDS SchedulerQueue, TLC

CONSTANTS a, b

OrderCommands  == {"CREATE", "DESTROY", "INSERT", "REMOVE", "REMOVE_HEAD", "GETID", "RESET",
                   "PIN"}
ThreadCommands == OrderCommands \cup
                  {"UPDATE_RUNNING", "CHOSEN", "SIZE", "SET_QUANTUM", "RSTICKS", "ENABLE",
                   "DISABLE", "INT_ACK"}

\* The block only compares objects, so that exchanging the two changes nothing.
Symmetry == Permutations({a, b})
=============================================================================
