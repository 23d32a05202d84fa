---------------------------- MODULE MCInterface ----------------------------
(***************************************************************************)
(* The calls of execute_cmd for the model-checking run of the interface.    *)
(***************************************************************************)
EXTENDS SchedulerInterface

CONSTANT a

CallOf(cmds, priorities, params) == [cmd : cmds, priority : priorities, param : params]

BusCalls ==
  UNION {CallOf({"CREATE"}, Priorities, Objects),
         CallOf({"INSERT"}, Priorities, Tids),
         CallOf({"DESTROY"}, {0}, Tids),
         CallOf({"GETID"}, {0}, Lookups),
         CallOf({"REMOVE_HEAD", "SIZE", "RESET"}, {0}, {0})}
=============================================================================
