------------------------------ MODULE MCDriver ------------------------------
(***************************************************************************)
(* Objects, priorities and methods for the model-checking runs of the       *)
(* driver.                                                                  *)
(***************************************************************************)
EXTENDS Driver, TLC

CONSTANTS a, b, c

\* Two equal priorities and one worse.
Priorities == a :> 1 @@ b :> 1 @@ c :> 2

ThreadMethods == {"reset", "schedulables", "chosen", "insert", "remove", "suspend", "resume",
                  "choose", "choose_another", "choose_this", "reset_quantum",
                  "set_quantum", "start"}
RaceMethods == {"insert", "chosen", "disable_schedule", "start"}
ResumeMethods == {"insert", "remove", "suspend", "resume"}
=============================================================================
