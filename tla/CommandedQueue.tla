--------------------------- MODULE CommandedQueue ---------------------------
(***************************************************************************)
(* ReadyQueue behind the protocol of a command: the client gives a command, *)
(* at some moment until it is done its operation happens, once and with its *)
(* own parameter, and then done rises.  A client that waits for done reads  *)
(* the reply to its own command, and whether it was refused.                *)
(***************************************************************************)
EXTENDS ReadyQueue

CONSTANT Requests    \* the commands a client may give, records [cmd, priority, param]

VARIABLES command,    \* the command in progress, NoRequest between two commands
          performed,  \* its operation has happened
          failed,     \* the error bit
          done

cqVars == <<rqVars, command, performed, failed, done>>

CQInit ==
  /\ RQInit
  /\ command = NoRequest
  /\ performed = FALSE
  /\ failed = FALSE
  /\ done = FALSE

Perform(r) ==
  /\ Serves(r)
  /\ failed' = Refuses(r)
  /\ performed' = TRUE

Defer ==
  /\ performed' = FALSE
  /\ failed' = FALSE
  /\ UNCHANGED rqVars

\* The operation happens at once or later.
Accept(r) ==
  /\ command = NoRequest
  /\ command' = r
  /\ done' = FALSE
  /\ Perform(r) \/ Defer

PerformLater ==
  /\ command # NoRequest
  /\ ~performed
  /\ Perform(command)
  /\ UNCHANGED <<command, done>>

Finish ==
  /\ performed
  /\ command' = NoRequest
  /\ performed' = FALSE
  /\ done' = TRUE
  /\ UNCHANGED <<rqVars, failed>>

\* The pin p_reset cuts whatever is in progress.
Clear ==
  /\ RQReset
  /\ command' = NoRequest
  /\ performed' = FALSE
  /\ failed' = FALSE
  /\ done' = FALSE

CQNext == (\E r \in Requests : Accept(r)) \/ PerformLater \/ Finish \/ Clear

CQSpec == CQInit /\ [][CQNext]_cqVars
=============================================================================
