--------------------------- MODULE MCServerRecovery ---------------------------
(* Instances of ServerRecovery for TLC.                                      *)
EXTENDS ServerRecovery, TLC

CONSTANTS c1, c2, worker

\* Two threads of a program.
OneProgram == c1 :> worker @@ c2 :> worker
=============================================================================
