----------------------------- MODULE IntelBatch ------------------------------
(***************************************************************************)
(* What a batch over intelligence quests promises, whichever scheduler     *)
(* runs it.  A target only moves forward; it is called done only when the  *)
(* game has finished with it; the claim is made at most once, and only     *)
(* when every target is done; the batch says how it ended.  It says        *)
(* "verified" when the game no longer lists any target, and in one case    *)
(* more: when the reading after the claim was made of another role, which  *)
(* lists none of them, and was refused for it.                             *)
(***************************************************************************)
CONSTANTS Targets, Reports

VARIABLES
  quest,     \* the game's state of every target
  onRole,    \* whether the game is logged in with the role of the batch
  running,   \* whether a batch is running
  status,    \* what the batch holds of every target
  claim,     \* whether the batch has made its claim, and misread its effect
  report     \* how the last batch ended

vars == <<quest, onRole, running, status, claim, report>>

Statuses == {"idle", "open", "underway", "unresolved", "done"}

TypeOK ==
  /\ quest \in [Targets -> {"available", "marching", "completed", "missing"}]
  /\ onRole \in BOOLEAN
  /\ running \in BOOLEAN
  /\ status \in [Targets -> Statuses]
  /\ claim \in {"none", "requested", "misread"}
  /\ report \in Reports

\* The statuses a target may move to; a target given up may yet turn out done.
After(s) ==
  CASE s = "open"       -> {"open", "underway", "unresolved", "done"}
    [] s = "underway"   -> {"underway", "unresolved", "done"}
    [] s = "unresolved" -> {"unresolved", "done"}
    [] OTHER            -> {s}

Init ==
  /\ quest \in [Targets -> {"available", "missing"}]
  /\ onRole \in BOOLEAN
  /\ running = FALSE
  /\ status = [t \in Targets |-> "idle"]
  /\ claim = "none"
  /\ report = "none"

\* Time passes in the game; a finished quest stays finished.  The player may
\* log in with another role, and back.
GameMoves ==
  /\ quest' \in [Targets -> {"available", "marching", "completed", "missing"}]
  /\ \A t \in Targets :
       /\ quest[t] = "completed" => quest'[t] \in {"completed", "missing"}
       /\ quest[t] = "missing" => quest'[t] = "missing"
  /\ onRole' \in BOOLEAN
  /\ UNCHANGED <<running, status, claim, report>>

Begin ==
  /\ ~running /\ running' = TRUE
  /\ status' \in [Targets -> {"idle", "open", "underway"}]
  /\ claim' = "none"
  /\ report' = "none"
  /\ UNCHANGED <<quest, onRole>>

\* A target is done because the game finished with it, not because it was
\* asked for.
Advance ==
  /\ running /\ running' = TRUE
  /\ status' \in [Targets -> Statuses]
  /\ \A t \in Targets :
       /\ status'[t] \in After(status[t])
       /\ status'[t] = "done" /\ status[t] # "done"
            => quest[t] \in {"completed", "missing"}
  /\ \/ claim' = claim
     \/ /\ claim = "none" /\ claim' = "requested"
        /\ \A t \in Targets : status'[t] \in {"idle", "done"}
  /\ UNCHANGED <<quest, onRole, report>>

\* The reading after the claim finds another role, which has no such quests.
Misread ==
  /\ running /\ claim = "requested" /\ ~onRole
  /\ claim' = "misread"
  /\ UNCHANGED <<quest, onRole, running, status, report>>

End ==
  /\ running /\ running' = FALSE
  /\ \A t \in Targets : status[t] \in {"idle", "done", "unresolved"}
  /\ \/ /\ report' = "verified" /\ claim = "requested"
        /\ \A t \in Targets : status[t] # "idle" => quest[t] = "missing"
     \/ report' = "verified" /\ claim = "misread"
     \/ report' = "claimError" /\ claim \in {"requested", "misread"}
     \/ report' = "unresolved" /\ \E t \in Targets : status[t] = "unresolved"
  /\ status' = [t \in Targets |-> "idle"]
  /\ claim' = "none"
  /\ UNCHANGED <<quest, onRole>>

\* The window is closed on the batch.
Abandon ==
  /\ running' = FALSE
  /\ status' = [t \in Targets |-> "idle"]
  /\ claim' = "none"
  /\ report' = "none"
  /\ UNCHANGED <<quest, onRole>>

Next == GameMoves \/ Begin \/ Advance \/ Misread \/ End \/ Abandon

Spec == Init /\ [][Next]_vars

=============================================================================
