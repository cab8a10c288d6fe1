---------------------------- MODULE IntelCommands ----------------------------
(***************************************************************************)
(* The intelligence quests of one role as the game's server keeps them,    *)
(* and the commands a manager window runs against them.  A command is one  *)
(* CLI subprocess: the window's worker thread starts it, the game changes  *)
(* or is read while it runs, it returns a receipt or an error, and the UI  *)
(* thread later drains the result and runs the callback.  Those three      *)
(* moments are three steps here, because other steps happen between them.  *)
(*                                                                         *)
(* A target is named by its place in the canonical queue order of          *)
(* build_task_queue: the monsters first, then hero and rescue quests.      *)
(***************************************************************************)
EXTENDS Integers, FiniteSets

CONSTANTS
  NumTargets,    \* the intelligence quests that may be listed
  NumMonsters,   \* the first NumMonsters of them are monsters
  AllowRecall    \* whether the player may call a march back by hand

ASSUME TargetsAssumption ==
  /\ NumTargets \in Nat \ {0}
  /\ NumMonsters \in 0..NumTargets
  /\ AllowRecall \in BOOLEAN

VARIABLES
  quest,    \* the state of every quest on the server
  onRole,   \* whether the game is logged in with the role of these quests; when
            \* it is not, the role may have the same name in another kingdom
  tasks     \* commands submitted whose callback has not run yet

Targets  == 1..NumTargets
Monsters == 1..NumMonsters

QuestStates == {"available", "marching", "completed", "missing"}

\* exact_intel_statuses: COMPLETED or MISSING, as opposed to PENDING.
Terminal(t) == quest[t] \in {"completed", "missing"}

QuestsIn(S) == {t \in Targets : quest[t] \in S}

-----------------------------------------------------------------------------
(* The game, moved by its server and by the player's own hands. *)

MarchReturns(t) ==
  /\ quest[t] = "marching"
  /\ quest' = [quest EXCEPT ![t] = "completed"]
  /\ UNCHANGED <<onRole, tasks>>

\* A quest expires, or the player collects its reward by hand.
QuestDisappears(t) ==
  /\ quest[t] \in {"available", "completed"}
  /\ quest' = [quest EXCEPT ![t] = "missing"]
  /\ UNCHANGED <<onRole, tasks>>

PlayerRecalls(t) ==
  /\ AllowRecall
  /\ quest[t] = "marching"
  /\ quest' = [quest EXCEPT ![t] = "available"]
  /\ UNCHANGED <<onRole, tasks>>

PlayerSwitchesRole ==
  /\ onRole' = ~onRole
  /\ UNCHANGED <<quest, tasks>>

-----------------------------------------------------------------------------
(* Commands.  win is the window that submitted the command; res and found  *)
(* are the receipt: what the command proved, and the targets it proved it  *)
(* about.  A receipt is refused when it names another kingdom.             *)

Ops     == {"march", "waitAny", "waitAll", "status", "claim", "inspect",
            "toggle", "restart"}
Results == {"running", "ok", "blocked", "refused", "error"}

Tasks == [op : Ops, win : Nat, ids : SUBSET Targets, res : Results,
          found : SUBSET Targets]

Task(op, w, ids) ==
  [op |-> op, win |-> w, ids |-> ids, res |-> "running", found |-> {}]

Returns(k, res, found) ==
  tasks' = (tasks \ {k}) \cup {[k EXCEPT !.res = res, !.found = found]}

\* Any command may fail before it touches the game: a wrong role, no idle
\* march, a lost injection, a bridge fault, its own deadline, a kill.
CommandFails(k) ==
  /\ k.res = "running"
  /\ Returns(k, "error", {})
  /\ UNCHANGED <<quest, onRole>>

\* What a request does to its quest: a monster march sets out, a hero or
\* rescue battle is verified only once its quest is over.
Dispatched(t) == IF t \in Monsters THEN "marching" ELSE "completed"

MarchAccepted(k) ==
  /\ k.res = "running" /\ k.op = "march" /\ onRole
  /\ \E t \in k.ids :
       /\ quest[t] = "available"
       /\ quest' = [quest EXCEPT ![t] = Dispatched(t)]
  /\ Returns(k, "ok", k.ids)
  /\ UNCHANGED onRole

MarchBlocked(k) ==
  /\ k.res = "running" /\ k.op = "march" /\ onRole
  /\ \E t \in k.ids \cap Monsters : quest[t] = "available"
  /\ Returns(k, "blocked", {})
  /\ UNCHANGED <<quest, onRole>>

\* The request reached the server but its proof did not come back in time.
MarchUnproved(k) ==
  /\ k.res = "running" /\ k.op = "march" /\ onRole
  /\ \E t \in k.ids :
       /\ quest[t] = "available"
       /\ quest' = [quest EXCEPT ![t] = "marching"]
  /\ Returns(k, "error", {})
  /\ UNCHANGED onRole

\* wait-intel and the dry run of claim-intel read the exact statuses of ids.
StatusRead(k) ==
  /\ k.res = "running" /\ k.op \in {"waitAny", "waitAll", "status"} /\ onRole
  /\ k.op = "waitAny" => \E t \in k.ids : Terminal(t)
  /\ k.op = "waitAll" => \A t \in k.ids : Terminal(t)
  /\ Returns(k, "ok", {t \in k.ids : IF k.op = "waitAll"
                                     THEN quest[t] = "missing"
                                     ELSE Terminal(t)})
  /\ UNCHANGED <<quest, onRole>>

\* expected_role is a name only.  The namesake lists none of ids: they read as
\* MISSING, and the window refuses the receipt for its kingdom.
ForeignReading(k) ==
  /\ k.res = "running" /\ k.op \in {"waitAny", "waitAll", "status"} /\ ~onRole
  /\ Returns(k, "refused", k.ids)
  /\ UNCHANGED <<quest, onRole>>

\* RequestReceiveAllQuestReward takes every completed quest of the role.
ClaimIntel(k, res) ==
  /\ k.res = "running" /\ k.op = "claim" /\ onRole
  /\ \A t \in k.ids : Terminal(t)
  /\ quest' = IF \E t \in k.ids : quest[t] = "completed"
              THEN [t \in Targets |-> IF quest[t] = "completed"
                                      THEN "missing" ELSE quest[t]]
              ELSE quest
  /\ Returns(k, res, IF res = "ok" THEN k.ids ELSE {})
  /\ UNCHANGED onRole

\* inspect-tasks lists what may be started; another role lists nothing here.
InspectTasks(k) ==
  /\ k.res = "running" /\ k.op = "inspect"
  /\ Returns(k, "ok", IF onRole THEN QuestsIn({"available"}) ELSE {})
  /\ UNCHANGED <<quest, onRole>>

PlainCommand(k) ==
  /\ k.res = "running" /\ k.op \in {"toggle", "restart"}
  /\ Returns(k, "ok", {})
  /\ UNCHANGED <<quest, onRole>>

CommandSucceeds(k) ==
  \/ MarchAccepted(k)
  \/ StatusRead(k)
  \/ ClaimIntel(k, "ok")
  \/ InspectTasks(k)
  \/ PlainCommand(k)

CommandRuns(k) ==
  \/ CommandSucceeds(k)
  \/ CommandFails(k)
  \/ MarchBlocked(k)
  \/ MarchUnproved(k)
  \/ ForeignReading(k)
  \/ ClaimIntel(k, "error")

GameStep ==
  \/ PlayerSwitchesRole
  \/ \E t \in Targets : MarchReturns(t) \/ QuestDisappears(t) \/ PlayerRecalls(t)

=============================================================================
