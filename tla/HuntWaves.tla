------------------------------ MODULE HuntWaves ------------------------------
(***************************************************************************)
(* The other scheduler of intelligence batches: HuntWaveBatch and the      *)
(* callbacks that drive it.  A controller without a Tk window uses it.     *)
(* The monsters are cut into waves of Concurrency; every hero and rescue   *)
(* quest joins the first wave.  A wave is sent with one batch-intel        *)
(* command, its doubtful dispatches are settled by an inspection, and the  *)
(* next wave starts when all of it is proved over.                         *)
(***************************************************************************)
EXTENDS IntelCommands

CONSTANTS Concurrency    \* monsters of a wave

ASSUME WavesAssumption == Concurrency \in 1..4

VARIABLES
  busy,      \* the busy flag of the controller
  items,     \* current_items: the targets the last inspection listed
  batch,     \* hunt_batch; live is FALSE where the code holds None
  report     \* the summary shown for the last batch

game == <<quest, onRole>>
ctrl == <<busy, items, batch, report>>
vars == <<quest, onRole, tasks, busy, items, batch, report>>

TargetStates == {"none", "pending", "dispatching", "dispatched",
                 "dispatch_error", "success", "reconciled", "failed", "skipped"}
Phases  == {"ready", "dispatching", "reconciling", "resolved", "waiting",
            "stopped"}
Reports == {"none", "verified", "unresolved", "claimError", "unclaimed"}

Batches == [live : BOOLEAN, targets : SUBSET Targets, wave : 0..(NumTargets + 1),
            phase : Phases, state : [Targets -> TargetStates],
            reconciledDetails : SUBSET Targets,
            claimAttempted : BOOLEAN, claimVerified : BOOLEAN,
            claimError : BOOLEAN, finalReconcileAttempted : BOOLEAN]

\* NewBatch({}) stands for hunt_batch = None.
NewBatch(T) ==
  [live |-> T # {}, targets |-> T, wave |-> 0, phase |-> "ready",
   state |-> [t \in Targets |-> IF t \in T THEN "pending" ELSE "none"],
   reconciledDetails |-> {},
   claimAttempted |-> FALSE, claimVerified |-> FALSE, claimError |-> FALSE,
   finalReconcileAttempted |-> FALSE]

-----------------------------------------------------------------------------
(* HuntWaveBatch.  A target's outcome is its final state. *)

\* build_hunt_waves: the wave, from 0, that t belongs to in a batch over T.
WaveOf(T, t) ==
  IF t \in Monsters
  THEN Cardinality({u \in T \cap Monsters : u < t}) \div Concurrency
  ELSE 0

CurrentWave(b) == {t \in b.targets : WaveOf(b.targets, t) = b.wave}
AllWavesDone(b) == \A t \in b.targets : WaveOf(b.targets, t) < b.wave
AfterLastWave   == NumTargets + 1

IdsIn(b, states) == {t \in b.targets : b.state[t] \in states}
InWave(b, states) == CurrentWave(b) \cap IdsIn(b, states)

SetState(b, S, s) ==
  [b EXCEPT !.state = [t \in Targets |-> IF t \in S THEN s ELSE b.state[t]]]

CanClaim(b) ==
  AllWavesDone(b) /\ IdsIn(b, {"success", "reconciled"}) = b.targets

NeedsFinalReconcile(b) ==
  /\ AllWavesDone(b) /\ ~b.claimAttempted /\ ~b.finalReconcileAttempted
  /\ IdsIn(b, {"failed", "skipped"}) # {}

\* The results of a batch-intel receipt; what it does not name is doubtful.
RecordDispatchResults(b, sent, held) ==
  LET doubtful == InWave(b, {"dispatching"}) \ (sent \cup held)
  IN  SetState(SetState(SetState(b, sent, "dispatched"), held, "failed"),
               doubtful, "dispatch_error")

\* reconcile_dispatch_errors: what can no longer be started did set out.
ReconcileDispatchErrors(b, available) ==
  LET errors == InWave(b, {"dispatch_error"})
  IN  [SetState(SetState(b, errors \cap available, "failed"),
                errors \ available, "dispatched")
       EXCEPT !.reconciledDetails = @ \cup (errors \ available),
              !.phase = "resolved"]

AdvanceWave(b) == [b EXCEPT !.wave = @ + 1, !.phase = "ready"]

CompleteCurrentWave(b) ==
  LET proved == InWave(b, {"dispatched"})
  IN  AdvanceWave([SetState(SetState(b, proved, "success"),
                            proved \cap b.reconciledDetails, "reconciled")
                   EXCEPT !.reconciledDetails = @ \ proved])

Stop(b) == [b EXCEPT !.wave = AfterLastWave, !.phase = "stopped",
                     !.reconciledDetails = {}]

AbortUnresolvedDispatch(b) ==
  Stop(SetState(SetState(b, IdsIn(b, {"dispatched", "dispatching",
                                      "dispatch_error"}), "failed"),
                IdsIn(b, {"pending"}), "skipped"))

\* A mutant of FailWaitReconciliation: the batch is stopped, and advanced.
FailWaitReconciliation_Advances(b) ==
  AdvanceWave(Stop(SetState(SetState(b, InWave(b, {"dispatched"}), "failed"),
                            IdsIn(b, {"pending"}), "skipped")))

\* A mutant of FailWaitReconciliation: the next wave is sent all the same.
FailWaitReconciliation_GoesOn(b) ==
  AdvanceWave(SetState(b, InWave(b, {"dispatched"}), "failed"))

\* fail_wait_reconciliation and _stop_after_wait_failure
FailWaitReconciliation(b) ==
  Stop(SetState(SetState(b, InWave(b, {"dispatched"}), "failed"),
                IdsIn(b, {"pending"}), "skipped"))

\* A mutant of ReconcileTerminalOutcomes: the receipt is not looked at.
ReconcileTerminalOutcomes_All(b, S) ==
  SetState(b, IdsIn(b, {"failed", "skipped"}), "reconciled")

ReconcileTerminalOutcomes(b, S) ==
  SetState(b, S \cap IdsIn(b, {"failed", "skipped"}), "reconciled")

Summary(b) ==
  IF b.claimVerified THEN "verified"
  ELSE IF ~CanClaim(b) THEN "unresolved"
  ELSE IF b.claimError THEN "claimError"
  ELSE "unclaimed"

-----------------------------------------------------------------------------
(* The controller's helpers, with the batch b as the callback has marked   *)
(* it so far and the commands rest still outstanding.  A command carries   *)
(* the callback it is submitted with; a batch-intel command works through  *)
(* todo, and found and held are the targets it has sent and the ones the   *)
(* stamina did not allow.                                                  *)

Callbacks == {"refreshed", "batch_dispatch_finished", "march_reconciled",
              "wave_wait_finished", "wave_reconciled", "claim_finished",
              "claim_verified", "final_reconciled"}

Commands == [op : Ops, win : {1}, ids : SUBSET Targets, res : Results,
             found : SUBSET Targets, held : SUBSET Targets,
             todo : SUBSET Targets, callback : Callbacks]

Command(op, ids, callback) ==
  [op |-> op, win |-> 1, ids |-> ids, res |-> "running", found |-> {},
   held |-> {}, todo |-> ids, callback |-> callback]

SubmitFor(b, rest, op, ids, callback) ==
  /\ batch' = b
  /\ tasks' = rest \cup {Command(op, ids, callback)}
  /\ UNCHANGED <<busy, report>>

\* A mutant of FinishHuntBatch: the controls stay locked.
FinishHuntBatch_StaysBusy(b, rest) ==
  IF NeedsFinalReconcile(b)
  THEN SubmitFor([b EXCEPT !.finalReconcileAttempted = TRUE], rest,
                 "status", b.targets, "final_reconciled")
  ELSE /\ report' = Summary(b)
       /\ batch' = NewBatch({})
       /\ tasks' = rest
       /\ UNCHANGED busy

FinishHuntBatch(b, rest) ==
  IF NeedsFinalReconcile(b)
  THEN SubmitFor([b EXCEPT !.finalReconcileAttempted = TRUE], rest,
                 "status", b.targets, "final_reconciled")
  ELSE /\ report' = Summary(b)
       /\ batch' = NewBatch({})
       /\ tasks' = rest
       /\ busy' = FALSE

StartClaim(b, rest) ==
  IF CanClaim(b) /\ ~b.claimAttempted
  THEN SubmitFor([b EXCEPT !.claimAttempted = TRUE], rest, "claim", b.targets,
                 "claim_finished")
  ELSE FinishHuntBatch(b, rest)

\* _dispatch_next_hunt and _start_next_hunt_dispatch: the whole wave at once.
\* The first wave comes from the listed items, and no later one is compared
\* with a list, so prepare_current_wave never finds a target gone.
DispatchNextHunt(b, rest) ==
  IF AllWavesDone(b)
  THEN IF CanClaim(b) THEN StartClaim(b, rest) ELSE FinishHuntBatch(b, rest)
  ELSE SubmitFor([SetState(b, CurrentWave(b), "dispatching")
                  EXCEPT !.phase = "dispatching"],
                 rest, "march", CurrentWave(b), "batch_dispatch_finished")

\* A mutant of ContinueAfterWaveDispatches: what was sent counts as done.
ContinueAfterWaveDispatches_NoWait(b, rest) ==
  DispatchNextHunt(AdvanceWave(SetState(b, InWave(b, {"dispatched"}),
                                        "success")), rest)

\* _continue_after_wave_dispatches and _wait_current_wave
ContinueAfterWaveDispatches(b, rest) ==
  IF InWave(b, {"dispatched"}) # {}
  THEN SubmitFor([b EXCEPT !.phase = "waiting"], rest, "waitAll",
                 InWave(b, {"dispatched"}), "wave_wait_finished")
  ELSE DispatchNextHunt(AdvanceWave(b), rest)

\* _resolve_wave_dispatches, once every target of the wave has its result.
ResolveWaveDispatches(b, rest) ==
  IF InWave(b, {"dispatch_error"}) # {}
  THEN SubmitFor([b EXCEPT !.phase = "reconciling"], rest, "inspect",
                 b.targets, "march_reconciled")
  ELSE ContinueAfterWaveDispatches([b EXCEPT !.phase = "resolved"], rest)

-----------------------------------------------------------------------------
(* What is submitted by hand; both return at once while busy. *)

RefreshIntel ==
  /\ ~busy
  /\ busy' = TRUE
  /\ items' = {}
  /\ tasks' = tasks \cup {Command("inspect", {}, "refreshed")}
  /\ UNCHANGED <<game, batch, report>>

StartHunt ==
  /\ ~busy
  /\ \E T \in (SUBSET items) \ {{}} :
       LET b == NewBatch(T)
       IN  /\ batch' = [SetState(b, CurrentWave(b), "dispatching")
                        EXCEPT !.phase = "dispatching"]
           /\ tasks' = tasks \cup {Command("march", CurrentWave(b),
                                           "batch_dispatch_finished")}
  /\ busy' = TRUE
  /\ report' = "none"
  /\ UNCHANGED <<game, items>>

-----------------------------------------------------------------------------
(* The commands.  A batch-intel command takes its targets one by one and   *)
(* may end with an error between any two of them; hero and rescue quests   *)
(* are reported as sent when their request is made, whatever the server    *)
(* makes of it.                                                            *)

TargetDone(k, after) ==
  tasks' = (tasks \ {k}) \cup
             {[after EXCEPT !.res = IF after.todo = {} THEN "ok" ELSE "running"]}

BatchIntel(k) ==
  /\ k.res = "running" /\ k.op = "march" /\ onRole
  /\ \E t \in k.todo :
       LET rest   == [k EXCEPT !.todo = @ \ {t}]
           sent   == [rest EXCEPT !.found = @ \cup {t}]
           held   == [rest EXCEPT !.held = @ \cup {t}]
       IN  /\ \A u \in k.todo : t <= u
           /\ \/ /\ quest[t] = "available" /\ t \in Monsters
                 /\ quest' = [quest EXCEPT ![t] = "marching"]
                 /\ TargetDone(k, sent) \/ TargetDone(k, rest)
              \/ /\ quest[t] = "available" /\ t \in Monsters
                 /\ UNCHANGED quest
                 /\ TargetDone(k, held)
              \/ /\ quest[t] = "available" /\ t \notin Monsters
                 /\ quest' \in {[quest EXCEPT ![t] = s] :
                                  s \in {"available", "marching", "completed"}}
                 /\ TargetDone(k, sent)
              \/ UNCHANGED quest /\ TargetDone(k, rest)
  /\ UNCHANGED onRole

\* An inspection of another role is refused by _apply_intel_payload while a
\* batch runs, which is an error to its callback like any other.
CommandMoves(k) ==
  \/ BatchIntel(k)
  \/ CommandFails(k)
  \/ StatusRead(k)
  \/ ForeignReading(k)
  \/ \E res \in {"ok", "error"} : ClaimIntel(k, res)
  \/ InspectTasks(k) /\ (k.callback # "refreshed" => onRole)

-----------------------------------------------------------------------------
(* The callbacks *)

Returned(k, callback) ==
  k \in tasks /\ k.res # "running" /\ k.callback = callback

IntelRefreshed(k) ==
  /\ Returned(k, "refreshed")
  /\ items' = k.found
  /\ busy' = FALSE
  /\ tasks' = tasks \ {k}
  /\ UNCHANGED <<game, batch, report>>

\* _hunt_batch_dispatch_finished; an error of the command is an error of all.
BatchDispatchFinished(k) ==
  /\ Returned(k, "batch_dispatch_finished")
  /\ batch.live /\ batch.phase = "dispatching"
  /\ ResolveWaveDispatches(
       IF k.res = "ok" THEN RecordDispatchResults(batch, k.found, k.held)
       ELSE RecordDispatchResults(batch, {}, {}), tasks \ {k})
  /\ UNCHANGED <<game, items>>

\* _march_reconciled and _march_reconcile_failed: one target that can still
\* be started, or no answer, stops the batch.
MarchReconciled(k) ==
  /\ Returned(k, "march_reconciled")
  /\ batch.live /\ batch.phase = "reconciling"
  /\ items' = IF k.res = "ok" THEN k.found ELSE items
  /\ IF k.res = "ok" /\ InWave(batch, {"dispatch_error"}) \cap k.found = {}
     THEN ContinueAfterWaveDispatches(
            ReconcileDispatchErrors(batch, k.found), tasks \ {k})
     ELSE FinishHuntBatch(
            AbortUnresolvedDispatch(
              IF k.res = "ok" THEN ReconcileDispatchErrors(batch, k.found)
              ELSE batch), tasks \ {k})
  /\ UNCHANGED game

\* A mutant of WaveWaitFinished: a failed wait is submitted again.
WaveWaitFinished_Retries(k) ==
  /\ Returned(k, "wave_wait_finished")
  /\ batch.live /\ batch.phase = "waiting"
  /\ IF k.res = "ok"
     THEN DispatchNextHunt(CompleteCurrentWave(batch), tasks \ {k})
     ELSE ContinueAfterWaveDispatches(batch, tasks \ {k})
  /\ UNCHANGED <<game, items>>

\* _wave_wait_finished
WaveWaitFinished(k) ==
  /\ Returned(k, "wave_wait_finished")
  /\ batch.live /\ batch.phase = "waiting"
  /\ IF k.res = "ok"
     THEN DispatchNextHunt(CompleteCurrentWave(batch), tasks \ {k})
     ELSE SubmitFor(batch, tasks \ {k}, "inspect", batch.targets,
                    "wave_reconciled")
  /\ UNCHANGED <<game, items>>

\* _wave_reconciled: the list is refreshed but proves nothing of a march.
WaveReconciled(k) ==
  /\ Returned(k, "wave_reconciled")
  /\ batch.live /\ batch.phase = "waiting"
  /\ items' = IF k.res = "ok" THEN k.found ELSE items
  /\ DispatchNextHunt(FailWaitReconciliation(batch), tasks \ {k})
  /\ UNCHANGED game

\* _claim_finished: the effect is read back whatever the claim answered.
ClaimFinished(k) ==
  /\ Returned(k, "claim_finished") /\ batch.live
  /\ SubmitFor([batch EXCEPT !.claimError = (@ \/ k.res # "ok")],
               tasks \ {k}, "waitAll", batch.targets, "claim_verified")
  /\ UNCHANGED <<game, items>>

\* _claim_verified; found holds the targets seen MISSING.  A refused receipt
\* is an error, and yet it is asked which targets remain.
ClaimVerified(k) ==
  /\ Returned(k, "claim_verified") /\ batch.live
  /\ LET absent == k.res \in {"ok", "refused"} /\ k.found = batch.targets
         valid  == k.res = "ok" /\ absent
     IN  /\ FinishHuntBatch([batch EXCEPT !.claimVerified = absent,
                                          !.claimError = (@ \/ ~valid)],
                            tasks \ {k})
         /\ items' = IF valid THEN items \ batch.targets ELSE items
  /\ UNCHANGED game

\* _final_hunt_reconciled
FinalReconciled(k) ==
  /\ Returned(k, "final_reconciled") /\ batch.live
  /\ LET b == IF k.res = "ok" THEN ReconcileTerminalOutcomes(batch, k.found)
                              ELSE batch
     IN  IF CanClaim(b) THEN StartClaim(b, tasks \ {k})
                        ELSE FinishHuntBatch(b, tasks \ {k})
  /\ UNCHANGED <<game, items>>

-----------------------------------------------------------------------------

Init ==
  /\ quest \in [Targets -> {"available", "missing"}]
  /\ onRole = TRUE
  /\ tasks = {}
  /\ busy = FALSE
  /\ items = {}
  /\ batch = NewBatch({})
  /\ report = "none"

Callback(k) == \/ IntelRefreshed(k) \/ BatchDispatchFinished(k)
               \/ MarchReconciled(k) \/ WaveWaitFinished(k)
               \/ WaveReconciled(k) \/ ClaimFinished(k) \/ ClaimVerified(k)
               \/ FinalReconciled(k)

Runs == (\E k \in tasks : CommandMoves(k)) /\ UNCHANGED ctrl

Next ==
  \/ RefreshIntel
  \/ StartHunt
  \/ \E k \in tasks : Callback(k)
  \/ Runs
  \/ GameStep /\ UNCHANGED ctrl

Spec == Init /\ [][Next]_vars

\* Every command has a deadline, and the dispatcher is drained.
Fairness == WF_vars(\E k \in tasks : Callback(k)) /\ WF_vars(Runs)

FairSpec == Spec /\ Fairness

-----------------------------------------------------------------------------
(* Properties *)

TypeOK ==
  /\ quest \in [Targets -> QuestStates]
  /\ onRole \in BOOLEAN
  /\ tasks \subseteq Commands
  /\ busy \in BOOLEAN
  /\ items \subseteq Targets
  /\ batch \in Batches
  /\ report \in Reports

\* One command is outstanding exactly while the controller is busy, and it
\* comes back to a batch in the phase it was submitted from, over the targets
\* it was submitted for: no _require_phase raises, which _drain would swallow
\* and the batch would hang.
ReceiptsFindTheirWave ==
  /\ busy <=> tasks # {}
  /\ \A j, k \in tasks : j = k
  /\ \A k \in tasks :
       /\ k.callback = "batch_dispatch_finished" =>
            batch.phase = "dispatching"
            /\ k.ids = InWave(batch, {"dispatching"}) /\ k.ids = CurrentWave(batch)
       /\ k.callback = "march_reconciled" =>
            batch.phase = "reconciling" /\ InWave(batch, {"dispatch_error"}) # {}
       /\ k.callback \in {"wave_wait_finished", "wave_reconciled"} =>
            batch.phase = "waiting" /\ InWave(batch, {"dispatched"}) # {}
       /\ k.callback = "wave_wait_finished" =>
            k.ids = InWave(batch, {"dispatched"})
       /\ k.callback \in {"claim_finished", "claim_verified", "final_reconciled"}
            => batch.live /\ k.ids = batch.targets /\ AllWavesDone(batch)

Sent(t) == t \in batch.targets /\ batch.state[t] \notin {"pending", "skipped"}

\* README.md:118-122: a wave starts only when every target of the waves
\* before it has its outcome, and what is called done is done in the game.
NextWaveWaits ==
  \A t, u \in batch.targets :
    Sent(t) /\ WaveOf(batch.targets, u) < WaveOf(batch.targets, t) =>
      /\ batch.state[u] \in {"success", "reconciled", "failed"}
      /\ batch.state[u] # "failed" => Terminal(u)

\* README.md:118-119: of the monsters a batch has sent, no more than the
\* frozen concurrency are on the road, also when receipts were lost, marches
\* recalled or the wave stopped half way.
MarchesOnTheRoadBounded ==
  Cardinality({t \in Monsters : Sent(t) /\ quest[t] = "marching"}) <= Concurrency

\* What a batch promises, as IntelBatch states it.
Status(t) ==
  IF t \notin batch.targets THEN "idle"
  ELSE CASE batch.state[t] = "pending" -> "open"
         [] batch.state[t] \in {"dispatching", "dispatched", "dispatch_error"} ->
              "underway"
         [] batch.state[t] \in {"failed", "skipped"} -> "unresolved"
         [] OTHER -> "done"

\* Whether the reading after the claim was made of another role.
Misled == \E k \in tasks : k.callback = "claim_verified" /\ k.res = "refused"

Claim ==
  IF ~batch.claimAttempted THEN "none"
  ELSE IF Misled THEN "misread" ELSE "requested"

Promise == INSTANCE IntelBatch WITH
  running <- batch.live,
  status  <- [t \in Targets |-> Status(t)],
  claim   <- Claim

KeepsPromise == Promise!Spec

\* A wave batch ends, whatever the player, the game and the commands do: it
\* repeats no command, so that nothing but a lost callback could keep it.
BatchEnds == batch.live ~> ~batch.live

=============================================================================
