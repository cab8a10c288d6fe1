------------------------------ MODULE HuntSlots ------------------------------
(***************************************************************************)
(* The batch a manager window runs over intelligence quests: HuntSlotBatch *)
(* and the callbacks of DeviceManagerWindow that drive it.  Up to          *)
(* Concurrency monster marches are kept on the road; a slot that frees is  *)
(* refilled; when every target has an outcome the rewards are claimed once *)
(* and the claim is verified.                                              *)
(*                                                                         *)
(* Every callback is one step: Tk runs it to its end.  It may mark the     *)
(* batch, then dispatch, wait, claim or finish in the same step.           *)
(***************************************************************************)
EXTENDS IntelCommands

CONSTANTS
  Concurrency,   \* monster marches the window keeps on the road
  MaxWindows     \* how many windows are opened for the device, to bound runs

ASSUME SlotsAssumption ==
  /\ Concurrency \in 1..4
  /\ MaxWindows \in Nat \ {0}

VARIABLES
  win,           \* which DeviceManagerWindow of the device this is
  exists,        \* whether that window is on screen
  busy,          \* its busy flag
  items,         \* current_items: the targets the last refresh listed
  batch,         \* hunt_batch; live is FALSE where the code holds None
  report,        \* the summary the window shows for the last batch
  waitRunning,   \* _slot_wait_running
  timers         \* pending window.after(1000, _slot_request_wait) callbacks

game == <<quest, onRole>>
ui   == <<win, exists, busy, items>>
vars == <<quest, onRole, tasks, win, exists, busy, items, batch, report,
          waitRunning, timers>>

TargetStates == {"none", "pending", "dispatching", "active", "success",
                 "failed", "reconciled"}
Outcomes     == {"none", "success", "failed", "reconciled"}
Reports      == {"none", "verified", "unresolved", "claimError", "unclaimed"}

Batches == [live : BOOLEAN, targets : SUBSET Targets,
            state : [Targets -> TargetStates],
            outcome : [Targets -> Outcomes],
            claimAttempted : BOOLEAN, claimVerified : BOOLEAN,
            claimError : BOOLEAN, finalReconcileAttempted : BOOLEAN]

\* NewBatch({}) stands for hunt_batch = None.
NewBatch(T) ==
  [live |-> T # {}, targets |-> T,
   state |-> [t \in Targets |-> IF t \in T THEN "pending" ELSE "none"],
   outcome |-> [t \in Targets |-> "none"],
   claimAttempted |-> FALSE, claimVerified |-> FALSE, claimError |-> FALSE,
   finalReconcileAttempted |-> FALSE]

-----------------------------------------------------------------------------
(* HuntSlotBatch *)

IdsIn(b, states) == {t \in b.targets : b.state[t] \in states}

ActiveMonsterCount(b) ==
  Cardinality(IdsIn(b, {"active", "dispatching"}) \cap Monsters)

Complete(b) == IdsIn(b, {"pending", "dispatching", "active"}) = {}

CanClaim(b) ==
  /\ Complete(b)
  /\ \A t \in b.targets : b.outcome[t] \in {"success", "reconciled"}

NeedsFinalReconcile(b) ==
  /\ Complete(b) /\ ~b.claimAttempted /\ ~b.finalReconcileAttempted
  /\ \E t \in b.targets : b.outcome[t] = "failed"

\* A mutant of Dispatchable: one slot too many.
Dispatchable_OneTooMany(b) ==
  {t \in IdsIn(b, {"pending"}) :
     t \in Monsters => ActiveMonsterCount(b) <= Concurrency}

\* What next_dispatch_target may return: a monster needs a free slot.
Dispatchable(b) ==
  {t \in IdsIn(b, {"pending"}) :
     t \in Monsters => ActiveMonsterCount(b) < Concurrency}

FirstOf(S) == CHOOSE t \in S : \A u \in S : t <= u

Summary(b) ==
  IF b.claimVerified THEN "verified"
  ELSE IF ~CanClaim(b) THEN "unresolved"
  ELSE IF b.claimError THEN "claimError"
  ELSE "unclaimed"

SetState(b, S, s) ==
  [b EXCEPT !.state = [t \in Targets |-> IF t \in S THEN s ELSE b.state[t]]]

Record(b, S, s) ==
  [SetState(b, S, s) EXCEPT
     !.outcome = [t \in Targets |-> IF t \in S THEN s ELSE b.outcome[t]]]

MarkDispatched(b, S) == SetState(b, S, "active")
MarkFailed(b, S)     == Record(b, S, "failed")
MarkCompleted(b, S)  == Record(b, S \cap IdsIn(b, {"active"}), "success")

ReconcileTerminalOutcomes(b, S) ==
  Record(b, {t \in S \cap b.targets : b.outcome[t] = "failed"}, "reconciled")

-----------------------------------------------------------------------------
(* The controller's helpers.  b is the batch as the callback has marked it *)
(* so far and rest the commands still outstanding.                         *)

SubmitFor(b, rest, op, ids) ==
  /\ batch' = b
  /\ tasks' = rest \cup {Task(op, win, ids)}

FinishHuntBatch(b, rest, running) ==
  \/ /\ NeedsFinalReconcile(b)
     /\ SubmitFor([b EXCEPT !.finalReconcileAttempted = TRUE], rest,
                  "status", b.targets)
     /\ waitRunning' = running
     /\ UNCHANGED <<busy, report>>
  \/ /\ ~NeedsFinalReconcile(b)
     /\ report' = Summary(b)
     /\ batch' = NewBatch({})
     /\ tasks' = rest
     /\ waitRunning' = FALSE
     /\ busy' = FALSE

StartClaim(b, rest, running) ==
  \/ /\ CanClaim(b) /\ ~b.claimAttempted
     /\ SubmitFor([b EXCEPT !.claimAttempted = TRUE], rest, "claim", b.targets)
     /\ waitRunning' = running
     /\ UNCHANGED <<busy, report>>
  \/ /\ b.claimAttempted \/ ~CanClaim(b)
     /\ FinishHuntBatch(b, rest, running)

\* A mutant of SlotRequestWait: it waits for every target.
SlotRequestWait_ForAll(b, rest, running) ==
  /\ SubmitFor(b, rest, "waitAny", IdsIn(b, {"pending", "active"}))
  /\ waitRunning' = TRUE
  /\ UNCHANGED <<busy, report>>

\* _slot_request_wait: wait for any target that is on its way.
SlotRequestWait(b, rest, running) ==
  /\ IF \/ running
        \/ IdsIn(b, {"active"}) = {}
        \/ IdsIn(b, {"dispatching"}) # {}
     THEN /\ batch' = b
          /\ tasks' = rest
          /\ waitRunning' = running
     ELSE /\ SubmitFor(b, rest, "waitAny", IdsIn(b, {"active"}))
          /\ waitRunning' = TRUE
  /\ UNCHANGED <<busy, report>>

Dispatch(b, rest) ==
  LET t == FirstOf(Dispatchable(b))
  IN  SubmitFor(SetState(b, {t}, "dispatching"), rest, "march", {t})

\* _dispatch_next_slot_hunt(None).  Its callers call _slot_request_wait once
\* more after it: that call finds a dispatch or a wait outstanding, or
\* nothing active, and returns.
DispatchNext(b, rest, running) ==
  \/ Complete(b) /\ CanClaim(b) /\ StartClaim(b, rest, running)
  \/ Complete(b) /\ ~CanClaim(b) /\ FinishHuntBatch(b, rest, running)
  \/ /\ ~Complete(b) /\ IdsIn(b, {"dispatching"}) # {}
     /\ batch' = b
     /\ tasks' = rest
     /\ waitRunning' = running
     /\ UNCHANGED <<busy, report>>
  \/ /\ IdsIn(b, {"dispatching"}) = {} /\ Dispatchable(b) # {}
     /\ Dispatch(b, rest)
     /\ waitRunning' = running
     /\ UNCHANGED <<busy, report>>
  \/ /\ ~Complete(b) /\ IdsIn(b, {"dispatching"}) = {} /\ Dispatchable(b) = {}
     /\ SlotRequestWait(b, rest, running)

-----------------------------------------------------------------------------
(* The buttons: each returns at once while the window is busy. *)

Submit(op) ==
  /\ exists /\ ~busy
  /\ busy' = TRUE
  /\ tasks' = tasks \cup {Task(op, win, {})}
  /\ UNCHANGED <<game, win, exists, batch, report, waitRunning, timers>>

RefreshIntel == Submit("inspect") /\ items' = {}
ToggleWorld  == Submit("toggle") /\ UNCHANGED items
RestartGame  == Submit("restart") /\ UNCHANGED items

\* The check boxes choose any of the listed targets.  The availability set
\* start_hunt passes holds every one of them, so none is skipped, and with
\* nothing on its way the first is always dispatchable.
StartHunt ==
  /\ exists /\ ~busy
  /\ \E T \in (SUBSET items) \ {{}} : Dispatch(NewBatch(T), tasks)
  /\ busy' = TRUE
  /\ waitRunning' = FALSE
  /\ report' = "none"
  /\ UNCHANGED <<game, win, exists, items, timers>>

\* A mutant of CloseWindow: the pending retry timer is left.
CloseWindow_LeavesTimer ==
  /\ exists
  /\ exists' = FALSE
  /\ busy' = FALSE
  /\ batch' = NewBatch({})
  /\ waitRunning' = FALSE
  /\ items' = {}
  /\ report' = "none"
  /\ UNCHANGED <<game, tasks, win, timers>>

\* close: the running command is asked to stop, but what it has already
\* asked of the game stands, and its callback will find no window.
CloseWindow ==
  /\ exists
  /\ exists' = FALSE
  /\ busy' = FALSE
  /\ batch' = NewBatch({})
  /\ waitRunning' = FALSE
  /\ timers' = 0
  /\ items' = {}
  /\ report' = "none"
  /\ UNCHANGED <<game, tasks, win>>

OpenWindow ==
  /\ ~exists /\ win < MaxWindows
  /\ win' = win + 1
  /\ exists' = TRUE
  /\ UNCHANGED <<game, tasks, busy, items, batch, report, waitRunning, timers>>

-----------------------------------------------------------------------------
(* The callbacks, run by TaskDispatcher._drain when a command has returned. *)

Returned(k, op)  == k \in tasks /\ k.op = op /\ k.res # "running"
Mine(k)          == exists /\ k.win = win
ForBatch(k, op)  == Returned(k, op) /\ Mine(k) /\ batch.live

\* The window is gone, or its batch is: the callback returns at once.
StaleResult(k) ==
  /\ k \in tasks /\ k.res # "running"
  /\ \/ ~Mine(k)
     \/ /\ k.op \notin {"inspect", "toggle", "restart"}
        /\ ~batch.live
  /\ tasks' = tasks \ {k}
  /\ waitRunning' = (waitRunning /\ ~(Mine(k) /\ k.op = "waitAny"))
  /\ UNCHANGED <<game, ui, batch, report, timers>>

IntelRefreshed(k) ==
  /\ Returned(k, "inspect") /\ Mine(k)
  /\ items' = k.found
  /\ busy' = FALSE
  /\ tasks' = tasks \ {k}
  /\ UNCHANGED <<game, win, exists, batch, report, waitRunning, timers>>

\* _world_toggled and _game_restarted.
PlainFinished(k) ==
  /\ Returned(k, "toggle") \/ Returned(k, "restart")
  /\ Mine(k)
  /\ items' = IF k.op = "restart" /\ k.res = "ok" THEN {} ELSE items
  /\ busy' = FALSE
  /\ tasks' = tasks \ {k}
  /\ UNCHANGED <<game, win, exists, batch, report, waitRunning, timers>>

\* _slot_dispatch_finished; mark_* raise unless the target is dispatching.
SlotDispatchFinished(k) ==
  /\ ForBatch(k, "march")
  /\ \A t \in k.ids : batch.state[t] = "dispatching"
  /\ DispatchNext(IF k.res = "ok" THEN MarkDispatched(batch, k.ids)
                                  ELSE MarkFailed(batch, k.ids),
                  tasks \ {k}, waitRunning)
  /\ UNCHANGED <<game, win, exists, items, timers>>

\* _slot_wait_finished
SlotWaitProved(k) ==
  /\ ForBatch(k, "waitAny") /\ k.res = "ok"
  /\ DispatchNext(MarkCompleted(batch, k.found), tasks \ {k}, FALSE)
  /\ UNCHANGED <<game, win, exists, items, timers>>

\* A mutant of SlotWaitFailed: no retry.
SlotWaitFailed_GivesUp(k) ==
  /\ ForBatch(k, "waitAny") /\ k.res # "ok"
  /\ waitRunning' = FALSE
  /\ tasks' = tasks \ {k}
  /\ UNCHANGED <<game, ui, batch, report, timers>>

\* A mutant of SlotWaitFailed: two timers.
SlotWaitFailed_RetriesTwice(k) ==
  /\ ForBatch(k, "waitAny") /\ k.res # "ok"
  /\ timers' = timers + 1
  /\ SlotRequestWait(batch, tasks \ {k}, FALSE)
  /\ UNCHANGED <<game, win, exists, items>>

SlotWaitFailed(k) ==
  /\ ForBatch(k, "waitAny") /\ k.res # "ok"
  /\ waitRunning' = FALSE
  /\ timers' = timers + 1
  /\ tasks' = tasks \ {k}
  /\ UNCHANGED <<game, ui, batch, report>>

RetryTimerFires ==
  /\ exists /\ timers > 0
  /\ timers' = timers - 1
  /\ IF batch.live THEN SlotRequestWait(batch, tasks, waitRunning)
     ELSE UNCHANGED <<batch, tasks, waitRunning, busy, report>>
  /\ UNCHANGED <<game, win, exists, items>>

\* Whatever the claim answered, its effect is read back independently.
ClaimFinished(k) ==
  /\ ForBatch(k, "claim")
  /\ SubmitFor([batch EXCEPT !.claimError = (@ \/ k.res # "ok")],
               tasks \ {k}, "waitAll", batch.targets)
  /\ UNCHANGED <<game, ui, report, waitRunning, timers>>

\* A mutant of ClaimVerified: of a reading that failed nothing remains.
ClaimVerified_NothingRemains(k) ==
  /\ ForBatch(k, "waitAll")
  /\ LET absent == k.res = "error" \/ k.found = batch.targets
         valid  == k.res = "ok" /\ absent
     IN  /\ FinishHuntBatch([batch EXCEPT !.claimVerified = absent,
                                          !.claimError = (@ \/ ~valid)],
                            tasks \ {k}, waitRunning)
         /\ items' = IF valid THEN items \ batch.targets ELSE items
  /\ UNCHANGED <<game, win, exists, timers>>

\* _claim_verified; found holds the targets seen MISSING.  A refused receipt
\* is an error, and yet it is asked which targets remain.
ClaimVerified(k) ==
  /\ ForBatch(k, "waitAll")
  /\ LET absent == k.res \in {"ok", "refused"} /\ k.found = batch.targets
         valid  == k.res = "ok" /\ absent
     IN  /\ FinishHuntBatch([batch EXCEPT !.claimVerified = absent,
                                          !.claimError = (@ \/ ~valid)],
                            tasks \ {k}, waitRunning)
         /\ items' = IF valid THEN items \ batch.targets ELSE items
  /\ UNCHANGED <<game, win, exists, timers>>

\* _final_hunt_reconciled
FinalReconciled(k) ==
  /\ ForBatch(k, "status")
  /\ LET b == IF k.res = "ok" THEN ReconcileTerminalOutcomes(batch, k.found)
                              ELSE batch
     IN  IF CanClaim(b) THEN StartClaim(b, tasks \ {k}, waitRunning)
                        ELSE FinishHuntBatch(b, tasks \ {k}, waitRunning)
  /\ UNCHANGED <<game, win, exists, items, timers>>

-----------------------------------------------------------------------------

Init ==
  /\ quest \in [Targets -> {"available", "missing"}]
  /\ onRole = TRUE
  /\ tasks = {}
  /\ win = 1
  /\ exists = TRUE
  /\ busy = FALSE
  /\ items = {}
  /\ batch = NewBatch({})
  /\ report = "none"
  /\ waitRunning = FALSE
  /\ timers = 0

Buttons == \/ RefreshIntel \/ ToggleWorld \/ RestartGame \/ StartHunt
           \/ CloseWindow \/ OpenWindow

Callback(k) == \/ StaleResult(k) \/ IntelRefreshed(k) \/ PlainFinished(k)
               \/ SlotDispatchFinished(k) \/ SlotWaitProved(k)
               \/ SlotWaitFailed(k) \/ ClaimFinished(k) \/ ClaimVerified(k)
               \/ FinalReconciled(k)

Next ==
  \/ Buttons
  \/ RetryTimerFires
  \/ \E k \in tasks : Callback(k)
  \/ (\E k \in tasks : CommandRuns(k)) /\ UNCHANGED <<ui, batch, report, waitRunning, timers>>
  \/ GameStep /\ UNCHANGED <<ui, batch, report, waitRunning, timers>>

Spec == Init /\ [][Next]_vars

-----------------------------------------------------------------------------
(* Fairness.  A command returns because every one of them has a deadline    *)
(* after which its process is killed; Tk runs due callbacks and drains the  *)
(* results every 80 ms; a march on the road comes home.  Strong fairness    *)
(* of StatusRead is an assumption on the device, not on the code: a status  *)
(* read that is retried for ever on the right role is not refused for ever. *)

Rest == UNCHANGED <<ui, batch, report, waitRunning, timers>>

Fairness ==
  /\ WF_vars(RetryTimerFires)
  /\ WF_vars(\E k \in tasks : Callback(k))
  /\ WF_vars((\E k \in tasks : CommandRuns(k)) /\ Rest)
  /\ SF_vars((\E k \in tasks : k.win = win /\ StatusRead(k)) /\ Rest)
  /\ \A t \in Targets : WF_vars(MarchReturns(t) /\ Rest)

FairSpec == Spec /\ Fairness

-----------------------------------------------------------------------------
(* Properties *)

TypeOK ==
  /\ quest \in [Targets -> QuestStates]
  /\ onRole \in BOOLEAN
  /\ tasks \subseteq Tasks
  /\ win \in 1..MaxWindows
  /\ exists \in BOOLEAN
  /\ busy \in BOOLEAN
  /\ items \subseteq Targets
  /\ batch \in Batches
  /\ report \in Reports
  /\ waitRunning \in BOOLEAN
  /\ timers \in 0..1

Outstanding == {k \in tasks : Mine(k)}

\* "One control flow at a time": of everything a window may have started (a
\* command of any kind, a retry timer) at most one thing is outstanding, and
\* the window is busy exactly as long as there is one.  More than one would
\* run two commands in one game process; none while busy would leave the
\* window locked for ever, since only callbacks end a batch.
OneOperationAtATime ==
  /\ \A j, k \in Outstanding : j = k
  /\ Outstanding # {} => timers = 0
  /\ exists => (busy <=> Outstanding # {} \/ timers > 0)

\* Whenever a command of the batch comes back the batch is still in the
\* state it was submitted from, so that mark_dispatched and mark_failed do
\* not raise: _drain would swallow the exception and the batch would stop.
ReceiptsFindTheirTarget ==
  \A k \in Outstanding :
    /\ k.op = "march" =>
         k.ids # {} /\ k.ids = IdsIn(batch, {"dispatching"})
    /\ k.op = "waitAny" =>
         /\ waitRunning
         /\ k.ids # {} /\ k.ids = IdsIn(batch, {"active"})
         /\ IdsIn(batch, {"dispatching"}) = {}
    /\ k.op \in {"status", "claim", "waitAll"} =>
         batch.live /\ k.ids = batch.targets /\ Complete(batch)

\* The batch never holds more monster slots than the frozen concurrency.
SlotsBounded == ActiveMonsterCount(batch) <= Concurrency

\* _slot_request_wait only waits when there is nothing left to dispatch: a
\* free slot with a monster pending would stay empty until some other march
\* returned.
WaitsOnlyWhenFull ==
  \A k \in Outstanding : k.op = "waitAny" => Dispatchable(batch) = {}

\* An outcome of success or reconciled is true of the game, whatever the
\* player did meanwhile: receipts are read before they are applied, and the
\* role may have been switched in between.
ResolvedIsReal ==
  \A t \in batch.targets :
    batch.outcome[t] \in {"success", "reconciled"} => Terminal(t)

\* While the one-click claim is outstanding no target of the batch is
\* unfinished in the game and none has an unresolved failure.
ClaimOnlyWhenAllDone ==
  \A k \in Outstanding : k.op = "claim" =>
    \A t \in batch.targets :
      Terminal(t) /\ batch.outcome[t] \in {"success", "reconciled"}

\* What the batch promises, as IntelBatch states it.
Status(t) ==
  IF t \notin batch.targets THEN "idle"
  ELSE CASE batch.state[t] = "pending" -> "open"
         [] batch.state[t] \in {"dispatching", "active"} -> "underway"
         [] batch.state[t] = "failed" -> "unresolved"
         [] OTHER -> "done"

\* Whether the reading after the claim was made of another role.
Misled == \E k \in Outstanding : k.op = "waitAll" /\ k.res = "refused"

Claim ==
  IF ~batch.claimAttempted THEN "none"
  ELSE IF Misled THEN "misread" ELSE "requested"

Promise == INSTANCE IntelBatch WITH
  running <- batch.live,
  status  <- [t \in Targets |-> Status(t)],
  claim   <- Claim

KeepsPromise == Promise!Spec

\* With the game left on its role, a batch that is started comes to its end:
\* every retry of a wait, every failed dispatch and every verification that
\* fails still leads on.
BatchEnds == <>[]onRole => (batch.live ~> ~batch.live)

\* README.md: switching the role while a batch runs stops it at once.
RoleSwitchStopsBatch == <>[](~onRole) => (batch.live ~> ~batch.live)

=============================================================================
