--------------------------- MODULE HuntSlotsProofs ---------------------------
(***************************************************************************)
(* The safety of HuntSlots for every number of targets, every concurrency  *)
(* and every number of windows.  No property of HuntSlots is inductive by  *)
(* itself: what a command may find when it returns depends on what the     *)
(* batch was when it was submitted.  IInv says, for each kind of command,  *)
(* what the batch must look like while that command is outstanding.        *)
(* The second half proves that HuntSlots implements IntelBatch.            *)
(***************************************************************************)
EXTENDS HuntSlots, TLAPS, FiniteSetTheorems, WellFoundedInduction

\* The states a target never leaves, but for a failure that is reconciled.
Final == {"success", "failed", "reconciled"}

BatchOps == {"march", "waitAny", "waitAll", "status", "claim"}

\* A batch on its way.
Consistent(b) ==
  /\ b \in Batches
  /\ b.live
  /\ b.targets # {}
  /\ \A t \in Targets : b.state[t] = "none" <=> t \notin b.targets
  /\ \A t \in Targets :
       b.outcome[t] = IF b.state[t] \in Final THEN b.state[t] ELSE "none"
  /\ ~b.claimVerified
  /\ b.claimAttempted => CanClaim(b)
  /\ ActiveMonsterCount(b) <= Concurrency
  /\ \A t \in b.targets :
       b.state[t] \in {"success", "reconciled"} => Terminal(t)

\* The batch waits for some march, having nothing it could dispatch.
Waits(b) ==
  /\ b.live /\ ~b.claimAttempted
  /\ IdsIn(b, {"active"}) # {}
  /\ IdsIn(b, {"dispatching"}) = {}
  /\ Dispatchable(b) = {}

\* The state b a batch is in while it waits for command k.
Awaits(b, k) ==
  /\ k.op \in BatchOps <=> b.live
  /\ k.op = "march" => /\ ~b.claimAttempted
                       /\ k.ids # {}
                       /\ k.ids = IdsIn(b, {"dispatching"})
  /\ k.op = "waitAny" => Waits(b) /\ k.ids = IdsIn(b, {"active"})
  /\ k.op \in {"status", "claim", "waitAll"} => k.ids = b.targets /\ Complete(b)
  /\ k.op = "status" => ~b.claimAttempted
  /\ k.op \in {"claim", "waitAll"} => b.claimAttempted

\* What a receipt says of the game stays true until its callback runs.
Truthful(k) ==
  k.res = "ok" =>
    /\ k.op \in {"waitAny", "status"} => \A t \in k.found : Terminal(t)
    /\ k.op = "waitAll" => \A t \in k.found : quest[t] = "missing"

WindowOK ==
  /\ \A k \in tasks : k.win <= win
  /\ ~exists => ~busy /\ timers = 0
  /\ batch.live => busy
  /\ ~batch.live => batch = NewBatch({})
  /\ waitRunning <=> \E k \in Outstanding : k.op = "waitAny"

IInv ==
  /\ TypeOK
  /\ WindowOK
  /\ OneOperationAtATime
  /\ batch.live => Consistent(batch)
  /\ \A k \in Outstanding : Awaits(batch, k) /\ Truthful(k)
  /\ timers > 0 => Waits(batch)

-----------------------------------------------------------------------------
(* Sets of targets *)

LEMMA FiniteTargets ==
  ASSUME NEW S \in SUBSET Targets
  PROVE  IsFiniteSet(S) /\ Cardinality(S) \in Nat
<1>1. IsFiniteSet(Targets)
  BY FS_Interval, TargetsAssumption DEF Targets
<1>2. IsFiniteSet(S)
  BY <1>1, FS_Subset
<1> QED
  BY <1>2, FS_CardinalityType

\* The canonical order picks one of the targets it is asked about: of the
\* intervals 1..t that end in one of them, one holds no other.
LEMMA FirstOfIsMember ==
  ASSUME NEW S \in SUBSET Targets, S # {}
  PROVE  FirstOf(S) \in S
<1> DEFINE Below == {1..t : t \in S}
<1>1. S \subseteq Nat
  BY TargetsAssumption DEF Targets
<1>2. Below \subseteq FiniteSubsetsOf(Targets) /\ Below # {}
  <2>1. \A t \in S : 1..t \in SUBSET Targets
    BY TargetsAssumption DEF Targets
  <2>2. \A t \in S : IsFiniteSet(1..t)
    BY <2>1, FiniteTargets
  <2> QED
    BY <2>1, <2>2 DEF FiniteSubsetsOf
<1> HIDE DEF Below
<1>3. PICK I \in Below :
        \A J \in Below : <<J, I>> \notin StrictSubsetOrdering(Targets)
  BY <1>2, FS_StrictSubsetOrderingWellFounded, WFMin, Zenon
<1>4. PICK t \in S : I = 1..t
  BY DEF Below
<1>5. ASSUME NEW u \in S, u < t PROVE FALSE
  <2>1. 1..u \in Below
    BY DEF Below
  <2>2. 1..u \subseteq 1..t /\ 1..u # 1..t
    <3>1. t \in 1..t /\ t \notin 1..u
      BY <1>1, <1>5, TargetsAssumption DEF Targets
    <3>2. 1..u \subseteq 1..t
      BY <1>1, <1>5
    <3> QED
      BY <3>1, <3>2
  <2>3. 1..u \in SUBSET Targets /\ 1..t \in SUBSET Targets
    BY TargetsAssumption DEF Targets
  <2> QED
    BY <2>1, <2>2, <2>3, <1>3, <1>4 DEF StrictSubsetOrdering
<1>6. \A u \in S : t <= u
  BY <1>1, <1>5
<1> QED
  BY <1>6 DEF FirstOf

\* A batch that marks some targets and takes no new monster slot.
LEMMA SlotsShrink ==
  ASSUME NEW b, NEW c, b.targets \subseteq Targets,
         IdsIn(c, {"active", "dispatching"})
           \subseteq IdsIn(b, {"active", "dispatching"}),
         ActiveMonsterCount(b) <= Concurrency
  PROVE  ActiveMonsterCount(c) <= Concurrency
<1> DEFINE S == IdsIn(b, {"active", "dispatching"}) \cap Monsters
           T == IdsIn(c, {"active", "dispatching"}) \cap Monsters
<1>1. S \in SUBSET Targets /\ T \in SUBSET S
  BY DEF IdsIn
<1>2. Cardinality(T) <= Cardinality(S)
  BY <1>1, FiniteTargets, FS_Subset
<1>3. Cardinality(S) \in Nat /\ Cardinality(T) \in Nat
  BY <1>1, FiniteTargets
<1> QED
  BY <1>2, <1>3, SlotsAssumption DEF ActiveMonsterCount

\* With nothing on its way, every pending target may be dispatched.
LEMMA NothingUnderwayNothingBlocked ==
  ASSUME NEW b, IdsIn(b, {"active"}) = {}, IdsIn(b, {"dispatching"}) = {},
         Dispatchable(b) = {}
  PROVE  Complete(b)
<1>1. IdsIn(b, {"active", "dispatching"}) = {}
  BY DEF IdsIn
<1>2. ActiveMonsterCount(b) < Concurrency
  BY <1>1, FS_EmptySet, SlotsAssumption DEF ActiveMonsterCount
<1>3. IdsIn(b, {"pending"}) = {}
  BY <1>2 DEF Dispatchable
<1> QED
  BY <1>1, <1>3 DEF Complete, IdsIn

-----------------------------------------------------------------------------
(* What a callback leaves behind: one outstanding command, or nothing. *)

\* A batch that may be in the window: the one on its way, or none.
Sound(b) ==
  /\ b \in Batches
  /\ b.live => Consistent(b)
  /\ ~b.live => b = NewBatch({})

\* The commands other windows left behind, once the callback's own is gone.
Leftover(rest) == rest \in SUBSET tasks /\ \A j \in rest : j.win # win

LEMMA ReceiptTaken ==
  ASSUME OneOperationAtATime, NEW k \in Outstanding
  PROVE  Leftover(tasks \ {k})
BY DEF OneOperationAtATime, Outstanding, Mine, Leftover

LEMMA NoBatchIsSound ==
  NewBatch({}) \in Batches /\ ~NewBatch({}).live
BY DEF NewBatch, Batches, TargetStates, Outcomes

LEMMA SubmitKeepsIInv ==
  ASSUME TypeOK, WindowOK, exists,
         NEW b, Sound(b), NEW rest, Leftover(rest),
         NEW op \in Ops, NEW ids \in SUBSET Targets,
         Awaits(b, Task(op, win, ids)),
         SubmitFor(b, rest, op, ids),
         UNCHANGED <<game, win, exists>>,
         busy' = TRUE, timers' = 0, waitRunning' = (op = "waitAny"),
         items' \in SUBSET Targets, report' \in Reports
  PROVE  IInv'
<1> DEFINE k == Task(op, win, ids)
<1>1. tasks' = rest \cup {k} /\ batch' = b
  BY DEF SubmitFor
<1>2. k \in Tasks /\ k.win = win /\ k.op = op /\ k.res = "running"
  BY DEF TypeOK, Task, Tasks, Results
<1>3. Outstanding' = {k}
  BY <1>1, <1>2 DEF Outstanding, Mine, Leftover
<1>4. TypeOK'
  BY <1>1, <1>2 DEF TypeOK, Leftover, Sound, game
<1>5. WindowOK'
  <2>1. \A j \in tasks' : j.win <= win'
    BY <1>1, <1>2 DEF WindowOK, Leftover, TypeOK
  <2>2. batch'.live => busy'
    OBVIOUS
  <2>3. ~batch'.live => batch' = NewBatch({})
    BY <1>1 DEF Sound
  <2>4. waitRunning' <=> \E j \in Outstanding' : j.op = "waitAny"
    BY <1>2, <1>3
  <2> QED
    BY <2>1, <2>2, <2>3, <2>4 DEF WindowOK
<1>6. OneOperationAtATime'
  <2>1. Outstanding' # {} /\ timers' = 0 /\ exists' /\ busy'
    BY <1>3
  <2> QED
    BY <1>3, <2>1 DEF OneOperationAtATime
<1>7. batch'.live => Consistent(batch)'
  BY <1>1 DEF Sound, Consistent, Terminal, game
<1>8. \A j \in Outstanding' : Awaits(batch', j) /\ Truthful(j)'
  BY <1>1, <1>2, <1>3 DEF Truthful
<1> QED
  BY <1>4, <1>5, <1>6, <1>7, <1>8 DEF IInv

LEMMA IdleKeepsIInv ==
  ASSUME TypeOK, WindowOK, NEW rest, Leftover(rest),
         batch' = NewBatch({}), tasks' = rest,
         UNCHANGED <<game, win, exists>>,
         busy' = FALSE, timers' = 0, waitRunning' = FALSE,
         items' \in SUBSET Targets, report' \in Reports
  PROVE  IInv'
<1>1. Outstanding' = {}
  BY DEF Outstanding, Mine, Leftover
<1>2. TypeOK'
  <2>1. batch' \in Batches
    BY NoBatchIsSound
  <2>2. busy' \in BOOLEAN /\ waitRunning' \in BOOLEAN
    BY Zenon
  <2>3. timers' \in 0..1
    OBVIOUS
  <2>4. tasks' \subseteq Tasks
    BY DEF TypeOK, Leftover
  <2> QED
    BY <2>1, <2>2, <2>3, <2>4 DEF TypeOK, game
<1>3. WindowOK'
  BY <1>1, NoBatchIsSound DEF WindowOK, Leftover
<1>4. OneOperationAtATime'
  BY <1>1 DEF OneOperationAtATime
<1> QED
  BY <1>1, <1>2, <1>3, <1>4, NoBatchIsSound DEF IInv

-----------------------------------------------------------------------------
(* The controller's helpers, each called by a callback of a running batch. *)

\* The frame of a step that the window's own thread takes ...
InWindow ==
  /\ TypeOK /\ WindowOK /\ exists
  /\ UNCHANGED <<game, win, exists>>
  /\ timers' = 0
  /\ items' \in SUBSET Targets

\* ... and of one it takes for a batch that is on its way.
InCallback == InWindow /\ busy

\* Only its flags tell c from b.
LEMMA FlagsKeepConsistent ==
  ASSUME NEW b, Consistent(b), NEW c \in Batches,
         c.live, c.targets = b.targets, c.state = b.state,
         c.outcome = b.outcome, ~c.claimVerified,
         c.claimAttempted => CanClaim(b)
  PROVE  Consistent(c)
<1>1. \A S : IdsIn(c, S) = IdsIn(b, S)
  BY DEF IdsIn
<1>2. CanClaim(c) <=> CanClaim(b)
  BY <1>1 DEF CanClaim, Complete
<1>3. ActiveMonsterCount(c) = ActiveMonsterCount(b)
  BY <1>1 DEF ActiveMonsterCount
<1> QED
  BY <1>2, <1>3 DEF Consistent

LEMMA FinishKeepsIInv ==
  ASSUME InCallback, NEW b \in Batches, b.live, Complete(b),
         b.claimAttempted \/ Consistent(b),
         NEW rest, Leftover(rest), FinishHuntBatch(b, rest, FALSE)
  PROVE  IInv'
<1>1. CASE NeedsFinalReconcile(b)
  <2> DEFINE c == [b EXCEPT !.finalReconcileAttempted = TRUE]
  <2>1. /\ SubmitFor(c, rest, "status", b.targets)
        /\ waitRunning' = FALSE /\ UNCHANGED <<busy, report>>
    BY <1>1 DEF FinishHuntBatch
  <2>2. Consistent(b) /\ ~b.claimAttempted
    BY <1>1 DEF NeedsFinalReconcile
  <2>3. /\ c \in Batches /\ c.live /\ c.targets = b.targets
        /\ c.state = b.state /\ c.outcome = b.outcome
        /\ ~c.claimVerified /\ ~c.claimAttempted
    BY <2>2 DEF Batches, Consistent
  <2>4. Consistent(c)
    BY <2>2, <2>3, FlagsKeepConsistent
  <2>5. Sound(c)
    BY <2>3, <2>4 DEF Sound
  <2>6. Awaits(c, Task("status", win, b.targets))
    BY <2>3 DEF Awaits, Task, BatchOps, Complete, IdsIn
  <2>7. "status" \in Ops /\ b.targets \in SUBSET Targets
    BY DEF Ops, Batches
  <2>8. busy' = TRUE /\ waitRunning' = ("status" = "waitAny")
    BY <2>1 DEF InCallback, InWindow, TypeOK
  <2>9. report' \in Reports
    BY <2>1 DEF InCallback, InWindow, TypeOK
  <2> HIDE DEF c
  <2> QED
    BY <2>1, <2>5, <2>6, <2>7, <2>8, <2>9, SubmitKeepsIInv DEF InCallback, InWindow
<1>2. CASE ~NeedsFinalReconcile(b)
  <2>1. /\ batch' = NewBatch({}) /\ tasks' = rest
        /\ busy' = FALSE /\ waitRunning' = FALSE /\ report' = Summary(b)
    BY <1>2 DEF FinishHuntBatch
  <2>2. report' \in Reports
    BY <2>1 DEF Summary, Reports
  <2> QED
    BY <2>1, <2>2, IdleKeepsIInv DEF InCallback, InWindow
<1> QED
  BY <1>1, <1>2

LEMMA ClaimKeepsIInv ==
  ASSUME InCallback, NEW b, Consistent(b), Complete(b),
         NEW rest, Leftover(rest), StartClaim(b, rest, FALSE)
  PROVE  IInv'
<1>1. CASE CanClaim(b) /\ ~b.claimAttempted
  <2> DEFINE c == [b EXCEPT !.claimAttempted = TRUE]
  <2>1. /\ SubmitFor(c, rest, "claim", b.targets)
        /\ waitRunning' = FALSE /\ UNCHANGED <<busy, report>>
    BY <1>1 DEF StartClaim
  <2>2. /\ c \in Batches /\ c.live /\ c.targets = b.targets
        /\ c.state = b.state /\ c.outcome = b.outcome
        /\ ~c.claimVerified /\ c.claimAttempted
    BY DEF Batches, Consistent
  <2>3. Consistent(c)
    BY <1>1, <2>2, FlagsKeepConsistent
  <2>4. Sound(c)
    BY <2>2, <2>3 DEF Sound
  <2>5. Awaits(c, Task("claim", win, b.targets))
    BY <2>2 DEF Awaits, Task, BatchOps, Complete, IdsIn
  <2>6. "claim" \in Ops /\ b.targets \in SUBSET Targets
    BY DEF Ops, Batches, Consistent
  <2>7. busy' = TRUE /\ waitRunning' = ("claim" = "waitAny")
    BY <2>1 DEF InCallback, InWindow, TypeOK
  <2>8. report' \in Reports
    BY <2>1 DEF InCallback, InWindow, TypeOK
  <2> HIDE DEF c
  <2> QED
    BY <2>1, <2>4, <2>5, <2>6, <2>7, <2>8, SubmitKeepsIInv DEF InCallback, InWindow
<1>2. CASE ~(CanClaim(b) /\ ~b.claimAttempted)
  <2>1. FinishHuntBatch(b, rest, FALSE)
    BY <1>2 DEF StartClaim
  <2>2. b \in Batches /\ b.live
    BY DEF Consistent
  <2> QED
    BY <2>1, <2>2, FinishKeepsIInv
<1> QED
  BY <1>1, <1>2

LEMMA WaitKeepsIInv ==
  ASSUME InCallback, NEW b, Consistent(b), Waits(b),
         NEW rest, Leftover(rest), SlotRequestWait(b, rest, FALSE)
  PROVE  IInv'
<1> DEFINE ids == IdsIn(b, {"active"})
<1>1. /\ SubmitFor(b, rest, "waitAny", ids)
      /\ waitRunning' = TRUE /\ UNCHANGED <<busy, report>>
  BY DEF SlotRequestWait, Waits
<1>2. Sound(b)
  BY DEF Sound, Consistent
<1>3. Awaits(b, Task("waitAny", win, ids))
  BY DEF Awaits, Task, BatchOps, Waits
<1>4. "waitAny" \in Ops /\ ids \in SUBSET Targets
  BY DEF Ops, Batches, Consistent, IdsIn
<1>5. busy' = TRUE /\ waitRunning' = ("waitAny" = "waitAny")
  BY <1>1 DEF InCallback, InWindow, TypeOK
<1>6. report' \in Reports
  BY <1>1 DEF InCallback, InWindow, TypeOK
<1> HIDE DEF ids
<1> QED
  BY <1>1, <1>2, <1>3, <1>4, <1>5, <1>6, SubmitKeepsIInv DEF InCallback, InWindow

\* c is b with the targets of S marked s.
Marks(b, c, S, s) ==
  /\ c \in Batches
  /\ c.live = b.live
  /\ c.targets = b.targets
  /\ c.claimAttempted = b.claimAttempted
  /\ c.claimVerified = b.claimVerified
  /\ \A t \in Targets : c.state[t] = IF t \in S THEN s ELSE b.state[t]
  /\ \A t \in Targets :
       c.outcome[t] = IF t \in S /\ s \in Final THEN s ELSE b.outcome[t]

LEMMA SetStateMarks ==
  ASSUME NEW b \in Batches, NEW S, NEW s \in TargetStates \ Final
  PROVE  Marks(b, SetState(b, S, s), S, s)
BY DEF SetState, Batches, Marks

LEMMA RecordMarks ==
  ASSUME NEW b \in Batches, NEW S, NEW s \in Final
  PROVE  Marks(b, Record(b, S, s), S, s)
<1> DEFINE d == SetState(b, S, s)
           f == [t \in Targets |-> IF t \in S THEN s ELSE b.outcome[t]]
           c == Record(b, S, s)
<1>1. /\ d \in Batches
      /\ d.live = b.live /\ d.targets = b.targets
      /\ d.claimAttempted = b.claimAttempted
      /\ d.claimVerified = b.claimVerified
      /\ \A t \in Targets : d.state[t] = IF t \in S THEN s ELSE b.state[t]
  BY DEF SetState, Batches, TargetStates, Final
<1>2. f \in [Targets -> Outcomes]
  BY DEF Batches, Outcomes, Final
<1>3. c = [d EXCEPT !.outcome = f]
  BY DEF Record
<1> HIDE DEF d, c
<1>4. /\ c \in Batches
      /\ c.live = d.live /\ c.targets = d.targets /\ c.state = d.state
      /\ c.outcome = f
      /\ c.claimAttempted = d.claimAttempted
      /\ c.claimVerified = d.claimVerified
  <2> HIDE DEF f
  <2> QED
    BY <1>1, <1>2, <1>3 DEF Batches
<1>5. Marks(b, c, S, s)
  BY <1>1, <1>4 DEF Marks
<1> QED
  BY <1>5 DEF c

\* A batch stays consistent when targets on their way are marked, as long as
\* it keeps to its slots and calls done only what is done.
LEMMA MarkKeepsConsistent ==
  ASSUME NEW b, Consistent(b), ~b.claimAttempted,
         NEW S \in SUBSET b.targets, NEW s \in TargetStates \ {"none"},
         s \notin Final => \A t \in S : b.state[t] \notin Final,
         s \in {"success", "reconciled"} => \A t \in S : Terminal(t),
         NEW c, Marks(b, c, S, s), ActiveMonsterCount(c) <= Concurrency
  PROVE  Consistent(c)
<1> USE DEF Final
<1>1. \A t \in Targets : c.state[t] = "none" <=> t \notin c.targets
  BY DEF Consistent, TargetStates, Marks
<1>2. \A t \in Targets :
        c.outcome[t] = IF c.state[t] \in Final THEN c.state[t] ELSE "none"
  BY DEF Consistent, Marks
<1>3. \A t \in c.targets :
        c.state[t] \in {"success", "reconciled"} => Terminal(t)
  <2> SUFFICES ASSUME NEW t \in c.targets,
                      c.state[t] \in {"success", "reconciled"}
               PROVE  Terminal(t)
    OBVIOUS
  <2>1. t \in Targets /\ t \in b.targets
    BY DEF Batches, Marks
  <2>2. CASE t \in S
    BY <2>1, <2>2 DEF Marks
  <2>3. CASE t \notin S
    BY <2>1, <2>3 DEF Consistent, Marks
  <2> QED
    BY <2>2, <2>3
<1> QED
  BY <1>1, <1>2, <1>3 DEF Consistent, Marks

LEMMA DispatchKeepsIInv ==
  ASSUME InWindow, NEW b, Consistent(b), ~b.claimAttempted,
         IdsIn(b, {"dispatching"}) = {}, Dispatchable(b) # {},
         NEW rest, Leftover(rest), Dispatch(b, rest),
         busy' = TRUE, waitRunning' = FALSE, report' \in Reports
  PROVE  IInv'
<1> DEFINE t == FirstOf(Dispatchable(b))
           c == SetState(b, {t}, "dispatching")
<1>1. b \in Batches /\ b.targets \in SUBSET Targets
  BY DEF Consistent, Batches
<1>2. t \in Dispatchable(b)
  BY <1>1, FirstOfIsMember DEF Dispatchable, IdsIn
<1>3. /\ t \in b.targets /\ t \in Targets /\ b.state[t] = "pending"
      /\ t \in Monsters => ActiveMonsterCount(b) < Concurrency
  BY <1>1, <1>2 DEF Dispatchable, IdsIn
<1>4. SubmitFor(c, rest, "march", {t})
  BY DEF Dispatch
<1> HIDE DEF t
<1>5. Marks(b, c, {t}, "dispatching")
  BY <1>1, SetStateMarks DEF TargetStates, Final
<1> HIDE DEF c
<1>6. ActiveMonsterCount(c) <= Concurrency
  <2> DEFINE A(x) == IdsIn(x, {"active", "dispatching"}) \cap Monsters
  <2>1. A(b) \in SUBSET Targets
    BY <1>1 DEF IdsIn
  <2>2. IsFiniteSet(A(b)) /\ Cardinality(A(b)) \in Nat
    BY <2>1, FiniteTargets
  <2>3. Cardinality(A(b)) <= Concurrency
    BY DEF Consistent, ActiveMonsterCount
  <2>4. CASE t \in Monsters
    <3>1. A(c) = A(b) \cup {t} /\ t \notin A(b)
      BY <1>1, <1>3, <1>5, <2>4 DEF IdsIn, Marks
    <3>2. Cardinality(A(c)) = Cardinality(A(b)) + 1
      BY <2>2, <3>1, FS_AddElement
    <3>3. Cardinality(A(b)) < Concurrency
      BY <1>3, <2>4 DEF ActiveMonsterCount
    <3> QED
      BY <2>2, <3>2, <3>3, SlotsAssumption DEF ActiveMonsterCount
  <2>5. CASE t \notin Monsters
    <3>1. A(c) = A(b)
      BY <1>1, <1>3, <1>5, <2>5 DEF IdsIn, Marks
    <3> QED
      BY <2>3, <3>1 DEF ActiveMonsterCount
  <2> QED
    BY <2>4, <2>5
<1>7. Consistent(c)
  <2>1. {t} \in SUBSET b.targets /\ \A u \in {t} : b.state[u] \notin Final
    BY <1>3 DEF Final
  <2>2. "dispatching" \in TargetStates \ {"none"}
    BY DEF TargetStates
  <2>3. "dispatching" \notin Final
    BY DEF Final
  <2> QED
    BY <1>5, <1>6, <2>1, <2>2, <2>3, MarkKeepsConsistent
<1>8. Sound(c)
  BY <1>7 DEF Sound, Consistent
<1>9. Awaits(c, Task("march", win, {t}))
  <2>1. IdsIn(c, {"dispatching"}) = {t}
    BY <1>1, <1>3, <1>5 DEF IdsIn, Marks
  <2> QED
    BY <1>5, <1>7, <2>1 DEF Awaits, Task, BatchOps, Consistent, Marks
<1>10. "march" \in Ops /\ {t} \in SUBSET Targets /\ waitRunning' = ("march" = "waitAny")
  BY <1>3 DEF Ops
<1> QED
  BY <1>4, <1>8, <1>9, <1>10, SubmitKeepsIInv DEF InWindow

LEMMA DispatchNextKeepsIInv ==
  ASSUME InCallback, NEW b, Consistent(b), ~b.claimAttempted,
         IdsIn(b, {"dispatching"}) = {},
         NEW rest, Leftover(rest), DispatchNext(b, rest, FALSE)
  PROVE  IInv'
<1>1. b \in Batches /\ b.live
  BY DEF Consistent
<1>2. busy = TRUE /\ report \in Reports
  BY DEF InCallback, InWindow, TypeOK
<1>3. CASE Complete(b) /\ CanClaim(b) /\ StartClaim(b, rest, FALSE)
  BY <1>3, ClaimKeepsIInv
<1>4. CASE Complete(b) /\ ~CanClaim(b) /\ FinishHuntBatch(b, rest, FALSE)
  BY <1>1, <1>4, FinishKeepsIInv
<1>5. CASE /\ Dispatchable(b) # {} /\ Dispatch(b, rest)
           /\ waitRunning' = FALSE /\ UNCHANGED <<busy, report>>
  BY <1>2, <1>5, DispatchKeepsIInv DEF InCallback
<1>6. CASE /\ ~Complete(b) /\ Dispatchable(b) = {}
           /\ SlotRequestWait(b, rest, FALSE)
  <2>1. Waits(b)
    BY <1>1, <1>6, NothingUnderwayNothingBlocked DEF Waits
  <2> QED
    BY <1>6, <2>1, WaitKeepsIInv
<1> QED
  BY <1>3, <1>4, <1>5, <1>6 DEF DispatchNext

-----------------------------------------------------------------------------
(* The buttons *)

\* A window that is not busy has nothing outstanding and no batch.
LEMMA NotBusyMeansIdle ==
  ASSUME IInv, exists, ~busy
  PROVE  /\ Outstanding = {} /\ Leftover(tasks)
         /\ timers = 0 /\ ~waitRunning
         /\ ~batch.live /\ Sound(batch)
<1>1. Outstanding = {} /\ timers = 0
  BY DEF IInv, OneOperationAtATime, TypeOK
<1>2. Leftover(tasks)
  BY <1>1 DEF Outstanding, Mine, Leftover
<1>3. ~waitRunning /\ ~batch.live
  BY <1>1 DEF IInv, WindowOK
<1> QED
  BY <1>1, <1>2, <1>3 DEF IInv, TypeOK, WindowOK, Sound

LEMMA SubmitStep ==
  ASSUME IInv, NEW op \in Ops \ BatchOps, Submit(op), items' \in SUBSET Targets
  PROVE  IInv'
<1>1. exists /\ ~busy
  BY DEF Submit
<1>2. /\ Leftover(tasks) /\ timers = 0 /\ ~waitRunning
      /\ ~batch.live /\ Sound(batch)
  BY <1>1, NotBusyMeansIdle
<1>3. SubmitFor(batch, tasks, op, {})
  BY DEF Submit, SubmitFor
<1>4. Awaits(batch, Task(op, win, {}))
  BY <1>2 DEF Awaits, Task, BatchOps
<1>5. TypeOK /\ WindowOK
  BY DEF IInv
<1>6. waitRunning = FALSE
  BY <1>2, <1>5 DEF TypeOK
<1>7. waitRunning' = (op = "waitAny")
  <2>1. op # "waitAny"
    BY DEF BatchOps
  <2>2. waitRunning' = FALSE
    BY <1>6 DEF Submit
  <2> QED
    BY <2>1, <2>2
<1>8. /\ UNCHANGED <<game, win, exists>> /\ busy' = TRUE /\ timers' = 0
      /\ report' \in Reports
  BY <1>2, <1>5 DEF Submit, TypeOK
<1> QED
  BY <1>1, <1>2, <1>3, <1>4, <1>5, <1>7, <1>8, SubmitKeepsIInv

LEMMA NewBatchIsConsistent ==
  ASSUME NEW T \in SUBSET Targets, T # {}
  PROVE  /\ Consistent(NewBatch(T)) /\ ~NewBatch(T).claimAttempted
         /\ IdsIn(NewBatch(T), {"dispatching"}) = {}
         /\ Dispatchable(NewBatch(T)) # {}
<1> DEFINE b == NewBatch(T)
<1>1. /\ b \in Batches /\ b.live /\ b.targets = T
      /\ ~b.claimAttempted /\ ~b.claimVerified
      /\ \A t \in Targets : /\ b.state[t] = IF t \in T THEN "pending" ELSE "none"
                            /\ b.outcome[t] = "none"
  BY DEF NewBatch, Batches, TargetStates, Outcomes
<1> HIDE DEF b
<1>2. /\ IdsIn(b, {"dispatching"}) = {} /\ IdsIn(b, {"active"}) = {}
      /\ IdsIn(b, {"active", "dispatching"}) = {}
  BY <1>1 DEF IdsIn
<1>3. ActiveMonsterCount(b) = 0
  BY <1>2, FS_EmptySet DEF ActiveMonsterCount
<1>4. Consistent(b)
  BY <1>1, <1>3, SlotsAssumption DEF Consistent, Final
<1>5. ~Complete(b)
  BY <1>1 DEF Complete, IdsIn
<1>6. Dispatchable(b) # {}
  BY <1>2, <1>5, NothingUnderwayNothingBlocked
<1> QED
  BY <1>1, <1>2, <1>4, <1>6 DEF b

LEMMA StartHuntStep ==
  ASSUME IInv, StartHunt
  PROVE  IInv'
<1>1. exists /\ ~busy
  BY DEF StartHunt
<1>2. Leftover(tasks) /\ timers = 0
  BY <1>1, NotBusyMeansIdle
<1>3. TypeOK /\ WindowOK
  BY DEF IInv
<1>4. PICK T \in (SUBSET items) \ {{}} : Dispatch(NewBatch(T), tasks)
  BY DEF StartHunt
<1>5. T \in SUBSET Targets /\ T # {}
  BY <1>3 DEF TypeOK
<1>6. /\ UNCHANGED <<game, win, exists>> /\ busy' = TRUE /\ timers' = 0
      /\ waitRunning' = FALSE /\ report' \in Reports /\ items' \in SUBSET Targets
  BY <1>2, <1>3 DEF StartHunt, TypeOK, Reports
<1> QED
  BY <1>1, <1>2, <1>3, <1>4, <1>5, <1>6, NewBatchIsConsistent, DispatchKeepsIInv
     DEF InWindow

LEMMA CloseWindowStep ==
  ASSUME IInv, CloseWindow
  PROVE  IInv'
<1>1. TypeOK /\ WindowOK
  BY DEF IInv
<1>2. /\ UNCHANGED <<game, tasks, win>> /\ ~exists' /\ batch' = NewBatch({})
      /\ items' = {} /\ report' = "none" /\ timers' = 0
  BY DEF CloseWindow
<1>3. busy' = FALSE /\ waitRunning' = FALSE /\ exists' = FALSE
  BY DEF CloseWindow
<1>4. Outstanding' = {}
  BY <1>2 DEF Outstanding, Mine
<1>5. TypeOK'
  <2>1. busy' \in BOOLEAN /\ waitRunning' \in BOOLEAN /\ exists' \in BOOLEAN
    BY <1>3, Zenon
  <2>2. timers' \in 0..1 /\ report' \in Reports /\ items' \subseteq Targets
    BY <1>2 DEF Reports
  <2>3. batch' \in Batches
    BY <1>2, NoBatchIsSound
  <2> QED
    BY <1>1, <1>2, <2>1, <2>2, <2>3 DEF TypeOK, game
<1>6. WindowOK'
  BY <1>1, <1>2, <1>3, <1>4, NoBatchIsSound DEF WindowOK
<1>7. OneOperationAtATime'
  BY <1>2, <1>4 DEF OneOperationAtATime
<1> QED
  BY <1>2, <1>4, <1>5, <1>6, <1>7, NoBatchIsSound DEF IInv

\* The commands of the windows before it are not the new window's.
LEMMA OpenWindowStep ==
  ASSUME IInv, OpenWindow
  PROVE  IInv'
<1>1. TypeOK /\ WindowOK
  BY DEF IInv
<1>2. /\ UNCHANGED <<game, tasks, busy, items, batch, report, waitRunning, timers>>
      /\ ~exists /\ win < MaxWindows /\ win' = win + 1
  BY DEF OpenWindow
<1>3. exists' = TRUE
  BY DEF OpenWindow
<1>4. win \in Nat /\ \A k \in tasks : k.win \in Nat /\ k.win <= win
  BY <1>1 DEF TypeOK, WindowOK, Tasks
<1>5. Outstanding = {} /\ Outstanding' = {}
  BY <1>2, <1>4 DEF Outstanding, Mine
<1>6. ~busy /\ timers = 0 /\ ~batch.live /\ batch = NewBatch({})
  BY <1>1, <1>2 DEF WindowOK
<1>7. TypeOK'
  <2>1. exists' \in BOOLEAN
    BY <1>3, Zenon
  <2>2. win' \in 1..MaxWindows
    BY <1>1, <1>2, SlotsAssumption DEF TypeOK
  <2> QED
    BY <1>1, <1>2, <2>1, <2>2 DEF TypeOK, game
<1>8. WindowOK'
  <2>1. \A k \in tasks' : k.win <= win'
    BY <1>2, <1>4
  <2> QED
    BY <1>1, <1>2, <1>3, <1>5, <1>6, <2>1 DEF WindowOK
<1>9. OneOperationAtATime'
  BY <1>2, <1>5, <1>6 DEF OneOperationAtATime
<1> QED
  BY <1>2, <1>5, <1>6, <1>7, <1>8, <1>9 DEF IInv

-----------------------------------------------------------------------------
(* The callbacks *)

\* What a window's callback may rely on when its command has returned.
LEMMA CallbackContext ==
  ASSUME IInv, NEW k \in Outstanding
  PROVE  /\ TypeOK /\ WindowOK /\ exists /\ busy /\ k.win = win
         /\ timers = 0 /\ Leftover(tasks \ {k})
         /\ waitRunning = (k.op = "waitAny")
         /\ Awaits(batch, k) /\ Truthful(k)
         /\ batch.live => Consistent(batch)
         /\ k \in Tasks
<1>1. exists /\ k.win = win /\ k \in tasks
  BY DEF Outstanding, Mine
<1>2. timers = 0 /\ busy /\ \A j \in Outstanding : j = k
  BY <1>1 DEF IInv, OneOperationAtATime, TypeOK
<1>3. waitRunning <=> k.op = "waitAny"
  BY <1>2 DEF IInv, WindowOK
<1>4. waitRunning = (k.op = "waitAny")
  BY <1>3 DEF IInv, TypeOK
<1>5. Leftover(tasks \ {k})
  BY ReceiptTaken DEF IInv
<1> QED
  BY <1>1, <1>2, <1>4, <1>5 DEF IInv, TypeOK

LEMMA StaleResultStep ==
  ASSUME IInv, NEW k \in tasks, StaleResult(k)
  PROVE  IInv'
<1>1. /\ tasks' = tasks \ {k} /\ UNCHANGED <<game, ui, batch, report, timers>>
      /\ waitRunning' = (waitRunning /\ ~(Mine(k) /\ k.op = "waitAny"))
  BY DEF StaleResult
<1>2. ~Mine(k)
  <2>1. SUFFICES ASSUME Mine(k) PROVE FALSE
    OBVIOUS
  <2>2. k \in Outstanding
    BY <2>1 DEF Outstanding
  <2>3. Awaits(batch, k) /\ k \in Tasks
    BY <2>2, CallbackContext
  <2>4. k.op \in BatchOps
    BY <2>1, <2>3 DEF StaleResult, Tasks, Ops, BatchOps
  <2> QED
    BY <2>1, <2>3, <2>4 DEF StaleResult, Awaits, BatchOps
<1>3. waitRunning' = waitRunning
  BY <1>1, <1>2 DEF IInv, TypeOK
<1>4. Outstanding' = Outstanding
  BY <1>1, <1>2 DEF Outstanding, Mine, ui
<1>5. TypeOK'
  BY <1>1, <1>3 DEF IInv, TypeOK, game, ui
<1>6. WindowOK'
  BY <1>1, <1>3, <1>4 DEF IInv, WindowOK, ui
<1>7. OneOperationAtATime'
  BY <1>1, <1>4 DEF IInv, OneOperationAtATime, ui
<1>8. batch'.live => Consistent(batch)'
  BY <1>1 DEF IInv, Consistent, Terminal, game
<1>9. \A j \in Outstanding' : Awaits(batch', j) /\ Truthful(j)'
  BY <1>1, <1>4 DEF IInv, Truthful, Terminal, game
<1>10. timers' > 0 => Waits(batch')
  BY <1>1 DEF IInv
<1> QED
  BY <1>5, <1>6, <1>7, <1>8, <1>9, <1>10 DEF IInv

\* _intel_refreshed, _world_toggled and _game_restarted end an operation that
\* no batch was running with.
LEMMA OperationEnds ==
  ASSUME IInv, NEW k \in Outstanding, k.op \notin BatchOps,
         tasks' = tasks \ {k}, busy' = FALSE, items' \in SUBSET Targets,
         UNCHANGED <<game, win, exists, batch, report, waitRunning, timers>>
  PROVE  IInv'
<1>1. /\ TypeOK /\ WindowOK /\ timers = 0 /\ Leftover(tasks \ {k})
      /\ waitRunning = (k.op = "waitAny") /\ Awaits(batch, k)
  BY CallbackContext
<1>2. batch = NewBatch({})
  BY <1>1 DEF Awaits, WindowOK
<1>3. waitRunning = FALSE
  BY <1>1 DEF BatchOps
<1>4. report \in Reports
  BY <1>1 DEF TypeOK
<1> QED
  BY <1>1, <1>2, <1>3, <1>4, IdleKeepsIInv

LEMMA IntelRefreshedStep ==
  ASSUME IInv, NEW k \in tasks, IntelRefreshed(k)
  PROVE  IInv'
<1>1. k \in Outstanding /\ k.op \notin BatchOps
  BY DEF IntelRefreshed, Returned, Outstanding, BatchOps
<1>2. items' \in SUBSET Targets
  BY DEF IntelRefreshed, IInv, TypeOK, Tasks
<1> QED
  BY <1>1, <1>2, OperationEnds DEF IntelRefreshed

LEMMA PlainFinishedStep ==
  ASSUME IInv, NEW k \in tasks, PlainFinished(k)
  PROVE  IInv'
<1>1. k \in Outstanding /\ k.op \notin BatchOps
  BY DEF PlainFinished, Returned, Outstanding, BatchOps
<1>2. items' \in SUBSET Targets
  BY DEF PlainFinished, IInv, TypeOK
<1> QED
  BY <1>1, <1>2, OperationEnds DEF PlainFinished

\* A receipt of a march frees no other target: the batch dispatches one at a
\* time, so none is dispatching once it is marked.
LEMMA SlotDispatchFinishedStep ==
  ASSUME IInv, NEW k \in tasks, SlotDispatchFinished(k)
  PROVE  IInv'
<1> DEFINE S == k.ids
           b == IF k.res = "ok" THEN MarkDispatched(batch, k.ids)
                                ELSE MarkFailed(batch, k.ids)
           s == IF k.res = "ok" THEN "active" ELSE "failed"
<1>1. k \in Outstanding /\ k.op = "march" /\ batch.live
  BY DEF SlotDispatchFinished, ForBatch, Returned, Outstanding
<1>2. /\ TypeOK /\ WindowOK /\ exists /\ busy /\ timers = 0
      /\ Leftover(tasks \ {k}) /\ waitRunning = (k.op = "waitAny")
      /\ Awaits(batch, k) /\ Consistent(batch)
  BY <1>1, CallbackContext
<1>3. waitRunning = FALSE
  BY <1>1, <1>2
<1>4. /\ DispatchNext(b, tasks \ {k}, FALSE)
      /\ UNCHANGED <<game, win, exists, items, timers>>
  BY <1>3 DEF SlotDispatchFinished
<1>5. /\ batch \in Batches /\ ~batch.claimAttempted
      /\ S = IdsIn(batch, {"dispatching"})
      /\ S \in SUBSET batch.targets /\ batch.targets \in SUBSET Targets
      /\ \A t \in S : batch.state[t] = "dispatching"
  BY <1>1, <1>2 DEF Awaits, Consistent, IdsIn, Batches
<1>6. Marks(batch, b, S, s)
  <2>1. CASE k.res = "ok"
    BY <1>5, <2>1, SetStateMarks DEF MarkDispatched, TargetStates, Final
  <2>2. CASE k.res # "ok"
    BY <1>5, <2>2, RecordMarks DEF MarkFailed, Final
  <2> QED
    BY <2>1, <2>2
<1>7. s \in TargetStates \ {"none"} /\ s \notin {"success", "reconciled"}
  BY DEF TargetStates
<1>8. s \in {"active", "failed"}
  OBVIOUS
<1> HIDE DEF b, s
<1>9. ActiveMonsterCount(b) <= Concurrency
  <2>1. IdsIn(b, {"active", "dispatching"})
          \subseteq IdsIn(batch, {"active", "dispatching"})
    BY <1>5, <1>6 DEF IdsIn, Marks
  <2> QED
    BY <1>2, <1>5, <2>1, SlotsShrink DEF Consistent
<1>10. Consistent(b)
  BY <1>2, <1>5, <1>6, <1>7, <1>9, MarkKeepsConsistent DEF Final
<1>11. IdsIn(b, {"dispatching"}) = {}
  BY <1>5, <1>6, <1>8 DEF IdsIn, Marks
<1>12. ~b.claimAttempted
  BY <1>5, <1>6 DEF Marks
<1>13. InCallback
  BY <1>2, <1>4 DEF InCallback, InWindow, TypeOK
<1> QED
  BY <1>2, <1>4, <1>10, <1>11, <1>12, <1>13, DispatchNextKeepsIInv

LEMMA SlotWaitProvedStep ==
  ASSUME IInv, NEW k \in tasks, SlotWaitProved(k)
  PROVE  IInv'
<1> DEFINE S == k.found \cap IdsIn(batch, {"active"})
           b == MarkCompleted(batch, k.found)
<1>1. k \in Outstanding /\ k.op = "waitAny" /\ batch.live /\ k.res = "ok"
  BY DEF SlotWaitProved, ForBatch, Returned, Outstanding
<1>2. /\ TypeOK /\ WindowOK /\ exists /\ busy /\ timers = 0
      /\ Leftover(tasks \ {k}) /\ Awaits(batch, k) /\ Truthful(k)
      /\ Consistent(batch)
  BY <1>1, CallbackContext
<1>3. /\ DispatchNext(b, tasks \ {k}, FALSE)
      /\ UNCHANGED <<game, win, exists, items, timers>>
  BY DEF SlotWaitProved
<1>4. /\ batch \in Batches /\ ~batch.claimAttempted
      /\ IdsIn(batch, {"dispatching"}) = {}
      /\ S \in SUBSET batch.targets /\ batch.targets \in SUBSET Targets
  BY <1>1, <1>2 DEF Awaits, Waits, Consistent, IdsIn, Batches
<1>5. \A t \in S : Terminal(t)
  BY <1>1, <1>2 DEF Truthful
<1>6. Marks(batch, b, S, "success")
  BY <1>4, RecordMarks DEF MarkCompleted, Final
<1> HIDE DEF b, S
<1>7. ActiveMonsterCount(b) <= Concurrency
  <2>1. IdsIn(b, {"active", "dispatching"})
          \subseteq IdsIn(batch, {"active", "dispatching"})
    BY <1>4, <1>6 DEF IdsIn, Marks
  <2> QED
    BY <1>2, <1>4, <2>1, SlotsShrink DEF Consistent
<1>8. Consistent(b)
  BY <1>2, <1>4, <1>5, <1>6, <1>7, MarkKeepsConsistent DEF Final, TargetStates
<1>9. IdsIn(b, {"dispatching"}) = {}
  BY <1>4, <1>6 DEF IdsIn, Marks
<1>10. ~b.claimAttempted
  BY <1>4, <1>6 DEF Marks
<1>11. InCallback
  BY <1>2, <1>3 DEF InCallback, InWindow, TypeOK
<1> QED
  BY <1>2, <1>3, <1>8, <1>9, <1>10, <1>11, DispatchNextKeepsIInv

LEMMA SlotWaitFailedStep ==
  ASSUME IInv, NEW k \in tasks, SlotWaitFailed(k)
  PROVE  IInv'
<1>1. k \in Outstanding /\ k.op = "waitAny" /\ batch.live
  BY DEF SlotWaitFailed, ForBatch, Returned, Outstanding
<1>2. /\ TypeOK /\ WindowOK /\ exists /\ busy /\ timers = 0
      /\ Leftover(tasks \ {k}) /\ Awaits(batch, k) /\ Consistent(batch)
  BY <1>1, CallbackContext
<1>3. /\ tasks' = tasks \ {k} /\ timers' = 1
      /\ UNCHANGED <<game, ui, batch, report>>
  BY <1>2 DEF SlotWaitFailed
<1>4. waitRunning' = FALSE
  BY DEF SlotWaitFailed
<1>5. Outstanding' = {}
  BY <1>2, <1>3 DEF Outstanding, Mine, Leftover, ui
<1>6. TypeOK'
  <2>1. waitRunning' \in BOOLEAN
    BY <1>4, Zenon
  <2> QED
    BY <1>2, <1>3, <2>1 DEF TypeOK, game, ui
<1>7. WindowOK'
  BY <1>1, <1>2, <1>3, <1>4, <1>5 DEF WindowOK, ui
<1>8. OneOperationAtATime'
  BY <1>2, <1>3, <1>5 DEF OneOperationAtATime, ui
<1>9. Consistent(batch)'
  BY <1>2, <1>3 DEF Consistent, Terminal, game
<1>10. Waits(batch')
  BY <1>1, <1>2, <1>3 DEF Awaits
<1> QED
  BY <1>5, <1>6, <1>7, <1>8, <1>9, <1>10 DEF IInv

LEMMA RetryTimerFiresStep ==
  ASSUME IInv, RetryTimerFires
  PROVE  IInv'
<1>1. exists /\ timers > 0
  BY DEF RetryTimerFires
<1>2. Waits(batch) /\ batch.live
  BY <1>1 DEF IInv, Waits
<1>3. TypeOK /\ WindowOK /\ Consistent(batch)
  BY <1>2 DEF IInv
<1>4. timers = 1 /\ Outstanding = {} /\ busy
  BY <1>1, <1>2, <1>3 DEF IInv, OneOperationAtATime, WindowOK, TypeOK
<1>5. Leftover(tasks)
  BY <1>1, <1>4 DEF Outstanding, Mine, Leftover
<1>6. waitRunning = FALSE
  BY <1>3, <1>4 DEF WindowOK, TypeOK
<1>7. SlotRequestWait(batch, tasks, FALSE)
  BY <1>2, <1>6 DEF RetryTimerFires
<1>8. UNCHANGED <<game, win, exists, items>> /\ timers' = 0
  BY <1>4 DEF RetryTimerFires
<1>9. InCallback
  BY <1>1, <1>3, <1>4, <1>8 DEF InCallback, InWindow, TypeOK
<1> QED
  BY <1>2, <1>3, <1>5, <1>7, <1>9, WaitKeepsIInv

LEMMA ClaimFinishedStep ==
  ASSUME IInv, NEW k \in tasks, ClaimFinished(k)
  PROVE  IInv'
<1> DEFINE b == [batch EXCEPT !.claimError = (@ \/ k.res # "ok")]
<1>1. k \in Outstanding /\ k.op = "claim" /\ batch.live
  BY DEF ClaimFinished, ForBatch, Returned, Outstanding
<1>2. /\ TypeOK /\ WindowOK /\ exists /\ busy /\ timers = 0
      /\ Leftover(tasks \ {k}) /\ waitRunning = (k.op = "waitAny")
      /\ Awaits(batch, k) /\ Consistent(batch)
  BY <1>1, CallbackContext
<1>3. /\ SubmitFor(b, tasks \ {k}, "waitAll", batch.targets)
      /\ UNCHANGED <<game, ui, report, waitRunning, timers>>
  BY DEF ClaimFinished
<1>4. batch \in Batches /\ batch.claimAttempted /\ CanClaim(batch)
  BY <1>1, <1>2 DEF Awaits, Consistent
<1>5. /\ b \in Batches /\ b.live /\ b.targets = batch.targets
      /\ b.state = batch.state /\ b.outcome = batch.outcome
      /\ b.claimVerified = batch.claimVerified /\ b.claimAttempted
  BY <1>1, <1>4 DEF Batches
<1> HIDE DEF b
<1>6. Consistent(b)
  BY <1>2, <1>4, <1>5, FlagsKeepConsistent DEF Consistent
<1>7. Sound(b)
  BY <1>5, <1>6 DEF Sound
<1>8. Awaits(b, Task("waitAll", win, batch.targets))
  BY <1>4, <1>5 DEF Awaits, Task, BatchOps, CanClaim, Complete, IdsIn
<1>9. "waitAll" \in Ops /\ batch.targets \in SUBSET Targets
  BY <1>4 DEF Ops, Batches
<1>10. busy' = TRUE /\ waitRunning' = ("waitAll" = "waitAny")
  BY <1>1, <1>2, <1>3 DEF TypeOK, ui
<1>11. items' \in SUBSET Targets /\ report' \in Reports /\ timers' = 0
  BY <1>2, <1>3 DEF TypeOK, ui
<1> QED
  BY <1>2, <1>3, <1>7, <1>8, <1>9, <1>10, <1>11, SubmitKeepsIInv DEF ui

LEMMA ClaimVerifiedStep ==
  ASSUME IInv, NEW k \in tasks, ClaimVerified(k)
  PROVE  IInv'
<1> DEFINE absent == k.res \in {"ok", "refused"} /\ k.found = batch.targets
           valid  == k.res = "ok" /\ absent
           b == [batch EXCEPT !.claimVerified = absent,
                              !.claimError = (@ \/ ~valid)]
<1>1. k \in Outstanding /\ k.op = "waitAll" /\ batch.live
  BY DEF ClaimVerified, ForBatch, Returned, Outstanding
<1>2. /\ TypeOK /\ WindowOK /\ exists /\ busy /\ timers = 0
      /\ Leftover(tasks \ {k}) /\ waitRunning = (k.op = "waitAny")
      /\ Awaits(batch, k) /\ Consistent(batch)
  BY <1>1, CallbackContext
<1>3. waitRunning = FALSE
  BY <1>1, <1>2
<1>4. /\ FinishHuntBatch(b, tasks \ {k}, FALSE)
      /\ items' = IF valid THEN items \ batch.targets ELSE items
      /\ UNCHANGED <<game, win, exists, timers>>
  BY <1>3 DEF ClaimVerified
<1>5. batch \in Batches /\ batch.claimAttempted /\ Complete(batch)
  BY <1>1, <1>2 DEF Awaits, Consistent
<1>6. absent \in BOOLEAN /\ valid \in BOOLEAN
  OBVIOUS
<1> HIDE DEF absent, valid
<1>7. /\ b \in Batches /\ b.live /\ b.targets = batch.targets
      /\ b.state = batch.state /\ b.claimAttempted
  BY <1>1, <1>5, <1>6 DEF Batches
<1>8. Complete(b)
  BY <1>5, <1>7 DEF Complete, IdsIn
<1>9. InCallback
  BY <1>2, <1>4 DEF InCallback, InWindow, TypeOK
<1> HIDE DEF b
<1> QED
  BY <1>2, <1>4, <1>7, <1>8, <1>9, FinishKeepsIInv

LEMMA FinalReconciledStep ==
  ASSUME IInv, NEW k \in tasks, FinalReconciled(k)
  PROVE  IInv'
<1> DEFINE S == {t \in k.found \cap batch.targets : batch.outcome[t] = "failed"}
           b == IF k.res = "ok" THEN ReconcileTerminalOutcomes(batch, k.found)
                                ELSE batch
<1>1. k \in Outstanding /\ k.op = "status" /\ batch.live
  BY DEF FinalReconciled, ForBatch, Returned, Outstanding
<1>2. /\ TypeOK /\ WindowOK /\ exists /\ busy /\ timers = 0
      /\ Leftover(tasks \ {k}) /\ waitRunning = (k.op = "waitAny")
      /\ Awaits(batch, k) /\ Truthful(k) /\ Consistent(batch)
  BY <1>1, CallbackContext
<1>3. waitRunning = FALSE
  BY <1>1, <1>2
<1>4. /\ IF CanClaim(b) THEN StartClaim(b, tasks \ {k}, FALSE)
                        ELSE FinishHuntBatch(b, tasks \ {k}, FALSE)
      /\ UNCHANGED <<game, win, exists, items, timers>>
  BY <1>3 DEF FinalReconciled
<1>5. /\ batch \in Batches /\ ~batch.claimAttempted /\ Complete(batch)
      /\ batch.targets \in SUBSET Targets
  BY <1>1, <1>2 DEF Awaits, Consistent, Batches
<1>6. Consistent(b) /\ Complete(b)
  <2>1. CASE k.res # "ok"
    BY <1>2, <1>5, <2>1
  <2>2. CASE k.res = "ok"
    <3>1. Marks(batch, b, S, "reconciled")
      BY <1>5, <2>2, RecordMarks DEF ReconcileTerminalOutcomes, Final
    <3>2. S \in SUBSET batch.targets /\ \A t \in S : Terminal(t)
      BY <1>1, <1>2, <2>2 DEF Truthful
    <3> HIDE DEF b, S
    <3>3. ActiveMonsterCount(b) <= Concurrency
      <4>1. IdsIn(b, {"active", "dispatching"})
              \subseteq IdsIn(batch, {"active", "dispatching"})
        BY <1>5, <3>1 DEF IdsIn, Marks
      <4> QED
        BY <1>2, <1>5, <4>1, SlotsShrink DEF Consistent
    <3>4. Consistent(b)
      BY <1>2, <1>5, <3>1, <3>2, <3>3, MarkKeepsConsistent DEF Final, TargetStates
    <3>5. Complete(b)
      BY <1>5, <3>1 DEF Complete, IdsIn, Marks
    <3> QED
      BY <3>4, <3>5
  <2> QED
    BY <2>1, <2>2
<1>7. InCallback
  BY <1>2, <1>4 DEF InCallback, InWindow, TypeOK
<1> HIDE DEF b
<1>8. CASE StartClaim(b, tasks \ {k}, FALSE)
  BY <1>2, <1>6, <1>7, <1>8, ClaimKeepsIInv
<1>9. CASE FinishHuntBatch(b, tasks \ {k}, FALSE)
  BY <1>2, <1>6, <1>7, <1>9, FinishKeepsIInv DEF Consistent
<1> QED
  BY <1>4, <1>8, <1>9

-----------------------------------------------------------------------------
(* The game and the commands *)

\* A quest that is over stays over: nothing the game, the player or a command
\* does brings a finished target back.
Lasting ==
  /\ quest' \in [Targets -> QuestStates]
  /\ onRole' \in BOOLEAN
  /\ \A t \in Targets : Terminal(t) => Terminal(t)'
  /\ \A t \in Targets : quest[t] = "missing" => quest'[t] = "missing"

\* While commands run the window stands still.
LEMMA BackgroundKeepsIInv ==
  ASSUME IInv, Lasting, Rest, tasks' \subseteq Tasks,
         \A j \in tasks' : \E k \in tasks :
           /\ j.op = k.op /\ j.win = k.win /\ j.ids = k.ids
           /\ j = k \/ Truthful(j)',
         \A j, k \in Outstanding' : j = k,
         \A k \in Outstanding : \E j \in Outstanding' : j.op = k.op
  PROVE  IInv'
<1>1. /\ UNCHANGED <<ui, batch, report, waitRunning, timers>>
      /\ exists' = exists /\ win' = win
  BY DEF Rest, ui
<1>2. \A j \in Outstanding' : \E k \in Outstanding :
        /\ j.op = k.op /\ j.ids = k.ids /\ (j = k \/ Truthful(j)')
  BY <1>1 DEF Outstanding, Mine
<1>3. TypeOK'
  BY <1>1 DEF IInv, TypeOK, Lasting, ui
<1>4. WindowOK'
  <2>1. \A j \in tasks' : j.win <= win'
    BY <1>1 DEF IInv, WindowOK
  <2>2. waitRunning' <=> \E j \in Outstanding' : j.op = "waitAny"
    BY <1>1, <1>2 DEF IInv, WindowOK
  <2> QED
    BY <1>1, <2>1, <2>2 DEF IInv, WindowOK, ui
<1>5. OneOperationAtATime'
  <2>1. Outstanding' = {} <=> Outstanding = {}
    BY <1>2
  <2> QED
    BY <1>1, <2>1 DEF IInv, OneOperationAtATime, ui
<1>6. batch'.live => Consistent(batch)'
  <2> SUFFICES ASSUME batch.live PROVE Consistent(batch)'
    BY <1>1
  <2>1. Consistent(batch) /\ batch.targets \subseteq Targets
    BY DEF IInv, TypeOK, Batches
  <2> QED
    BY <1>1, <2>1 DEF Consistent, Lasting
<1>7. \A j \in Outstanding' : Awaits(batch', j) /\ Truthful(j)'
  <2> SUFFICES ASSUME NEW j \in Outstanding'
               PROVE  Awaits(batch', j) /\ Truthful(j)'
    OBVIOUS
  <2>1. PICK k \in Outstanding :
          /\ j.op = k.op /\ j.ids = k.ids /\ (j = k \/ Truthful(j)')
    BY <1>2
  <2>2. Awaits(batch, k) /\ Truthful(k)
    BY DEF IInv
  <2>3. Awaits(batch', j)
    BY <1>1, <2>1, <2>2 DEF Awaits
  <2>4. Truthful(j)'
    <3>1. k.found \subseteq Targets
      BY DEF IInv, TypeOK, Tasks, Outstanding
    <3> QED
      BY <2>1, <2>2, <3>1 DEF Truthful, Lasting
  <2> QED
    BY <2>3, <2>4
<1>8. timers' > 0 => Waits(batch')
  BY <1>1 DEF IInv
<1> QED
  BY <1>3, <1>4, <1>5, <1>6, <1>7, <1>8 DEF IInv

LEMMA GameStepKeepsIInv ==
  ASSUME IInv, GameStep, Rest
  PROVE  IInv'
<1>1. tasks' = tasks /\ Lasting
  <2>1. TypeOK
    BY DEF IInv
  <2>2. CASE PlayerSwitchesRole
    BY <2>1, <2>2 DEF PlayerSwitchesRole, Lasting, TypeOK, Terminal
  <2>3. ASSUME NEW t \in Targets,
               MarchReturns(t) \/ QuestDisappears(t) \/ PlayerRecalls(t)
        PROVE  tasks' = tasks /\ Lasting
    BY <2>1, <2>3 DEF MarchReturns, QuestDisappears, PlayerRecalls, Lasting,
                      TypeOK, Terminal, QuestStates
  <2> QED
    BY <2>2, <2>3 DEF GameStep
<1>2. Outstanding' = Outstanding
  BY <1>1 DEF Outstanding, Mine, Rest, ui
<1>3. tasks' \subseteq Tasks /\ \A j, k \in Outstanding : j = k
  BY <1>1 DEF IInv, TypeOK, OneOperationAtATime
<1> QED
  BY <1>1, <1>2, <1>3, BackgroundKeepsIInv

\* The receipt a command gives is true when it gives it.
LEMMA CommandReturns ==
  ASSUME IInv, NEW k \in tasks, CommandRuns(k)
  PROVE  /\ Lasting
         /\ \E res \in Results, found \in SUBSET Targets :
              /\ Returns(k, res, found)
              /\ Truthful([k EXCEPT !.res = res, !.found = found])'
<1>1. TypeOK /\ k \in Tasks
  BY DEF IInv, TypeOK
<1> DEFINE Good(res, found) ==
             /\ res \in Results /\ found \in SUBSET Targets
             /\ Returns(k, res, found)
             /\ Truthful([k EXCEPT !.res = res, !.found = found])'
<1> SUFFICES Lasting /\ \E res, found : Good(res, found)
  OBVIOUS
<1> HIDE DEF Good
<1>2. \A res, found : LET j == [k EXCEPT !.res = res, !.found = found]
                      IN  j.op = k.op /\ j.res = res /\ j.found = found
  BY <1>1 DEF Tasks
<1>3. CASE CommandFails(k)
  <2>1. Lasting
    BY <1>1, <1>3 DEF CommandFails, Lasting, TypeOK, Terminal
  <2>2. Good("error", {})
    BY <1>2, <1>3 DEF Good, CommandFails, Truthful, Results
  <2> QED
    BY <2>1, <2>2
<1>4. CASE MarchAccepted(k)
  <2>1. Lasting
    BY <1>1, <1>4 DEF MarchAccepted, Lasting, TypeOK, Terminal, Dispatched, QuestStates
  <2>2. Good("ok", k.ids)
    BY <1>1, <1>2, <1>4 DEF Good, MarchAccepted, Truthful, Results, Tasks
  <2> QED
    BY <2>1, <2>2
<1>5. CASE MarchBlocked(k)
  <2>1. Lasting
    BY <1>1, <1>5 DEF MarchBlocked, Lasting, TypeOK, Terminal
  <2>2. Good("blocked", {})
    BY <1>2, <1>5 DEF Good, MarchBlocked, Truthful, Results
  <2> QED
    BY <2>1, <2>2
<1>6. CASE MarchUnproved(k)
  <2>1. Lasting
    BY <1>1, <1>6 DEF MarchUnproved, Lasting, TypeOK, Terminal, QuestStates
  <2>2. Good("error", {})
    BY <1>2, <1>6 DEF Good, MarchUnproved, Truthful, Results
  <2> QED
    BY <2>1, <2>2
<1>7. CASE StatusRead(k)
  <2> DEFINE F == {t \in k.ids : IF k.op = "waitAll" THEN quest[t] = "missing"
                                                     ELSE Terminal(t)}
  <2>1. Lasting
    BY <1>1, <1>7 DEF StatusRead, Lasting, TypeOK, Terminal
  <2>2. F \in SUBSET Targets /\ Returns(k, "ok", F) /\ quest' = quest
    BY <1>1, <1>7 DEF StatusRead, Tasks
  <2>3. Truthful([k EXCEPT !.res = "ok", !.found = F])'
    BY <1>2, <2>2 DEF Truthful, Terminal
  <2>4. Good("ok", F)
    BY <2>2, <2>3 DEF Good, Results
  <2> QED
    BY <2>1, <2>4
<1>8. ASSUME NEW res \in {"ok", "error"}, ClaimIntel(k, res)
      PROVE  Lasting /\ \E r, x : Good(r, x)
  <2> DEFINE f == IF res = "ok" THEN k.ids ELSE {}
  <2>1. Lasting
    BY <1>1, <1>8 DEF ClaimIntel, Lasting, TypeOK, Terminal, QuestStates
  <2>2. f \in SUBSET Targets /\ Returns(k, res, f) /\ k.op = "claim"
    BY <1>1, <1>8 DEF ClaimIntel, Tasks
  <2>3. Truthful([k EXCEPT !.res = res, !.found = f])'
    BY <1>2, <2>2 DEF Truthful
  <2>4. Good(res, f)
    BY <2>2, <2>3 DEF Good, Results
  <2> QED
    BY <2>1, <2>4
<1>9. CASE InspectTasks(k)
  <2> DEFINE f == IF onRole THEN QuestsIn({"available"}) ELSE {}
  <2>1. Lasting
    BY <1>1, <1>9 DEF InspectTasks, Lasting, TypeOK, Terminal
  <2>2. f \in SUBSET Targets /\ Returns(k, "ok", f) /\ k.op = "inspect"
    BY <1>9 DEF InspectTasks, QuestsIn
  <2>3. Truthful([k EXCEPT !.res = "ok", !.found = f])'
    BY <1>2, <2>2 DEF Truthful
  <2>4. Good("ok", f)
    BY <2>2, <2>3 DEF Good, Results
  <2> QED
    BY <2>1, <2>4
<1>10. CASE PlainCommand(k)
  <2>1. Lasting
    BY <1>1, <1>10 DEF PlainCommand, Lasting, TypeOK, Terminal
  <2>2. Good("ok", {})
    BY <1>2, <1>10 DEF Good, PlainCommand, Truthful, Results
  <2> QED
    BY <2>1, <2>2
<1>11. CASE ForeignReading(k)
  <2>1. Lasting
    BY <1>1, <1>11 DEF ForeignReading, Lasting, TypeOK, Terminal
  <2>2. Good("refused", k.ids)
    BY <1>1, <1>2, <1>11 DEF Good, ForeignReading, Truthful, Results, Tasks
  <2> QED
    BY <2>1, <2>2
<1> QED
  BY <1>3, <1>4, <1>5, <1>6, <1>7, <1>8, <1>9, <1>10, <1>11
     DEF CommandRuns, CommandSucceeds

LEMMA CommandRunsKeepsIInv ==
  ASSUME IInv, NEW k \in tasks, CommandRuns(k), Rest
  PROVE  IInv'
<1>1. Lasting
  BY CommandReturns
<1>2. PICK res \in Results, found \in SUBSET Targets :
        /\ Returns(k, res, found)
        /\ Truthful([k EXCEPT !.res = res, !.found = found])'
  BY CommandReturns
<1> DEFINE c == [k EXCEPT !.res = res, !.found = found]
<1>3. k \in Tasks /\ tasks \subseteq Tasks
  BY DEF IInv, TypeOK
<1>4. c \in Tasks /\ c.op = k.op /\ c.win = k.win /\ c.ids = k.ids
  BY <1>3 DEF Tasks
<1>5. tasks' = (tasks \ {k}) \cup {c} /\ Truthful(c)'
  BY <1>2 DEF Returns
<1> HIDE DEF c
<1>6. tasks' \subseteq Tasks
  BY <1>3, <1>4, <1>5
<1>7. \A j \in tasks' : \E i \in tasks :
        /\ j.op = i.op /\ j.win = i.win /\ j.ids = i.ids
        /\ j = i \/ Truthful(j)'
  BY <1>4, <1>5
<1>8. exists' = exists /\ win' = win
  BY DEF Rest, ui
<1>9. \A i, j \in Outstanding : i = j
  BY DEF IInv, OneOperationAtATime
<1>10. \A i, j \in Outstanding' : i = j
  BY <1>4, <1>5, <1>8, <1>9 DEF Outstanding, Mine
<1>11. \A i \in Outstanding : \E j \in Outstanding' : j.op = i.op
  BY <1>4, <1>5, <1>8 DEF Outstanding, Mine
<1> QED
  BY <1>1, <1>6, <1>7, <1>10, <1>11, BackgroundKeepsIInv

-----------------------------------------------------------------------------
(* The inductive invariant *)

LEMMA InitEstablishesIInv == Init => IInv
<1> SUFFICES ASSUME Init PROVE IInv
  OBVIOUS
<1>1. Outstanding = {}
  BY DEF Init, Outstanding
<1>2. TypeOK
  <2>1. /\ busy = FALSE /\ waitRunning = FALSE /\ exists = TRUE /\ onRole = TRUE
    BY DEF Init
  <2>2. busy \in BOOLEAN /\ waitRunning \in BOOLEAN /\ exists \in BOOLEAN
        /\ onRole \in BOOLEAN
    BY <2>1, Zenon
  <2>3. win \in 1..MaxWindows /\ timers \in 0..1
    BY SlotsAssumption DEF Init
  <2>4. batch \in Batches /\ report \in Reports
    BY NoBatchIsSound DEF Init, Reports
  <2>5. quest \in [Targets -> QuestStates] /\ tasks \subseteq Tasks
        /\ items \subseteq Targets
    BY DEF Init, QuestStates
  <2> QED
    BY <2>2, <2>3, <2>4, <2>5 DEF TypeOK
<1>3. WindowOK
  BY <1>1, NoBatchIsSound DEF Init, WindowOK
<1>4. OneOperationAtATime
  BY <1>1 DEF Init, OneOperationAtATime
<1> QED
  BY <1>1, <1>2, <1>3, <1>4, NoBatchIsSound DEF Init, IInv

LEMMA StutterKeepsIInv ==
  ASSUME IInv, UNCHANGED vars
  PROVE  IInv'
<1>1. UNCHANGED <<quest, onRole, tasks, win, exists, busy, items, batch, report,
                  waitRunning, timers>>
  BY DEF vars
<1>2. Outstanding' = Outstanding
  BY <1>1 DEF Outstanding, Mine
<1>3. TypeOK' /\ WindowOK' /\ OneOperationAtATime'
  BY <1>1, <1>2 DEF IInv, TypeOK, WindowOK, OneOperationAtATime
<1>4. batch'.live => Consistent(batch)'
  BY <1>1 DEF IInv, Consistent, Terminal
<1>5. \A k \in Outstanding' : Awaits(batch', k) /\ Truthful(k)'
  BY <1>1, <1>2 DEF IInv, Truthful, Terminal
<1>6. timers' > 0 => Waits(batch')
  BY <1>1 DEF IInv
<1> QED
  BY <1>3, <1>4, <1>5, <1>6 DEF IInv

LEMMA NextKeepsIInv == IInv /\ [Next]_vars => IInv'
<1> SUFFICES ASSUME IInv, [Next]_vars PROVE IInv'
  OBVIOUS
<1>1. CASE Buttons
  <2>1. CASE RefreshIntel
    <3>1. Submit("inspect") /\ items' \in SUBSET Targets
      BY <2>1 DEF RefreshIntel
    <3> QED
      BY <3>1, SubmitStep DEF Ops, BatchOps
  <2>2. CASE ToggleWorld
    <3>1. Submit("toggle") /\ items' \in SUBSET Targets
      BY <2>2 DEF ToggleWorld, IInv, TypeOK
    <3> QED
      BY <3>1, SubmitStep DEF Ops, BatchOps
  <2>3. CASE RestartGame
    <3>1. Submit("restart") /\ items' \in SUBSET Targets
      BY <2>3 DEF RestartGame, IInv, TypeOK
    <3> QED
      BY <3>1, SubmitStep DEF Ops, BatchOps
  <2>4. CASE StartHunt
    BY <2>4, StartHuntStep
  <2>5. CASE CloseWindow
    BY <2>5, CloseWindowStep
  <2>6. CASE OpenWindow
    BY <2>6, OpenWindowStep
  <2> QED
    BY <1>1, <2>1, <2>2, <2>3, <2>4, <2>5, <2>6 DEF Buttons
<1>2. CASE RetryTimerFires
  BY <1>2, RetryTimerFiresStep
<1>3. ASSUME NEW k \in tasks, Callback(k) PROVE IInv'
  BY <1>3, StaleResultStep, IntelRefreshedStep, PlainFinishedStep,
     SlotDispatchFinishedStep, SlotWaitProvedStep, SlotWaitFailedStep,
     ClaimFinishedStep, ClaimVerifiedStep, FinalReconciledStep DEF Callback
<1>4. ASSUME NEW k \in tasks, CommandRuns(k), Rest PROVE IInv'
  BY <1>4, CommandRunsKeepsIInv
<1>5. CASE GameStep /\ Rest
  BY <1>5, GameStepKeepsIInv
<1>6. CASE UNCHANGED vars
  BY <1>6, StutterKeepsIInv
<1> QED
  BY <1>1, <1>2, <1>3, <1>4, <1>5, <1>6 DEF Next, Rest

THEOREM Invariance == Spec => []IInv
BY InitEstablishesIInv, NextKeepsIInv, PTL DEF Spec

-----------------------------------------------------------------------------
(* Theorems *)

\* Every variable keeps its type, whatever is clicked, returned or lost; in
\* particular at most one retry timer is ever pending.
THEOREM TypeCorrect == Spec => []TypeOK
<1>1. IInv => TypeOK
  BY DEF IInv
<1> QED
  BY <1>1, Invariance, PTL

\* A window never runs two commands at once, and is busy exactly while it has
\* something outstanding: gui.py's busy flag is enough of a lock.
THEOREM OneOperation == Spec => []OneOperationAtATime
<1>1. IInv => OneOperationAtATime
  BY DEF IInv
<1> QED
  BY <1>1, Invariance, PTL

\* Every command of a batch returns to the batch it was submitted from, so
\* that no callback raises inside TaskDispatcher._drain.
THEOREM ReceiptsMatch == Spec => []ReceiptsFindTheirTarget
<1>1. IInv => ReceiptsFindTheirTarget
  <2> SUFFICES ASSUME IInv, NEW k \in Outstanding
               PROVE  /\ k.op = "march" =>
                           k.ids # {} /\ k.ids = IdsIn(batch, {"dispatching"})
                      /\ k.op = "waitAny" =>
                           /\ waitRunning
                           /\ k.ids # {} /\ k.ids = IdsIn(batch, {"active"})
                           /\ IdsIn(batch, {"dispatching"}) = {}
                      /\ k.op \in {"status", "claim", "waitAll"} =>
                           /\ batch.live /\ k.ids = batch.targets
                           /\ Complete(batch)
    BY DEF ReceiptsFindTheirTarget
  <2>1. Awaits(batch, k) /\ WindowOK
    BY DEF IInv
  <2> QED
    BY <2>1 DEF Awaits, Waits, WindowOK, BatchOps
<1> QED
  BY <1>1, Invariance, PTL

\* The monster slots of a batch stay within the frozen concurrency.
THEOREM SlotsStayBounded == Spec => []SlotsBounded
<1>1. IInv => SlotsBounded
  <2> SUFFICES ASSUME IInv PROVE ActiveMonsterCount(batch) <= Concurrency
    BY DEF SlotsBounded
  <2>1. CASE batch.live
    BY <2>1 DEF IInv, Consistent
  <2>2. CASE ~batch.live
    <3>1. IdsIn(batch, {"active", "dispatching"}) = {}
      BY <2>2 DEF IInv, WindowOK, NewBatch, IdsIn
    <3> QED
      BY <3>1, FS_EmptySet, SlotsAssumption DEF ActiveMonsterCount
  <2> QED
    BY <2>1, <2>2
<1> QED
  BY <1>1, Invariance, PTL

\* The batch waits only when it has nothing it could dispatch.
THEOREM WaitsAreFull == Spec => []WaitsOnlyWhenFull
<1>1. IInv => WaitsOnlyWhenFull
  BY DEF IInv, WaitsOnlyWhenFull, Awaits, Waits
<1> QED
  BY <1>1, Invariance, PTL

\* What the batch calls done the game has finished with, whatever happened
\* between the reading of a status and its callback.
THEOREM ResolvedOutcomesAreReal == Spec => []ResolvedIsReal
<1>1. IInv => ResolvedIsReal
  <2> SUFFICES ASSUME IInv, NEW t \in batch.targets,
                      batch.outcome[t] \in {"success", "reconciled"}
               PROVE  Terminal(t)
    BY DEF ResolvedIsReal
  <2>1. batch.live
    BY DEF IInv, WindowOK, NewBatch
  <2>2. Consistent(batch) /\ t \in Targets
    BY <2>1 DEF IInv, TypeOK, Batches
  <2>3. batch.state[t] \in {"success", "reconciled"}
    BY <2>2 DEF Consistent, Final
  <2> QED
    BY <2>2, <2>3 DEF Consistent
<1> QED
  BY <1>1, Invariance, PTL

\* The claim, which takes every reward of the role at once, is outstanding
\* only while every target of the batch is over.
THEOREM ClaimsAreDue == Spec => []ClaimOnlyWhenAllDone
<1>1. IInv => ClaimOnlyWhenAllDone
  <2> SUFFICES ASSUME IInv, NEW k \in Outstanding, k.op = "claim",
                      NEW t \in batch.targets
               PROVE  /\ Terminal(t)
                      /\ batch.outcome[t] \in {"success", "reconciled"}
    BY DEF ClaimOnlyWhenAllDone
  <2>1. batch.claimAttempted /\ batch.live
    BY DEF IInv, Awaits, BatchOps
  <2>2. Consistent(batch) /\ t \in Targets
    BY <2>1 DEF IInv, TypeOK, Batches
  <2>3. batch.outcome[t] \in {"success", "reconciled"}
    BY <2>1, <2>2 DEF Consistent, CanClaim
  <2>4. batch.state[t] \in {"success", "reconciled"}
    BY <2>2, <2>3 DEF Consistent, Final
  <2> QED
    BY <2>2, <2>3, <2>4 DEF Consistent
<1> QED
  BY <1>1, Invariance, PTL

-----------------------------------------------------------------------------
(* HuntSlots implements IntelBatch under the mapping of HuntSlots!Promise,  *)
(* whatever the number of its targets, its concurrency and the windows      *)
(* after it.  A callback moves every target only forward and leaves the     *)
(* batch running, or it ends the batch; IInv tells which callbacks may.     *)

\* What batch b says of a target, in the words of IntelBatch.
StatusIn(b, t) ==
  IF t \notin b.targets THEN "idle"
  ELSE CASE b.state[t] = "pending" -> "open"
         [] b.state[t] \in {"dispatching", "active"} -> "underway"
         [] b.state[t] = "failed" -> "unresolved"
         [] OTHER -> "done"

Closed == {"idle", "unresolved", "done"}

\* Of the targets of b, c has moved some forward, and called done only such
\* as the game has finished with; it may have made the claim b has not made.
Moved(b, c) ==
  /\ \A t \in Targets :
       /\ StatusIn(c, t) \in Promise!After(StatusIn(b, t))
       /\ StatusIn(c, t) = "done" /\ StatusIn(b, t) # "done" => Terminal(t)
  /\ \/ c.claimAttempted = b.claimAttempted
     \/ /\ ~b.claimAttempted /\ c.claimAttempted
        /\ \A t \in Targets : StatusIn(c, t) \in {"idle", "done"}
  /\ c.finalReconcileAttempted => b.finalReconcileAttempted \/ Complete(c)

\* A batch whose outcomes were reconciled has none left to wait for: only then
\* may a callback find nothing more to do and end it.
ReconciledLast == batch.finalReconcileAttempted => Complete(batch)

\* No reading after a claim comes to be refused, nor to be taken.
SameReading == batch.claimAttempted => (Misled' <=> Misled)

\* What a step of HuntSlots is to a batch.
Forward == /\ batch.live /\ batch'.live /\ Moved(batch, batch')
           /\ ~Misled /\ ~Misled'
           /\ UNCHANGED <<quest, onRole, report>>
Over    == Promise!End /\ batch' = NewBatch({})
Gone    == batch' = NewBatch({}) /\ report' = "none" /\ UNCHANGED game
Still   == UNCHANGED <<quest, onRole, batch, report>> /\ SameReading
Elapses == Lasting /\ UNCHANGED <<batch, report>> /\ SameReading
Misread == Promise!Misread /\ batch' = batch
Starts  == /\ ~batch.live /\ report' = "none" /\ UNCHANGED game
           /\ \E T \in SUBSET Targets, t \in Targets :
                T # {} /\ batch' = SetState(NewBatch(T), {t}, "dispatching")

Kinds == Forward \/ Over \/ Gone \/ Still \/ Elapses \/ Misread \/ Starts

-----------------------------------------------------------------------------
(* Statuses *)

LEMMA StatusOfBatch ==
  /\ \A t \in Targets : Status(t) = StatusIn(batch, t)
  /\ \A t \in Targets : Status(t)' = StatusIn(batch', t)
BY DEF Status, StatusIn

LEMMA StatusIsStatus ==
  ASSUME NEW b, NEW t
  PROVE  StatusIn(b, t) \in Promise!Statuses
BY DEF StatusIn, Promise!Statuses

\* Nothing is left to wait for exactly when every target is closed.
LEMMA CompleteMeansClosed ==
  ASSUME NEW b, b.targets \subseteq Targets
  PROVE  Complete(b) <=> \A t \in Targets : StatusIn(b, t) \in Closed
<1>1. \A t \in Targets :
        StatusIn(b, t) \in Closed
          <=> ~(t \in b.targets /\ b.state[t] \in {"pending", "dispatching", "active"})
  <2> SUFFICES ASSUME NEW t \in Targets
               PROVE  StatusIn(b, t) \in Closed
                        <=> ~(/\ t \in b.targets
                              /\ b.state[t] \in {"pending", "dispatching", "active"})
    OBVIOUS
  <2>1. CASE t \notin b.targets
    BY <2>1 DEF StatusIn, Closed
  <2>2. CASE t \in b.targets
    <3> DEFINE s == b.state[t]
    <3>1. StatusIn(b, t) = IF s = "pending" THEN "open"
                           ELSE IF s \in {"dispatching", "active"} THEN "underway"
                           ELSE IF s = "failed" THEN "unresolved" ELSE "done"
      BY <2>2 DEF StatusIn
    <3> HIDE DEF s
    <3>2. StatusIn(b, t) \in Closed <=> s \notin {"pending", "dispatching", "active"}
      BY <3>1 DEF Closed
    <3> QED
      BY <2>2, <3>2 DEF s
  <2> QED
    BY <2>1, <2>2
<1> QED
  BY <1>1 DEF Complete, IdsIn

LEMMA NoBatchIsIdle ==
  /\ \A t \in Targets : StatusIn(NewBatch({}), t) = "idle"
  /\ ~NewBatch({}).claimAttempted /\ ~NewBatch({}).finalReconcileAttempted
BY DEF NewBatch, StatusIn

LEMMA AfterIsTransitive ==
  ASSUME NEW r \in Promise!Statuses, NEW s \in Promise!After(r),
         NEW u \in Promise!After(s)
  PROVE  /\ s \in Promise!Statuses
         /\ u \in Promise!After(r)
BY DEF Promise!After, Promise!Statuses

LEMMA StayingIsMoving ==
  ASSUME NEW s \in Promise!Statuses
  PROVE  s \in Promise!After(s)
BY DEF Promise!After, Promise!Statuses

\* A closed target stays closed.
LEMMA ClosedStaysClosed ==
  ASSUME NEW s \in Closed, NEW u \in Promise!After(s)
  PROVE  u \in Closed
BY DEF Promise!After, Closed

\* Marks and flags, one after the other.
LEMMA MovedTwice ==
  ASSUME NEW b, NEW c, NEW d, Moved(b, c), Moved(c, d),
         c.claimAttempted = b.claimAttempted,
         b.targets \subseteq Targets,
         c.finalReconcileAttempted = b.finalReconcileAttempted
  PROVE  Moved(b, d)
<1>1. ASSUME NEW t \in Targets
      PROVE  /\ StatusIn(d, t) \in Promise!After(StatusIn(b, t))
             /\ StatusIn(d, t) = "done" /\ StatusIn(b, t) # "done" => Terminal(t)
  BY StatusIsStatus, AfterIsTransitive DEF Moved
<1>2. \/ d.claimAttempted = b.claimAttempted
      \/ /\ ~b.claimAttempted /\ d.claimAttempted
         /\ \A t \in Targets : StatusIn(d, t) \in {"idle", "done"}
  BY DEF Moved
<1> QED
  BY <1>1, <1>2 DEF Moved

\* Flags that say nothing of a target.
LEMMA FlagsMove ==
  ASSUME NEW b, NEW c, c.targets = b.targets, c.state = b.state,
         \/ c.claimAttempted = b.claimAttempted
         \/ /\ ~b.claimAttempted /\ c.claimAttempted
            /\ \A t \in Targets : StatusIn(b, t) \in {"idle", "done"},
         c.finalReconcileAttempted => b.finalReconcileAttempted \/ Complete(b)
  PROVE  Moved(b, c)
<1>1. \A t \in Targets : StatusIn(c, t) = StatusIn(b, t)
  BY DEF StatusIn
<1>2. Complete(b) => Complete(c)
  BY DEF Complete, IdsIn
<1>3. \A t \in Targets : StatusIn(c, t) \in Promise!After(StatusIn(b, t))
  BY <1>1, StatusIsStatus, StayingIsMoving
<1> QED
  BY <1>1, <1>2, <1>3 DEF Moved

-----------------------------------------------------------------------------
(* The controller's helpers *)

\* A target is marked with the state s: dispatching once it is dispatched,
\* active once its march is proved, failed, or done as the game shows it.
LEMMA MarkMoves ==
  ASSUME NEW b, NEW c, NEW S \in SUBSET b.targets, NEW s,
         b.targets \subseteq Targets, Marks(b, c, S, s),
         \/ s = "dispatching" /\ \A t \in S : b.state[t] = "pending"
         \/ s \in {"active", "failed"} /\ \A t \in S : b.state[t] = "dispatching"
         \/ s = "success" /\ \A t \in S : b.state[t] = "active" /\ Terminal(t)
         \/ s = "reconciled" /\ \A t \in S : b.state[t] = "failed" /\ Terminal(t),
         c.finalReconcileAttempted = b.finalReconcileAttempted
  PROVE  Moved(b, c)
<1>1. ASSUME NEW t \in Targets
      PROVE  /\ StatusIn(c, t) \in Promise!After(StatusIn(b, t))
             /\ StatusIn(c, t) = "done" /\ StatusIn(b, t) # "done" => Terminal(t)
  <2>1. CASE t \notin S
    <3>1. StatusIn(c, t) = StatusIn(b, t)
      BY <2>1 DEF StatusIn, Marks
    <3> QED
      BY <3>1, StatusIsStatus, StayingIsMoving
  <2>2. CASE t \in S
    BY <2>2 DEF StatusIn, Marks, Promise!After
  <2> QED
    BY <2>1, <2>2
<1> QED
  BY <1>1 DEF Moved, Marks

LEMMA DispatchMoves ==
  ASSUME NEW b, Consistent(b), Dispatchable(b) # {}, NEW rest, Dispatch(b, rest)
  PROVE  Moved(b, batch') /\ batch'.live
<1> DEFINE t == FirstOf(Dispatchable(b))
<1>1. b \in Batches /\ b.targets \in SUBSET Targets /\ b.live
  BY DEF Consistent, Batches
<1>2. t \in Dispatchable(b)
  BY <1>1, FirstOfIsMember DEF Dispatchable, IdsIn
<1>3. t \in b.targets /\ b.state[t] = "pending"
  BY <1>2 DEF Dispatchable, IdsIn
<1>4. batch' = SetState(b, {t}, "dispatching")
  BY DEF Dispatch, SubmitFor
<1> HIDE DEF t
<1>5. Marks(b, batch', {t}, "dispatching")
  BY <1>1, <1>4, SetStateMarks DEF TargetStates, Final
<1>6. batch'.finalReconcileAttempted = b.finalReconcileAttempted
  BY <1>1, <1>4 DEF SetState, Batches
<1>7. {t} \in SUBSET b.targets /\ \A u \in {t} : b.state[u] = "pending"
  BY <1>3
<1>8. Moved(b, batch')
  BY <1>1, <1>5, <1>6, <1>7, MarkMoves
<1> QED
  BY <1>1, <1>5, <1>8 DEF Marks

\* With everything closed and nothing to claim, a failure is left.
LEMMA FailureIsLeft ==
  ASSUME NEW b, Consistent(b), Complete(b), ~CanClaim(b)
  PROVE  \E t \in b.targets : b.outcome[t] = "failed" /\ b.state[t] = "failed"
<1>1. PICK t \in b.targets : b.outcome[t] \notin {"success", "reconciled"}
  BY DEF CanClaim
<1>2. t \in Targets /\ b \in Batches
  BY DEF Consistent, Batches
<1>3. b.state[t] \in Final
  BY <1>2 DEF Consistent, Complete, IdsIn, Batches, TargetStates, Final
<1>4. b.outcome[t] = b.state[t]
  BY <1>2, <1>3 DEF Consistent
<1> QED
  BY <1>1, <1>3, <1>4 DEF Final

LEMMA ReconcileMoves ==
  ASSUME NEW b, Consistent(b), NeedsFinalReconcile(b),
         NEW rest, FinishHuntBatch(b, rest, FALSE)
  PROVE  Moved(b, batch') /\ batch'.live /\ UNCHANGED report
<1>1. batch' = [b EXCEPT !.finalReconcileAttempted = TRUE] /\ UNCHANGED report
  BY DEF FinishHuntBatch, SubmitFor
<1>2. /\ batch'.targets = b.targets /\ batch'.state = b.state
      /\ batch'.claimAttempted = b.claimAttempted /\ batch'.live
  BY <1>1 DEF Consistent, Batches
<1> QED
  BY <1>1, <1>2, FlagsMove DEF NeedsFinalReconcile

LEMMA ClaimMoves ==
  ASSUME NEW b, Consistent(b), CanClaim(b), ~b.claimAttempted,
         NEW rest, StartClaim(b, rest, FALSE)
  PROVE  Moved(b, batch') /\ batch'.live /\ UNCHANGED report
<1>1. batch' = [b EXCEPT !.claimAttempted = TRUE] /\ UNCHANGED report
  BY DEF StartClaim, SubmitFor
<1>2. /\ batch'.targets = b.targets /\ batch'.state = b.state
      /\ batch'.claimAttempted /\ batch'.live
      /\ batch'.finalReconcileAttempted = b.finalReconcileAttempted
  BY <1>1 DEF Consistent, Batches
<1>3. ASSUME NEW t \in Targets
      PROVE  StatusIn(b, t) \in {"idle", "done"}
  <2>1. CASE t \notin b.targets
    BY <2>1 DEF StatusIn
  <2>2. CASE t \in b.targets
    <3>1. b.outcome[t] \in {"success", "reconciled"}
      BY <2>2 DEF CanClaim
    <3>2. b.state[t] \in {"success", "reconciled"}
      BY <1>3, <3>1 DEF Consistent, Final
    <3> QED
      BY <2>2, <3>2 DEF StatusIn
  <2> QED
    BY <2>1, <2>2
<1>4. Moved(b, batch')
  BY <1>2, <1>3, FlagsMove
<1> QED
  BY <1>1, <1>2, <1>4

\* A callback that leaves the outcomes unreconciled leaves the batch running.
LEMMA DispatchNextMoves ==
  ASSUME NEW b, Consistent(b), ~b.claimAttempted, ~b.finalReconcileAttempted,
         NEW rest, DispatchNext(b, rest, FALSE)
  PROVE  Moved(b, batch') /\ batch'.live /\ UNCHANGED report
<1>1. CASE Complete(b) /\ CanClaim(b) /\ StartClaim(b, rest, FALSE)
  BY <1>1, ClaimMoves
<1>2. CASE Complete(b) /\ ~CanClaim(b) /\ FinishHuntBatch(b, rest, FALSE)
  <2>1. NeedsFinalReconcile(b)
    BY <1>2, FailureIsLeft DEF NeedsFinalReconcile
  <2> QED
    BY <1>2, <2>1, ReconcileMoves
<1>3. CASE Dispatchable(b) # {} /\ Dispatch(b, rest) /\ UNCHANGED report
  BY <1>3, DispatchMoves
<1>4. CASE batch' = b /\ UNCHANGED report
  BY <1>4, FlagsMove DEF Consistent
<1>5. CASE SlotRequestWait(b, rest, FALSE)
  <2>1. batch' = b /\ UNCHANGED report
    BY <1>5 DEF SlotRequestWait, SubmitFor
  <2> QED
    BY <2>1, FlagsMove DEF Consistent
<1> QED
  BY <1>1, <1>2, <1>3, <1>4, <1>5 DEF DispatchNext

-----------------------------------------------------------------------------
(* The callbacks *)

\* Of two commands only one can be outstanding: while the window waits for
\* something else, no reading after a claim has been refused.
LEMMA AnotherCommandMeansNotMisled ==
  ASSUME IInv, NEW k \in Outstanding, k.op # "waitAll" \/ k.res # "refused"
  PROVE  ~Misled
BY DEF IInv, OneOperationAtATime, Misled

\* The callbacks leave commands of other windows, and submit new ones.
Fresh(rest) == \A j \in tasks' : j \in rest \/ j.res = "running"

LEMMA SubmittedMeansNotMisled ==
  ASSUME NEW rest, Leftover(rest), Fresh(rest), win' = win
  PROVE  ~Misled'
BY DEF Leftover, Fresh, Misled, Outstanding, Mine

LEMMA HelpersSubmit ==
  ASSUME NEW b, NEW rest,
         \/ DispatchNext(b, rest, FALSE)
         \/ StartClaim(b, rest, FALSE)
         \/ FinishHuntBatch(b, rest, FALSE)
  PROVE  Fresh(rest)
<1>1. ASSUME NEW c, NEW op, NEW ids, SubmitFor(c, rest, op, ids)
      PROVE  Fresh(rest)
  BY <1>1 DEF SubmitFor, Task, Fresh
<1>2. ASSUME tasks' = rest PROVE Fresh(rest)
  BY <1>2 DEF Fresh
<1>3. CASE FinishHuntBatch(b, rest, FALSE)
  BY <1>1, <1>2, <1>3 DEF FinishHuntBatch
<1>4. CASE StartClaim(b, rest, FALSE)
  BY <1>1, <1>2, <1>4 DEF StartClaim, FinishHuntBatch
<1>5. CASE SlotRequestWait(b, rest, FALSE)
  BY <1>1, <1>2, <1>5 DEF SlotRequestWait
<1>6. CASE Dispatch(b, rest)
  BY <1>1, <1>6 DEF Dispatch
<1>7. CASE DispatchNext(b, rest, FALSE)
  BY <1>2, <1>3, <1>4, <1>5, <1>6, <1>7 DEF DispatchNext
<1> QED
  BY <1>3, <1>4, <1>7

\* The march of a batch came back: a failed dispatch is not the end, because
\* what failed is reconciled once before the batch ends.
LEMMA SlotDispatchFinishedMoves ==
  ASSUME IInv, ReconciledLast, NEW k \in tasks, SlotDispatchFinished(k)
  PROVE  Forward
<1> DEFINE S == k.ids
           b == IF k.res = "ok" THEN MarkDispatched(batch, k.ids)
                                ELSE MarkFailed(batch, k.ids)
           s == IF k.res = "ok" THEN "active" ELSE "failed"
<1>1. k \in Outstanding /\ k.op = "march" /\ batch.live
  BY DEF SlotDispatchFinished, ForBatch, Returned, Outstanding
<1>2. /\ waitRunning = (k.op = "waitAny") /\ Leftover(tasks \ {k})
      /\ Awaits(batch, k) /\ Consistent(batch)
  BY <1>1, CallbackContext
<1>3. waitRunning = FALSE
  BY <1>1, <1>2
<1>4. DispatchNext(b, tasks \ {k}, FALSE) /\ UNCHANGED <<quest, onRole, win>>
  BY <1>3 DEF SlotDispatchFinished, game
<1>5. /\ batch \in Batches /\ ~batch.claimAttempted
      /\ S # {} /\ S = IdsIn(batch, {"dispatching"})
      /\ S \in SUBSET batch.targets /\ batch.targets \in SUBSET Targets
      /\ \A t \in S : batch.state[t] = "dispatching"
  BY <1>1, <1>2 DEF Awaits, Consistent, IdsIn, Batches
<1>6. ~batch.finalReconcileAttempted
  BY <1>5 DEF ReconciledLast, Complete, IdsIn
<1>7. Marks(batch, b, S, s) /\ b.finalReconcileAttempted = batch.finalReconcileAttempted
  <2>1. CASE k.res = "ok"
    <3>1. Marks(batch, b, S, s)
      BY <1>5, <2>1, SetStateMarks DEF MarkDispatched, TargetStates, Final
    <3>2. b.finalReconcileAttempted = batch.finalReconcileAttempted
      BY <1>5, <2>1 DEF MarkDispatched, SetState, Batches
    <3> QED
      BY <3>1, <3>2
  <2>2. CASE k.res # "ok"
    <3>1. Marks(batch, b, S, s)
      BY <1>5, <2>2, RecordMarks DEF MarkFailed, Final
    <3>2. b.finalReconcileAttempted = batch.finalReconcileAttempted
      BY <1>5, <2>2 DEF MarkFailed, Record, SetState, Batches
    <3> QED
      BY <3>1, <3>2
  <2> QED
    BY <2>1, <2>2
<1>8. s \in {"active", "failed"}
  OBVIOUS
<1> HIDE DEF b, s
<1>9. Moved(batch, b)
  BY <1>5, <1>7, <1>8, MarkMoves
<1>10. Consistent(b)
  <2>1. IdsIn(b, {"active", "dispatching"})
          \subseteq IdsIn(batch, {"active", "dispatching"})
    BY <1>5, <1>7 DEF IdsIn, Marks
  <2>2. ActiveMonsterCount(b) <= Concurrency
    BY <1>2, <1>5, <2>1, SlotsShrink DEF Consistent
  <2>3. s \in TargetStates \ {"none"} /\ s \notin {"success", "reconciled"}
    BY <1>8 DEF TargetStates
  <2> QED
    BY <1>2, <1>5, <1>7, <2>2, <2>3, MarkKeepsConsistent DEF Final
<1>11. ~b.claimAttempted /\ ~b.finalReconcileAttempted
  BY <1>5, <1>6, <1>7 DEF Marks
<1>12. Moved(b, batch') /\ batch'.live /\ UNCHANGED report
  BY <1>4, <1>10, <1>11, DispatchNextMoves
<1>13. Moved(batch, batch')
  BY <1>5, <1>7, <1>9, <1>12, MovedTwice DEF Marks
<1>14. ~Misled /\ ~Misled'
  BY <1>1, <1>2, <1>4, AnotherCommandMeansNotMisled, HelpersSubmit,
     SubmittedMeansNotMisled
<1> QED
  BY <1>1, <1>4, <1>12, <1>13, <1>14 DEF Forward

\* A wait proved some marches over: they were over when it read them, and so
\* they still are.
LEMMA SlotWaitProvedMoves ==
  ASSUME IInv, ReconciledLast, NEW k \in tasks, SlotWaitProved(k)
  PROVE  Forward
<1> DEFINE S == k.found \cap IdsIn(batch, {"active"})
           b == MarkCompleted(batch, k.found)
<1>1. k \in Outstanding /\ k.op = "waitAny" /\ batch.live /\ k.res = "ok"
  BY DEF SlotWaitProved, ForBatch, Returned, Outstanding
<1>2. /\ Awaits(batch, k) /\ Truthful(k) /\ Consistent(batch)
      /\ Leftover(tasks \ {k})
  BY <1>1, CallbackContext
<1>3. DispatchNext(b, tasks \ {k}, FALSE) /\ UNCHANGED <<quest, onRole, win>>
  BY DEF SlotWaitProved, game
<1>4. /\ batch \in Batches /\ ~batch.claimAttempted
      /\ IdsIn(batch, {"active"}) # {}
      /\ S \in SUBSET batch.targets /\ batch.targets \in SUBSET Targets
      /\ \A t \in S : batch.state[t] = "active"
  BY <1>1, <1>2 DEF Awaits, Waits, Consistent, IdsIn, Batches
<1>5. ~batch.finalReconcileAttempted
  BY <1>4 DEF ReconciledLast, Complete, IdsIn
<1>6. \A t \in S : Terminal(t)
  BY <1>1, <1>2 DEF Truthful
<1>7. Marks(batch, b, S, "success")
  BY <1>4, RecordMarks DEF MarkCompleted, Final
<1>8. b.finalReconcileAttempted = batch.finalReconcileAttempted
  BY <1>4 DEF MarkCompleted, Record, SetState, Batches
<1> HIDE DEF b, S
<1>9. Moved(batch, b)
  BY <1>4, <1>6, <1>7, <1>8, MarkMoves
<1>10. Consistent(b)
  <2>1. IdsIn(b, {"active", "dispatching"})
          \subseteq IdsIn(batch, {"active", "dispatching"})
    BY <1>4, <1>7 DEF IdsIn, Marks
  <2>2. ActiveMonsterCount(b) <= Concurrency
    BY <1>2, <1>4, <2>1, SlotsShrink DEF Consistent
  <2> QED
    BY <1>2, <1>4, <1>6, <1>7, <2>2, MarkKeepsConsistent DEF Final, TargetStates
<1>11. ~b.claimAttempted /\ ~b.finalReconcileAttempted
  BY <1>4, <1>5, <1>7, <1>8 DEF Marks
<1>12. Moved(b, batch') /\ batch'.live /\ UNCHANGED report
  BY <1>3, <1>10, <1>11, DispatchNextMoves
<1>13. Moved(batch, batch')
  BY <1>4, <1>7, <1>8, <1>9, <1>12, MovedTwice DEF Marks
<1>14. ~Misled /\ ~Misled'
  BY <1>1, <1>2, <1>3, AnotherCommandMeansNotMisled, HelpersSubmit,
     SubmittedMeansNotMisled
<1> QED
  BY <1>1, <1>3, <1>12, <1>13, <1>14 DEF Forward

\* The answer to a claim only changes what is reported of it.
LEMMA ClaimFinishedMoves ==
  ASSUME IInv, NEW k \in tasks, ClaimFinished(k)
  PROVE  Forward
<1>1. k \in Outstanding /\ k.op = "claim" /\ batch.live
  BY DEF ClaimFinished, ForBatch, Returned, Outstanding
<1>2. Consistent(batch) /\ Leftover(tasks \ {k})
  BY <1>1, CallbackContext
<1>3. /\ batch' = [batch EXCEPT !.claimError = (@ \/ k.res # "ok")]
      /\ UNCHANGED <<quest, onRole, win, report>>
      /\ Fresh(tasks \ {k})
  BY DEF ClaimFinished, SubmitFor, Task, Fresh, game, ui
<1>4. /\ batch'.targets = batch.targets /\ batch'.state = batch.state
      /\ batch'.claimAttempted = batch.claimAttempted
      /\ batch'.finalReconcileAttempted = batch.finalReconcileAttempted
      /\ batch'.live
  BY <1>1, <1>2, <1>3 DEF Consistent, Batches
<1>5. Moved(batch, batch')
  BY <1>4, FlagsMove
<1>6. ~Misled /\ ~Misled'
  BY <1>1, <1>2, <1>3, AnotherCommandMeansNotMisled, SubmittedMeansNotMisled
<1> QED
  BY <1>1, <1>3, <1>4, <1>5, <1>6 DEF Forward

\* How a batch may end, in its own words.
LEMMA BatchIsOver ==
  ASSUME batch \in Batches, batch.live, Complete(batch),
         batch' = NewBatch({}), UNCHANGED game,
         \/ /\ report' = "verified" /\ Claim = "requested"
            /\ \A t \in batch.targets : quest[t] = "missing"
         \/ report' = "verified" /\ Claim = "misread"
         \/ report' = "claimError" /\ Claim \in {"requested", "misread"}
         \/ /\ report' = "unresolved"
            /\ \E t \in batch.targets : batch.state[t] = "failed"
  PROVE  Over
<1>1. \A t \in Targets : StatusIn(batch, t) \in Closed
  BY CompleteMeansClosed DEF Batches
<1>2. \A t \in Targets : StatusIn(batch, t) # "idle" => t \in batch.targets
  BY DEF StatusIn
<1>3. \A t \in Targets : StatusIn(batch', t) = "idle"
  BY NoBatchIsIdle
<1>4. batch'.live = FALSE /\ Claim' = "none"
  BY DEF NewBatch, Claim
<1>5. [t \in Targets |-> Status(t)]' = [t \in Targets |-> "idle"]
  BY <1>3, StatusOfBatch
<1>6. \A t \in Targets : [u \in Targets |-> Status(u)][t] = StatusIn(batch, t)
  BY StatusOfBatch
<1>7. \/ /\ report' = "verified" /\ Claim = "requested"
         /\ \A t \in Targets : StatusIn(batch, t) # "idle" => quest[t] = "missing"
      \/ report' = "verified" /\ Claim = "misread"
      \/ report' = "claimError" /\ Claim \in {"requested", "misread"}
      \/ /\ report' = "unresolved"
         /\ \E t \in Targets : StatusIn(batch, t) = "unresolved"
  <2>1. ASSUME NEW t \in batch.targets, batch.state[t] = "failed"
        PROVE  t \in Targets /\ StatusIn(batch, t) = "unresolved"
    BY <2>1 DEF StatusIn, Batches
  <2> QED
    BY <1>2, <2>1
<1>8. UNCHANGED <<quest, onRole>>
  BY DEF game
<1>9. Promise!End
  BY <1>1, <1>4, <1>5, <1>6, <1>7, <1>8 DEF Promise!End, Closed
<1> QED
  BY <1>9 DEF Over

\* "verified" is said when every target was seen missing, and one that is
\* missing does not come back; or when the reading was refused.
LEMMA ClaimVerifiedEnds ==
  ASSUME IInv, NEW k \in tasks, ClaimVerified(k)
  PROVE  Over
<1> DEFINE absent == k.res \in {"ok", "refused"} /\ k.found = batch.targets
           valid  == k.res = "ok" /\ absent
           b == [batch EXCEPT !.claimVerified = absent,
                              !.claimError = (@ \/ ~valid)]
<1>1. k \in Outstanding /\ k.op = "waitAll" /\ batch.live
  BY DEF ClaimVerified, ForBatch, Returned, Outstanding
<1>2. /\ waitRunning = (k.op = "waitAny")
      /\ Awaits(batch, k) /\ Truthful(k) /\ Consistent(batch)
  BY <1>1, CallbackContext
<1>3. waitRunning = FALSE
  BY <1>1, <1>2
<1>4. FinishHuntBatch(b, tasks \ {k}, FALSE) /\ UNCHANGED game
  BY <1>3 DEF ClaimVerified
<1>5. /\ batch \in Batches /\ batch.claimAttempted
      /\ Complete(batch) /\ CanClaim(batch)
  BY <1>1, <1>2 DEF Awaits, Consistent
<1>6. /\ valid => \A t \in batch.targets : quest[t] = "missing"
      /\ valid => ~Misled
      /\ absent /\ ~valid => Misled
  <2>1. valid => k.res = "ok"
    OBVIOUS
  <2>2. valid => ~Misled
    BY <1>1, <2>1, AnotherCommandMeansNotMisled
  <2>3. absent /\ ~valid => Misled
    BY <1>1 DEF Misled
  <2> QED
    BY <1>1, <1>2, <2>2, <2>3 DEF Truthful
<1>7. absent \in BOOLEAN /\ valid \in BOOLEAN /\ (valid => absent)
  OBVIOUS
<1> HIDE DEF absent, valid
<1>8. /\ b.targets = batch.targets /\ b.state = batch.state
      /\ b.outcome = batch.outcome /\ b.claimAttempted
      /\ absent => b.claimVerified
      /\ ~absent => ~b.claimVerified /\ b.claimError
  BY <1>5, <1>7 DEF Batches
<1> HIDE DEF b
<1>9. CanClaim(b)
  BY <1>5, <1>8 DEF CanClaim, Complete, IdsIn
<1>10. batch' = NewBatch({}) /\ report' = Summary(b)
  BY <1>4, <1>8 DEF FinishHuntBatch, NeedsFinalReconcile
<1>11. (report' = "verified" /\ absent) \/ report' = "claimError"
  <2>1. CASE absent
    <3>1. Summary(b) = "verified"
      BY <1>8, <2>1 DEF Summary
    <3> QED
      BY <1>10, <2>1, <3>1
  <2>2. CASE ~absent
    <3>1. ~b.claimVerified /\ b.claimError
      BY <1>8, <2>2
    <3>2. Summary(b) = "claimError"
      BY <1>9, <3>1 DEF Summary
    <3> QED
      BY <1>10, <3>2
  <2> QED
    BY <2>1, <2>2
<1>12. Claim = IF Misled THEN "misread" ELSE "requested"
  BY <1>5 DEF Claim
<1>13. CASE report' = "claimError"
  BY <1>1, <1>4, <1>5, <1>10, <1>12, <1>13, BatchIsOver
<1>14. CASE report' = "verified" /\ valid
  BY <1>1, <1>4, <1>5, <1>6, <1>10, <1>12, <1>14, BatchIsOver
<1>15. CASE report' = "verified" /\ absent /\ ~valid
  BY <1>1, <1>4, <1>5, <1>6, <1>10, <1>12, <1>15, BatchIsOver
<1> QED
  BY <1>11, <1>13, <1>14, <1>15

\* What failed was looked at once more: the claim is made, or the batch ends
\* and says that something is unresolved.
LEMMA FinalReconciledMovesOrEnds ==
  ASSUME IInv, NEW k \in tasks, FinalReconciled(k)
  PROVE  Forward \/ Over
<1> DEFINE S == {t \in k.found \cap batch.targets : batch.outcome[t] = "failed"}
           b == IF k.res = "ok" THEN ReconcileTerminalOutcomes(batch, k.found)
                                ELSE batch
<1>1. k \in Outstanding /\ k.op = "status" /\ batch.live
  BY DEF FinalReconciled, ForBatch, Returned, Outstanding
<1>2. /\ waitRunning = (k.op = "waitAny") /\ Leftover(tasks \ {k})
      /\ Awaits(batch, k) /\ Truthful(k) /\ Consistent(batch)
  BY <1>1, CallbackContext
<1>3. waitRunning = FALSE
  BY <1>1, <1>2
<1>4. /\ IF CanClaim(b) THEN StartClaim(b, tasks \ {k}, FALSE)
                        ELSE FinishHuntBatch(b, tasks \ {k}, FALSE)
      /\ UNCHANGED game /\ win' = win
  BY <1>3 DEF FinalReconciled
<1>5. /\ batch \in Batches /\ ~batch.claimAttempted /\ Complete(batch)
      /\ batch.targets \in SUBSET Targets
  BY <1>1, <1>2 DEF Awaits, Consistent, Batches
<1>6. S \in SUBSET batch.targets /\ \A t \in S : batch.state[t] = "failed"
  <2> SUFFICES ASSUME NEW t \in S PROVE batch.state[t] = "failed"
    OBVIOUS
  <2> QED
    BY <1>2, <1>5 DEF Consistent
<1>7. /\ Moved(batch, b) /\ Consistent(b) /\ Complete(b)
      /\ b.claimAttempted = batch.claimAttempted /\ b.targets = batch.targets
      /\ b.finalReconcileAttempted = batch.finalReconcileAttempted
      /\ \A t \in b.targets : b.state[t] = "failed" => batch.state[t] = "failed"
  <2>1. CASE k.res # "ok"
    BY <1>2, <1>5, <2>1, FlagsMove
  <2>2. CASE k.res = "ok"
    <3>1. Marks(batch, b, S, "reconciled")
      BY <1>5, <2>2, RecordMarks DEF ReconcileTerminalOutcomes, Final
    <3>2. b.finalReconcileAttempted = batch.finalReconcileAttempted
      BY <1>5, <2>2 DEF ReconcileTerminalOutcomes, Record, SetState, Batches
    <3>3. \A t \in S : Terminal(t)
      BY <1>1, <1>2, <2>2 DEF Truthful
    <3> HIDE DEF b, S
    <3>4. Moved(batch, b)
      BY <1>5, <1>6, <3>1, <3>2, <3>3, MarkMoves
    <3>5. IdsIn(b, {"active", "dispatching"})
            \subseteq IdsIn(batch, {"active", "dispatching"})
      BY <1>5, <3>1 DEF IdsIn, Marks
    <3>6. ActiveMonsterCount(b) <= Concurrency
      BY <1>2, <1>5, <3>5, SlotsShrink DEF Consistent
    <3>7. Consistent(b)
      BY <1>2, <1>5, <1>6, <3>1, <3>3, <3>6, MarkKeepsConsistent
         DEF Final, TargetStates
    <3>8. Complete(b)
      BY <1>5, <3>1 DEF Complete, IdsIn, Marks
    <3>9. \A t \in b.targets : b.state[t] = "failed" => batch.state[t] = "failed"
      BY <1>5, <1>6, <3>1 DEF Marks
    <3> QED
      BY <1>5, <3>1, <3>2, <3>4, <3>7, <3>8, <3>9 DEF Marks
  <2> QED
    BY <2>1, <2>2
<1> HIDE DEF b, S
<1>8. ASSUME Moved(b, batch'), batch'.live, UNCHANGED report
      PROVE  Forward
  <2>1. Moved(batch, batch')
    BY <1>5, <1>7, <1>8, MovedTwice
  <2>2. Fresh(tasks \ {k})
    BY <1>4, HelpersSubmit
  <2>3. ~Misled /\ ~Misled'
    BY <1>1, <1>2, <1>4, <2>2, AnotherCommandMeansNotMisled,
       SubmittedMeansNotMisled
  <2> QED
    BY <1>1, <1>4, <1>8, <2>1, <2>3 DEF Forward, game
<1>9. CASE CanClaim(b)
  BY <1>4, <1>5, <1>7, <1>8, <1>9, ClaimMoves
<1>10. CASE ~CanClaim(b) /\ NeedsFinalReconcile(b)
  BY <1>4, <1>7, <1>8, <1>10, ReconcileMoves
<1>11. CASE ~CanClaim(b) /\ ~NeedsFinalReconcile(b)
  <2>1. batch' = NewBatch({}) /\ report' = Summary(b)
    BY <1>4, <1>11 DEF FinishHuntBatch
  <2>2. report' = "unresolved"
    BY <1>7, <1>11, <2>1 DEF Summary, Consistent
  <2>3. \E t \in batch.targets : batch.state[t] = "failed"
    BY <1>7, <1>11, FailureIsLeft
  <2> QED
    BY <1>1, <1>4, <1>5, <2>1, <2>2, <2>3, BatchIsOver
<1> QED
  BY <1>9, <1>10, <1>11

-----------------------------------------------------------------------------
(* Every step is of one of the kinds *)

LEMMA CallbackKind ==
  ASSUME IInv, ReconciledLast, NEW k \in tasks, Callback(k)
  PROVE  Kinds
<1>1. CASE StaleResult(k) \/ IntelRefreshed(k) \/ PlainFinished(k)
  <2>1. UNCHANGED <<quest, onRole, batch, report>>
    BY <1>1 DEF StaleResult, IntelRefreshed, PlainFinished, game
  <2>2. CASE ~batch.live
    <3>1. ~batch.claimAttempted
      BY <2>2, NoBatchIsIdle DEF IInv, WindowOK
    <3> QED
      BY <2>1, <3>1 DEF SameReading, Still, Kinds
  <2>3. CASE batch.live
    <3>1. StaleResult(k) /\ ~Mine(k)
      <4>1. CASE StaleResult(k)
        <5>1. ASSUME Mine(k) PROVE FALSE
          <6>1. k \in Outstanding
            BY <5>1 DEF Outstanding
          <6>2. k.op \in BatchOps
            BY <2>3, <6>1 DEF IInv, Awaits
          <6> QED
            BY <2>3, <4>1, <5>1, <6>2 DEF StaleResult, BatchOps
        <5> QED
          BY <4>1, <5>1
      <4>2. CASE IntelRefreshed(k) \/ PlainFinished(k)
        <5>1. k \in Outstanding /\ k.op \in {"inspect", "toggle", "restart"}
          BY <4>2 DEF IntelRefreshed, PlainFinished, Returned, Outstanding
        <5> QED
          BY <2>3, <5>1 DEF IInv, Awaits, BatchOps
      <4> QED
        BY <1>1, <4>1, <4>2
    <3>2. tasks' = tasks \ {k} /\ UNCHANGED <<win, exists>>
      BY <3>1 DEF StaleResult, ui
    <3>3. Outstanding' = Outstanding
      BY <3>1, <3>2 DEF Outstanding, Mine
    <3> QED
      BY <2>1, <3>3 DEF Misled, SameReading, Still, Kinds
  <2> QED
    BY <2>2, <2>3
<1>2. CASE SlotDispatchFinished(k)
  BY <1>2, SlotDispatchFinishedMoves DEF Kinds
<1>3. CASE SlotWaitProved(k)
  BY <1>3, SlotWaitProvedMoves DEF Kinds
<1>4. CASE SlotWaitFailed(k)
  <2>1. k \in Outstanding /\ k.op = "waitAny"
    BY <1>4 DEF SlotWaitFailed, ForBatch, Returned, Outstanding
  <2>2. ~batch.claimAttempted
    BY <2>1 DEF IInv, Awaits, Waits
  <2> QED
    BY <1>4, <2>2 DEF SlotWaitFailed, game, SameReading, Still, Kinds
<1>5. CASE ClaimFinished(k)
  BY <1>5, ClaimFinishedMoves DEF Kinds
<1>6. CASE ClaimVerified(k)
  BY <1>6, ClaimVerifiedEnds DEF Kinds
<1>7. CASE FinalReconciled(k)
  BY <1>7, FinalReconciledMovesOrEnds DEF Kinds
<1> QED
  BY <1>1, <1>2, <1>3, <1>4, <1>5, <1>6, <1>7 DEF Callback

LEMMA StartHuntKind ==
  ASSUME IInv, StartHunt
  PROVE  Starts
<1>1. PICK T \in (SUBSET items) \ {{}} : Dispatch(NewBatch(T), tasks)
  BY DEF StartHunt
<1>2. T \in SUBSET Targets /\ T # {}
  BY DEF IInv, TypeOK
<1> DEFINE t == FirstOf(Dispatchable(NewBatch(T)))
<1>3. Dispatchable(NewBatch(T)) \subseteq Targets /\ Dispatchable(NewBatch(T)) # {}
  BY <1>2, NewBatchIsConsistent DEF Dispatchable, IdsIn, NewBatch
<1>4. t \in Targets
  BY <1>3, FirstOfIsMember
<1>5. batch' = SetState(NewBatch(T), {t}, "dispatching")
  BY <1>1 DEF Dispatch, SubmitFor
<1>6. ~batch.live /\ report' = "none" /\ UNCHANGED game
  BY NotBusyMeansIdle DEF StartHunt
<1> HIDE DEF t
<1> QED
  BY <1>2, <1>4, <1>5, <1>6 DEF Starts

\* A command of the batch's own reading may be refused, and then the batch has
\* misread the effect of its claim; any other leaves the readings as they were.
LEMMA CommandKind ==
  ASSUME IInv, NEW k \in tasks, CommandRuns(k), Rest
  PROVE  Kinds
<1>1. Lasting /\ UNCHANGED <<batch, report, win, exists>>
  BY CommandReturns DEF Rest, ui
<1>2. PICK res \in Results, found \in SUBSET Targets : Returns(k, res, found)
  BY CommandReturns
<1> DEFINE c == [k EXCEPT !.res = res, !.found = found]
<1>3. k \in Tasks
  BY DEF IInv, TypeOK
<1>4. c.op = k.op /\ c.win = k.win /\ c.res = res
  BY <1>3 DEF Tasks
<1>5. tasks' = (tasks \ {k}) \cup {c}
  BY <1>2 DEF Returns
<1>6. k.res = "running"
  BY DEF CommandRuns, CommandSucceeds, CommandFails, MarchAccepted, MarchBlocked,
         MarchUnproved, StatusRead, ForeignReading, ClaimIntel, InspectTasks,
         PlainCommand
<1> HIDE DEF c
<1>7. CASE k \notin Outstanding
  <2>1. Outstanding' = Outstanding
    BY <1>1, <1>4, <1>5, <1>7 DEF Outstanding, Mine
  <2> QED
    BY <1>1, <2>1 DEF Misled, SameReading, Elapses, Kinds
<1>8. CASE k \in Outstanding
  <2>1. Outstanding' = {c} /\ ~Misled
    <3>1. \A j \in Outstanding : j = k
      BY <1>8 DEF IInv, OneOperationAtATime
    <3> QED
      BY <1>1, <1>4, <1>5, <1>6, <1>8, <3>1, AnotherCommandMeansNotMisled
         DEF Outstanding, Mine
  <2>2. CASE k.op # "waitAll" \/ res # "refused" \/ ~batch.claimAttempted
    <3>1. batch.claimAttempted => ~Misled'
      BY <1>4, <2>1, <2>2 DEF Misled
    <3> QED
      BY <1>1, <2>1, <3>1 DEF SameReading, Elapses, Kinds
  <2>3. CASE k.op = "waitAll" /\ res = "refused" /\ batch.claimAttempted
    <3>1. Misled'
      BY <1>4, <2>1, <2>3 DEF Misled
    <3>2. Claim = "requested" /\ Claim' = "misread"
      BY <1>1, <2>1, <2>3, <3>1 DEF Claim
    <3>3. c \in tasks' /\ c.res = "refused"
      BY <1>4, <1>5, <2>3
    <3>4. ForeignReading(k)
      <4>1. \A r, f : Returns(k, r, f) => r = "refused"
        <5> SUFFICES ASSUME NEW r, NEW f, Returns(k, r, f)
                     PROVE  r = "refused"
          OBVIOUS
        <5> DEFINE d == [k EXCEPT !.res = r, !.found = f]
        <5>1. d.res = r /\ d.op = k.op /\ d.win = k.win
          BY <1>3 DEF Tasks
        <5>2. d \in tasks'
          BY DEF Returns
        <5> HIDE DEF d
        <5>3. d \in Outstanding'
          BY <1>1, <1>8, <5>1, <5>2 DEF Outstanding, Mine
        <5> QED
          BY <1>4, <2>1, <2>3, <5>1, <5>3
      <4> QED
        BY <2>3, <4>1 DEF CommandRuns, CommandSucceeds, CommandFails,
           MarchAccepted, MarchBlocked, MarchUnproved, StatusRead, ClaimIntel,
           InspectTasks, PlainCommand
    <3>5. ~onRole /\ UNCHANGED <<quest, onRole>>
      BY <3>4 DEF ForeignReading
    <3>6. batch.live = TRUE
      BY <1>8, <2>3 DEF IInv, Awaits, BatchOps, TypeOK, Batches
    <3>7. \A t \in Targets : Status(t)' = Status(t)
      BY <1>1 DEF Status
    <3>8. Promise!Misread
      BY <1>1, <3>2, <3>5, <3>6, <3>7 DEF Promise!Misread
    <3> QED
      BY <1>1, <3>8 DEF Misread, Kinds
  <2> QED
    BY <2>2, <2>3
<1> QED
  BY <1>7, <1>8

LEMMA StepKind ==
  ASSUME IInv, ReconciledLast, [Next]_vars
  PROVE  Kinds
<1> USE DEF SameReading
<1>1. CASE RefreshIntel \/ ToggleWorld \/ RestartGame
  <2>1. exists /\ ~busy /\ UNCHANGED <<quest, onRole, batch, report>>
    BY <1>1 DEF RefreshIntel, ToggleWorld, RestartGame, Submit, game
  <2>2. ~batch.claimAttempted
    BY <2>1, NotBusyMeansIdle, NoBatchIsIdle DEF IInv, WindowOK
  <2> QED
    BY <2>1, <2>2 DEF Still, Kinds
<1>2. CASE StartHunt
  BY <1>2, StartHuntKind DEF Kinds
<1>3. CASE CloseWindow
  BY <1>3 DEF CloseWindow, game, Gone, Kinds
<1>4. CASE OpenWindow
  <2>1. ~batch.claimAttempted
    BY <1>4, NoBatchIsIdle DEF OpenWindow, IInv, WindowOK
  <2> QED
    BY <1>4, <2>1 DEF OpenWindow, game, Still, Kinds
<1>5. CASE RetryTimerFires
  <2>1. ~batch.claimAttempted
    BY <1>5 DEF RetryTimerFires, IInv, Waits
  <2> QED
    BY <1>5, <2>1
       DEF RetryTimerFires, SlotRequestWait, SubmitFor, game, Still, Kinds
<1>6. ASSUME NEW k \in tasks, Callback(k) PROVE Kinds
  BY <1>6, CallbackKind
<1>7. ASSUME NEW k \in tasks, CommandRuns(k), Rest PROVE Kinds
  BY <1>7, CommandKind
<1>8. CASE GameStep /\ Rest
  <2>1. TypeOK
    BY DEF IInv
  <2>2. ASSUME PlayerSwitchesRole PROVE Lasting
    BY <2>1, <2>2 DEF PlayerSwitchesRole, Lasting, TypeOK, Terminal
  <2>3. ASSUME NEW t \in Targets,
               MarchReturns(t) \/ QuestDisappears(t) \/ PlayerRecalls(t)
        PROVE  Lasting
    BY <2>1, <2>3 DEF MarchReturns, QuestDisappears, PlayerRecalls, Lasting,
                      TypeOK, Terminal, QuestStates
  <2>4. Lasting
    BY <1>8, <2>2, <2>3 DEF GameStep
  <2>5. tasks' = tasks /\ UNCHANGED <<batch, report, win, exists>>
    BY <1>8 DEF GameStep, PlayerSwitchesRole, MarchReturns, QuestDisappears,
                PlayerRecalls, Rest, ui
  <2>6. Misled' <=> Misled
    BY <2>5 DEF Misled, Outstanding, Mine
  <2> QED
    BY <2>4, <2>5, <2>6 DEF Elapses, Kinds
<1>9. CASE UNCHANGED vars
  <2>1. Misled' <=> Misled
    BY <1>9 DEF vars, Misled, Outstanding, Mine
  <2> QED
    BY <1>9, <2>1 DEF vars, Still, Kinds
<1> QED
  BY <1>1, <1>2, <1>3, <1>4, <1>5, <1>6, <1>7, <1>8, <1>9 DEF Next, Buttons, Rest

-----------------------------------------------------------------------------
(* Every kind of step is a step of IntelBatch or a stutter *)

Mapped(b) == [t \in Targets |-> StatusIn(b, t)]

LEMMA MappedStatus ==
  /\ [t \in Targets |-> Status(t)] = Mapped(batch)
  /\ [t \in Targets |-> Status(t)]' = Mapped(batch')
BY StatusOfBatch DEF Mapped

LEMMA ForwardIsAdvance ==
  ASSUME TypeOK, Forward, batch'.live \in BOOLEAN
  PROVE  Promise!Advance
<1>1. batch.live = TRUE /\ batch'.live = TRUE
  BY DEF Forward, TypeOK, Batches
<1>2. Mapped(batch') \in [Targets -> Promise!Statuses]
  BY StatusIsStatus DEF Mapped
<1>3. \A t \in Targets :
        /\ Mapped(batch')[t] \in Promise!After(Mapped(batch)[t])
        /\ Mapped(batch')[t] = "done" /\ Mapped(batch)[t] # "done"
             => quest[t] \in {"completed", "missing"}
  BY DEF Forward, Moved, Mapped, Terminal
<1>4. \/ Claim' = Claim
      \/ /\ Claim = "none" /\ Claim' = "requested"
         /\ \A t \in Targets : Mapped(batch')[t] \in {"idle", "done"}
  BY DEF Forward, Moved, Mapped, Claim
<1>5. UNCHANGED <<quest, onRole, report>>
  BY DEF Forward
<1> QED
  BY <1>1, <1>2, <1>3, <1>4, <1>5, MappedStatus DEF Promise!Advance

LEMMA GoneIsAbandon ==
  ASSUME Gone
  PROVE  Promise!Abandon
<1>1. batch'.live = FALSE /\ Claim' = "none" /\ UNCHANGED <<quest, onRole>>
  BY DEF Gone, NewBatch, Claim, game
<1>2. Mapped(batch') = [t \in Targets |-> "idle"]
  BY NoBatchIsIdle DEF Gone, Mapped
<1> QED
  BY <1>1, <1>2, MappedStatus DEF Gone, Promise!Abandon

LEMMA StartsIsBegin ==
  ASSUME TypeOK, Starts
  PROVE  Promise!Begin /\ ~batch'.finalReconcileAttempted
<1>1. PICK T \in SUBSET Targets, t \in Targets :
        T # {} /\ batch' = SetState(NewBatch(T), {t}, "dispatching")
  BY DEF Starts
<1>2. /\ batch'.live = TRUE /\ batch'.targets = T
      /\ batch'.claimAttempted = FALSE /\ batch'.finalReconcileAttempted = FALSE
      /\ \A u \in Targets :
           u \in T => batch'.state[u] \in {"pending", "dispatching"}
  BY <1>1 DEF NewBatch, SetState
<1>3. \A u \in Targets : StatusIn(batch', u) \in {"idle", "open", "underway"}
  BY <1>2 DEF StatusIn
<1>4. Mapped(batch') \in [Targets -> {"idle", "open", "underway"}]
  BY <1>3 DEF Mapped
<1>5. batch.live = FALSE /\ report' = "none" /\ UNCHANGED <<quest, onRole>>
  BY DEF Starts, TypeOK, Batches, game
<1>6. Claim' = "none"
  BY <1>2 DEF Claim
<1> QED
  BY <1>2, <1>4, <1>5, <1>6, MappedStatus DEF Promise!Begin

LEMMA ElapsesIsGameMoves ==
  ASSUME Elapses
  PROVE  Promise!GameMoves
<1>1. Mapped(batch') = Mapped(batch)
  BY DEF Elapses
<1>2. quest' \in [Targets -> QuestStates] /\ onRole' \in BOOLEAN /\ Claim' = Claim
  BY DEF Elapses, Lasting, SameReading, Claim
<1>3. \A t \in Targets :
        /\ quest[t] = "completed" => quest'[t] \in {"completed", "missing"}
        /\ quest[t] = "missing" => quest'[t] = "missing"
  BY DEF Elapses, Lasting, Terminal
<1> QED
  BY <1>1, <1>2, <1>3, MappedStatus DEF Elapses, Promise!GameMoves, QuestStates

LEMMA KindsKeepPromise ==
  ASSUME TypeOK, batch'.live \in BOOLEAN, Kinds
  PROVE  [Promise!Next]_(Promise!vars)
<1>1. CASE Forward
  BY <1>1, ForwardIsAdvance DEF Promise!Next
<1>2. CASE Over
  BY <1>2 DEF Over, Promise!Next
<1>3. CASE Gone
  BY <1>3, GoneIsAbandon DEF Promise!Next
<1>4. CASE Still
  BY <1>4, MappedStatus DEF Still, SameReading, Claim, Promise!vars
<1>5. CASE Elapses
  BY <1>5, ElapsesIsGameMoves DEF Promise!Next
<1>6. CASE Starts
  BY <1>6, StartsIsBegin DEF Promise!Next
<1>7. CASE Misread
  BY <1>7 DEF Misread, Promise!Next
<1> QED
  BY <1>1, <1>2, <1>3, <1>4, <1>5, <1>6, <1>7 DEF Kinds

\* What is closed stays closed, so that a batch once reconciled has nothing
\* more to wait for.
LEMMA KindsKeepReconciledLast ==
  ASSUME TypeOK, TypeOK', ReconciledLast, Kinds
  PROVE  ReconciledLast'
<1>1. CASE Forward
  <2> SUFFICES ASSUME batch'.finalReconcileAttempted PROVE Complete(batch')
    BY DEF ReconciledLast
  <2>1. CASE Complete(batch)
    <3>1. \A t \in Targets : StatusIn(batch, t) \in Closed
      BY <2>1, CompleteMeansClosed DEF TypeOK, Batches
    <3>2. \A t \in Targets : StatusIn(batch', t) \in Closed
      BY <1>1, <3>1, ClosedStaysClosed DEF Forward, Moved
    <3> QED
      BY <3>2, CompleteMeansClosed DEF TypeOK, Batches
  <2>2. CASE ~Complete(batch)
    BY <1>1, <2>2 DEF Forward, Moved, ReconciledLast
  <2> QED
    BY <2>1, <2>2
<1>2. CASE Over \/ Gone
  BY <1>2, NoBatchIsIdle DEF Over, Gone, ReconciledLast
<1>3. CASE Still \/ Elapses \/ Misread
  BY <1>3 DEF Still, Elapses, Misread, ReconciledLast
<1>4. CASE Starts
  BY <1>4, StartsIsBegin DEF ReconciledLast
<1> QED
  BY <1>1, <1>2, <1>3, <1>4 DEF Kinds

-----------------------------------------------------------------------------

LEMMA InitKeepsPromise == Init => Promise!Init /\ ReconciledLast
<1> SUFFICES ASSUME Init PROVE Promise!Init /\ ReconciledLast
  OBVIOUS
<1>1. batch = NewBatch({}) /\ report = "none" /\ onRole = TRUE
      /\ quest \in [Targets -> {"available", "missing"}]
  BY DEF Init
<1>2. batch.live = FALSE /\ batch.claimAttempted = FALSE
      /\ batch.finalReconcileAttempted = FALSE
  BY <1>1 DEF NewBatch
<1>3. Mapped(batch) = [t \in Targets |-> "idle"]
  BY <1>1, NoBatchIsIdle DEF Mapped
<1>4. Promise!Init
  BY <1>1, <1>2, <1>3, MappedStatus DEF Promise!Init, Claim
<1>5. ReconciledLast
  BY <1>2 DEF ReconciledLast
<1> QED
  BY <1>4, <1>5

\* A window that runs a batch over its slots keeps what IntelBatch promises:
\* targets only move forward, are done only when the game is done with them,
\* the claim is made once and when everything is done, and "verified" is said
\* only when the game lists no target any more, or when the reading after the
\* claim was refused as one of another role and listed none of them.
THEOREM PromiseKept == Spec => KeepsPromise
<1>1. Init => IInv /\ ReconciledLast /\ Promise!Init
  BY InitEstablishesIInv, InitKeepsPromise
<1>2. ASSUME IInv, ReconciledLast, [Next]_vars
      PROVE  IInv' /\ ReconciledLast' /\ [Promise!Next]_(Promise!vars)
  <2>1. IInv'
    BY <1>2, NextKeepsIInv
  <2>2. Kinds
    BY <1>2, StepKind
  <2>3. TypeOK /\ TypeOK'
    BY <1>2, <2>1 DEF IInv
  <2>4. batch'.live \in BOOLEAN
    BY <2>3 DEF TypeOK, Batches
  <2>5. ReconciledLast'
    BY <1>2, <2>2, <2>3, KindsKeepReconciledLast
  <2>6. [Promise!Next]_(Promise!vars)
    BY <2>2, <2>3, <2>4, KindsKeepPromise
  <2> QED
    BY <2>1, <2>5, <2>6
<1> QED
  BY <1>1, <1>2, PTL DEF Spec, KeepsPromise, Promise!Spec
=============================================================================
