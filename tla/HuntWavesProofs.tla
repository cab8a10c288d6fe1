---------------------------- MODULE HuntWavesProofs ----------------------------
(***************************************************************************)
(* The safety of HuntWaves for every number of targets and every wave      *)
(* size.  IInv says what the batch looks like while each kind of command   *)
(* is outstanding, and how it is cut: behind the current wave every        *)
(* target has its outcome and no march is on the road, ahead of it         *)
(* nothing was sent; a stopped batch keeps what follows from that.  The    *)
(* second half proves that HuntWaves implements IntelBatch.                *)
(***************************************************************************)
EXTENDS HuntWaves, FiniteSetTheorems, TLAPS

Proved  == {"success", "reconciled"}
Settled == Proved \cup {"failed"}

Started(b, t) == b.state[t] \notin {"pending", "skipped"}

-----------------------------------------------------------------------------
(* The invariant *)

\* How a batch is cut while it goes on ...
Behind(b) ==
  \A t \in b.targets : WaveOf(b.targets, t) < b.wave =>
    b.state[t] \in Settled /\ quest[t] # "marching"

Ahead(b) ==
  \A t \in b.targets : WaveOf(b.targets, t) > b.wave => b.state[t] = "pending"

\* ... and what is left of that when it was stopped.
Over(b) ==
  /\ b.wave = AfterLastWave
  /\ \A t \in b.targets : b.state[t] \in Settled \cup {"skipped"}

Ordered(b) ==
  \A t, u \in b.targets :
    Started(b, t) /\ WaveOf(b.targets, u) < WaveOf(b.targets, t) =>
      b.state[u] \in Settled

OneWave(b) ==
  \A t, u \in b.targets :
    Started(b, t) /\ Started(b, u) /\ quest[t] = "marching" /\ quest[u] = "marching"
      => WaveOf(b.targets, t) = WaveOf(b.targets, u)

Good(b) ==
  /\ b \in Batches
  /\ b.live
  /\ b.targets # {}
  /\ ~b.claimVerified
  /\ b.claimAttempted => CanClaim(b)
  /\ b.finalReconcileAttempted => AllWavesDone(b)
  /\ \A t \in b.targets : b.state[t] # "none"
  /\ \A t \in b.targets : b.state[t] \in Proved => Terminal(t)
  /\ b.phase # "stopped" => Behind(b) /\ Ahead(b)
  /\ b.phase = "stopped" => Over(b) /\ Ordered(b) /\ OneWave(b)

\* The current wave has its results; what has failed did not set out.
Resulted(b) ==
  /\ ~AllWavesDone(b)
  /\ ~b.claimAttempted
  /\ \A t \in CurrentWave(b) :
       /\ b.state[t] \in {"dispatched", "failed", "dispatch_error"}
       /\ b.state[t] = "failed" => quest[t] # "marching"

\* The state b a batch is in while it waits for command k.
Awaits(b, k) ==
  /\ k.callback = "refreshed" <=> ~b.live
  /\ k.op = "march" <=> k.callback = "batch_dispatch_finished"
  /\ k.callback \in {"wave_wait_finished", "claim_verified"} => k.op = "waitAll"
  /\ k.callback = "final_reconciled" => k.op = "status"
  /\ k.callback = "batch_dispatch_finished" =>
       /\ b.phase = "dispatching" /\ ~AllWavesDone(b) /\ ~b.claimAttempted
       /\ k.ids = CurrentWave(b) /\ k.ids = InWave(b, {"dispatching"})
  /\ k.callback = "march_reconciled" =>
       /\ b.phase = "reconciling" /\ Resulted(b)
       /\ InWave(b, {"dispatch_error"}) # {}
  /\ k.callback \in {"wave_wait_finished", "wave_reconciled"} =>
       /\ b.phase = "waiting" /\ Resulted(b)
       /\ InWave(b, {"dispatch_error"}) = {}
       /\ InWave(b, {"dispatched"}) # {}
  /\ k.callback = "wave_wait_finished" => k.ids = InWave(b, {"dispatched"})
  /\ k.callback \in {"claim_finished", "claim_verified", "final_reconciled"} =>
       k.ids = b.targets /\ AllWavesDone(b)
  /\ k.callback \in {"claim_finished", "claim_verified"} => b.claimAttempted
  /\ k.callback = "final_reconciled" =>
       b.finalReconcileAttempted /\ ~b.claimAttempted

\* What the receipt of k says of the game is true until its callback runs.
Truthful(k) ==
  /\ k.op = "march" =>
       /\ k.found \cup k.held \cup k.todo \subseteq k.ids
       /\ k.held \cap k.todo = {}
       /\ \A t \in k.held : quest[t] # "marching"
  /\ k.res = "ok" =>
       /\ k.callback = "wave_wait_finished" => \A t \in k.ids : Terminal(t)
       /\ k.callback = "claim_verified" => \A t \in k.found : quest[t] = "missing"
       /\ k.callback = "final_reconciled" => \A t \in k.found : Terminal(t)

OneCommand ==
  /\ busy <=> tasks # {}
  /\ \A j, k \in tasks : j = k

IInv ==
  /\ TypeOK
  /\ OneCommand
  /\ batch.live <=> batch.targets # {}
  /\ batch.live => Good(batch) /\ tasks # {}
  /\ \A k \in tasks : Awaits(batch, k) /\ Truthful(k)

-----------------------------------------------------------------------------
(* Waves *)

LEMMA FiniteTargets ==
  ASSUME NEW S \in SUBSET Targets
  PROVE  /\ IsFiniteSet(S) /\ Cardinality(S) \in Nat
         /\ Cardinality(S) <= NumTargets
<1>1. NumTargets \in Nat
  BY TargetsAssumption
<1>2. IsFiniteSet(Targets) /\ Cardinality(Targets) = NumTargets
  BY <1>1, FS_Interval DEF Targets
<1>3. IsFiniteSet(S) /\ Cardinality(S) <= Cardinality(Targets)
  BY <1>2, FS_Subset
<1> QED
  BY <1>2, <1>3, FS_CardinalityType

LEMMA WaveType ==
  ASSUME NEW T \in SUBSET Targets, NEW t
  PROVE  WaveOf(T, t) \in 0..NumTargets
<1> DEFINE n == Cardinality({u \in T \cap Monsters : u < t})
<1>1. n \in Nat /\ n <= NumTargets
  BY FiniteTargets
<1> HIDE DEF n
<1>2. NumTargets \in Nat
  BY TargetsAssumption
<1>3. n \div Concurrency \in 0..NumTargets
  <2>1. Concurrency = 1 \/ Concurrency = 2 \/ Concurrency = 3 \/ Concurrency = 4
    BY WavesAssumption
  <2>2. CASE Concurrency = 1
    BY <1>1, <1>2, <2>2
  <2>3. CASE Concurrency = 2
    BY <1>1, <1>2, <2>3
  <2>4. CASE Concurrency = 3
    BY <1>1, <1>2, <2>4
  <2>5. CASE Concurrency = 4
    BY <1>1, <1>2, <2>5
  <2> QED
    BY <2>1, <2>2, <2>3, <2>4, <2>5
<1> QED
  BY <1>2, <1>3 DEF WaveOf, n

\* What the lemmas below use of the waves of a batch.
LEMMA Waves ==
  ASSUME NEW b \in Batches
  PROVE  /\ b.targets \in SUBSET Targets
         /\ b.wave \in Nat /\ b.wave <= AfterLastWave /\ AfterLastWave \in Nat
         /\ \A t \in b.targets : /\ WaveOf(b.targets, t) \in Nat
                                 /\ WaveOf(b.targets, t) < AfterLastWave
         /\ b.wave = AfterLastWave => AllWavesDone(b)
         /\ ~AllWavesDone(b) => b.wave < AfterLastWave
<1>1. NumTargets \in Nat
  BY TargetsAssumption
<1>2. b.targets \in SUBSET Targets /\ b.wave \in 0..(NumTargets + 1)
  BY DEF Batches
<1>3. \A t \in b.targets : WaveOf(b.targets, t) \in 0..NumTargets
  BY <1>2, WaveType
<1> QED
  BY <1>1, <1>2, <1>3 DEF AfterLastWave, AllWavesDone

-----------------------------------------------------------------------------
(* The helpers on a batch *)

\* What no helper on the targets changes.
Frame(b, c) ==
  /\ c \in Batches
  /\ c.live = b.live
  /\ c.targets = b.targets
  /\ c.claimAttempted = b.claimAttempted
  /\ c.claimVerified = b.claimVerified
  /\ c.claimError = b.claimError
  /\ c.finalReconcileAttempted = b.finalReconcileAttempted

LEMMA SetStateMarks ==
  ASSUME NEW b \in Batches, NEW S, NEW s \in TargetStates
  PROVE  /\ Frame(b, SetState(b, S, s))
         /\ SetState(b, S, s).wave = b.wave
         /\ SetState(b, S, s).phase = b.phase
         /\ SetState(b, S, s).reconciledDetails = b.reconciledDetails
         /\ \A t \in Targets :
              SetState(b, S, s).state[t] = IF t \in S THEN s ELSE b.state[t]
BY DEF SetState, Batches, Frame

LEMMA FrameChains ==
  ASSUME NEW b, NEW c, NEW d, Frame(b, c), Frame(c, d)
  PROVE  Frame(b, d)
BY DEF Frame

LEMMA RecordMarks ==
  ASSUME NEW b \in Batches, NEW sent, NEW held
  PROVE  LET c == RecordDispatchResults(b, sent, held)
         IN  /\ Frame(b, c) /\ c.wave = b.wave /\ c.phase = b.phase
             /\ \A t \in Targets :
                  c.state[t] =
                    IF t \in InWave(b, {"dispatching"}) \ (sent \cup held)
                    THEN "dispatch_error"
                    ELSE IF t \in held THEN "failed"
                    ELSE IF t \in sent THEN "dispatched" ELSE b.state[t]
<1> DEFINE D == InWave(b, {"dispatching"}) \ (sent \cup held)
           d == SetState(b, sent, "dispatched")
           e == SetState(d, held, "failed")
           c == SetState(e, D, "dispatch_error")
<1> {"dispatched", "failed", "dispatch_error"} \subseteq TargetStates
  BY DEF TargetStates
<1>1. /\ Frame(b, d) /\ d.wave = b.wave /\ d.phase = b.phase
      /\ \A t \in Targets : d.state[t] = IF t \in sent THEN "dispatched" ELSE b.state[t]
  BY SetStateMarks
<1>2. d \in Batches
  BY <1>1 DEF Frame
<1>3. /\ Frame(d, e) /\ e.wave = d.wave /\ e.phase = d.phase
      /\ \A t \in Targets : e.state[t] = IF t \in held THEN "failed" ELSE d.state[t]
  BY <1>2, SetStateMarks
<1>4. e \in Batches
  BY <1>3 DEF Frame
<1>5. /\ Frame(e, c) /\ c.wave = e.wave /\ c.phase = e.phase
      /\ \A t \in Targets : c.state[t] = IF t \in D THEN "dispatch_error" ELSE e.state[t]
  BY <1>4, SetStateMarks
<1>6. c = RecordDispatchResults(b, sent, held)
  BY DEF RecordDispatchResults
<1> HIDE DEF D, d, e, c
<1>7. Frame(b, c)
  BY <1>1, <1>3, <1>5, FrameChains
<1> QED
  BY <1>1, <1>3, <1>5, <1>6, <1>7 DEF D

LEMMA ReconcileMarks ==
  ASSUME NEW b \in Batches, NEW available
  PROVE  LET c == ReconcileDispatchErrors(b, available)
         IN  /\ Frame(b, c) /\ c.wave = b.wave /\ c.phase = "resolved"
             /\ \A t \in Targets :
                  c.state[t] = IF t \in InWave(b, {"dispatch_error"})
                               THEN IF t \in available THEN "failed" ELSE "dispatched"
                               ELSE b.state[t]
<1> DEFINE E == InWave(b, {"dispatch_error"})
           d == SetState(b, E \cap available, "failed")
           e == SetState(d, E \ available, "dispatched")
           c == [e EXCEPT !.reconciledDetails = @ \cup (E \ available),
                          !.phase = "resolved"]
<1> {"dispatched", "failed"} \subseteq TargetStates
  BY DEF TargetStates
<1>1. /\ Frame(b, d) /\ d.wave = b.wave
      /\ \A t \in Targets :
           d.state[t] = IF t \in E \cap available THEN "failed" ELSE b.state[t]
  BY SetStateMarks
<1>2. d \in Batches
  BY <1>1 DEF Frame
<1> HIDE DEF d
<1>3. /\ Frame(d, e) /\ e.wave = d.wave
      /\ \A t \in Targets :
           e.state[t] = IF t \in E \ available THEN "dispatched" ELSE d.state[t]
  BY <1>2, SetStateMarks
<1>4. E \subseteq Targets
  BY DEF InWave, CurrentWave, Batches
<1>5. c = ReconcileDispatchErrors(b, available)
  BY DEF ReconcileDispatchErrors, d
<1>6. "resolved" \in Phases
  BY DEF Phases
<1> HIDE DEF E, e
<1>7. Frame(e, c) /\ c.wave = e.wave /\ c.phase = "resolved" /\ c.state = e.state
  BY <1>3, <1>4, <1>6 DEF Frame, Batches
<1> HIDE DEF c
<1>8. Frame(b, c)
  BY <1>1, <1>3, <1>7, FrameChains
<1> QED
  BY <1>1, <1>3, <1>5, <1>7, <1>8 DEF E

LEMMA AdvanceMarks ==
  ASSUME NEW b \in Batches, ~AllWavesDone(b)
  PROVE  LET c == AdvanceWave(b)
         IN  /\ Frame(b, c) /\ c.wave = b.wave + 1 /\ c.phase = "ready"
             /\ c.state = b.state
<1>1. b.wave \in Nat /\ b.wave < NumTargets + 1 /\ NumTargets \in Nat
  BY Waves, TargetsAssumption DEF AfterLastWave
<1>2. b.wave + 1 \in 0..(NumTargets + 1)
  BY <1>1
<1> QED
  BY <1>2 DEF AdvanceWave, Frame, Batches, Phases

LEMMA CompleteMarks ==
  ASSUME NEW b \in Batches, ~AllWavesDone(b)
  PROVE  LET c == CompleteCurrentWave(b)
         IN  /\ Frame(b, c) /\ c.wave = b.wave + 1 /\ c.phase = "ready"
             /\ \A t \in Targets :
                  c.state[t] = IF t \in InWave(b, {"dispatched"})
                               THEN IF t \in b.reconciledDetails
                                    THEN "reconciled" ELSE "success"
                               ELSE b.state[t]
<1> DEFINE P == InWave(b, {"dispatched"})
           d == SetState(b, P, "success")
           e == SetState(d, P \cap b.reconciledDetails, "reconciled")
           f == [e EXCEPT !.reconciledDetails = @ \ P]
           c == AdvanceWave(f)
<1> {"success", "reconciled"} \subseteq TargetStates
  BY DEF TargetStates
<1>1. /\ Frame(b, d) /\ d.wave = b.wave
      /\ \A t \in Targets : d.state[t] = IF t \in P THEN "success" ELSE b.state[t]
  BY SetStateMarks
<1>2. d \in Batches
  BY <1>1 DEF Frame
<1>3. /\ Frame(d, e) /\ e.wave = d.wave
      /\ \A t \in Targets :
           e.state[t] = IF t \in P \cap b.reconciledDetails THEN "reconciled"
                        ELSE d.state[t]
  BY <1>2, SetStateMarks
<1>4. c = CompleteCurrentWave(b)
  BY DEF CompleteCurrentWave
<1> HIDE DEF P, d, e
<1>5. Frame(e, f) /\ f.wave = e.wave /\ f.state = e.state
  BY <1>3 DEF Frame, Batches
<1> HIDE DEF f
<1>6. Frame(b, f) /\ f.wave = b.wave
  BY <1>1, <1>3, <1>5, FrameChains
<1>7. f \in Batches /\ ~AllWavesDone(f)
  BY <1>6 DEF Frame, AllWavesDone
<1>8. /\ Frame(f, c) /\ c.wave = f.wave + 1 /\ c.phase = "ready"
      /\ c.state = f.state
  BY <1>7, AdvanceMarks
<1> HIDE DEF c
<1>9. Frame(b, c)
  BY <1>6, <1>8, FrameChains
<1> QED
  BY <1>1, <1>3, <1>4, <1>5, <1>6, <1>8, <1>9 DEF P

\* Of what stops a batch, S is what has failed.
LEMMA StopMarks ==
  ASSUME NEW b \in Batches, NEW S
  PROVE  LET c == Stop(SetState(SetState(b, S, "failed"), IdsIn(b, {"pending"}),
                                "skipped"))
         IN  /\ Frame(b, c) /\ c.wave = AfterLastWave /\ c.phase = "stopped"
             /\ \A t \in Targets :
                  c.state[t] = IF t \in IdsIn(b, {"pending"}) THEN "skipped"
                               ELSE IF t \in S THEN "failed" ELSE b.state[t]
<1> DEFINE P == IdsIn(b, {"pending"})
           d == SetState(b, S, "failed")
           e == SetState(d, P, "skipped")
           c == Stop(e)
<1> {"failed", "skipped"} \subseteq TargetStates
  BY DEF TargetStates
<1>1. /\ Frame(b, d)
      /\ \A t \in Targets : d.state[t] = IF t \in S THEN "failed" ELSE b.state[t]
  BY SetStateMarks
<1>2. d \in Batches
  BY <1>1 DEF Frame
<1>3. /\ Frame(d, e)
      /\ \A t \in Targets : e.state[t] = IF t \in P THEN "skipped" ELSE d.state[t]
  BY <1>2, SetStateMarks
<1> HIDE DEF P, d, e
<1>4. AfterLastWave \in 0..(NumTargets + 1) /\ "stopped" \in Phases
  BY TargetsAssumption DEF AfterLastWave, Phases
<1>5. /\ Frame(e, c) /\ c.wave = AfterLastWave /\ c.phase = "stopped"
      /\ c.state = e.state
  BY <1>3, <1>4 DEF Stop, Frame, Batches
<1> HIDE DEF c
<1>6. Frame(b, c)
  BY <1>1, <1>3, <1>5, FrameChains
<1> QED
  BY <1>1, <1>3, <1>5, <1>6 DEF P, d, e, c

-----------------------------------------------------------------------------
(* Batches stay good *)

\* c is b with other flags.
LEMMA FlagsKeepGood ==
  ASSUME NEW b, Good(b), NEW c \in Batches,
         c.live, c.targets = b.targets, c.wave = b.wave, c.phase = b.phase,
         c.state = b.state, ~c.claimVerified, c.claimAttempted => CanClaim(b),
         c.finalReconcileAttempted => AllWavesDone(b)
  PROVE  Good(c)
<1>1. /\ CanClaim(c) <=> CanClaim(b)
      /\ c.finalReconcileAttempted => AllWavesDone(c)
  BY DEF CanClaim, AllWavesDone, IdsIn
<1>2. /\ Behind(b) => Behind(c)
      /\ Ahead(b) => Ahead(c)
      /\ Over(b) => Over(c)
      /\ Ordered(b) => Ordered(c)
      /\ OneWave(b) => OneWave(c)
  BY DEF Behind, Ahead, Over, Ordered, OneWave, Started
<1> QED
  BY <1>1, <1>2 DEF Good

\* c differs from b in the current wave.
LEMMA CurrentKeepsGood ==
  ASSUME NEW b, Good(b), b.phase # "stopped", ~b.claimAttempted,
         NEW c, Frame(b, c), c.wave = b.wave, c.phase # "stopped",
         \A t \in b.targets \ CurrentWave(b) : c.state[t] = b.state[t],
         \A t \in CurrentWave(b) :
           /\ c.state[t] # "none"
           /\ c.state[t] \in Proved => Terminal(t)
  PROVE  Good(c)
<1>1. /\ b \in Batches /\ c \in Batches /\ c.live /\ c.targets = b.targets
      /\ ~c.claimVerified /\ ~c.claimAttempted /\ c.targets # {}
  BY DEF Good, Frame
<1>2. Behind(b) /\ Ahead(b)
  BY DEF Good
<1>3. \A t \in b.targets : t \in CurrentWave(b) <=> WaveOf(b.targets, t) = b.wave
  BY DEF CurrentWave
<1>4. \A t \in b.targets : c.state[t] # "none"
  BY DEF Good
<1>5. \A t \in b.targets : c.state[t] \in Proved => Terminal(t)
  BY DEF Good
<1>6. Behind(c)
  <2> SUFFICES ASSUME NEW t \in b.targets, WaveOf(b.targets, t) < b.wave
               PROVE  c.state[t] \in Settled /\ quest[t] # "marching"
    BY <1>1 DEF Behind
  <2>1. t \notin CurrentWave(b)
    BY <1>1, <1>3, Waves
  <2> QED
    BY <1>2, <2>1 DEF Behind
<1>7. Ahead(c)
  <2> SUFFICES ASSUME NEW t \in b.targets, WaveOf(b.targets, t) > b.wave
               PROVE  c.state[t] = "pending"
    BY <1>1 DEF Ahead
  <2>1. t \notin CurrentWave(b)
    BY <1>1, <1>3, Waves
  <2> QED
    BY <1>2, <2>1 DEF Ahead
<1>8. c.finalReconcileAttempted => AllWavesDone(c)
  BY DEF Good, Frame, AllWavesDone
<1> QED
  BY <1>1, <1>4, <1>5, <1>6, <1>7, <1>8 DEF Good

\* The next wave becomes the current one when this one has its outcome.
LEMMA AdvanceKeepsGood ==
  ASSUME NEW b, Good(b), b.phase # "stopped", ~b.claimAttempted,
         NEW c, Frame(b, c), c.wave = b.wave + 1, c.phase # "stopped",
         \A t \in b.targets \ CurrentWave(b) : c.state[t] = b.state[t],
         \A t \in CurrentWave(b) :
           /\ c.state[t] \in Settled /\ quest[t] # "marching"
           /\ c.state[t] \in Proved => Terminal(t)
  PROVE  Good(c)
<1>1. /\ b \in Batches /\ c \in Batches /\ c.live /\ c.targets = b.targets
      /\ ~c.claimVerified /\ ~c.claimAttempted /\ c.targets # {}
  BY DEF Good, Frame
<1>2. Behind(b) /\ Ahead(b)
  BY DEF Good
<1>3. \A t \in b.targets : t \in CurrentWave(b) <=> WaveOf(b.targets, t) = b.wave
  BY DEF CurrentWave
<1>4. \A t \in b.targets : c.state[t] # "none"
  BY DEF Good, Settled, Proved
<1>5. \A t \in b.targets : c.state[t] \in Proved => Terminal(t)
  BY DEF Good
<1>6. Behind(c)
  <2> SUFFICES ASSUME NEW t \in b.targets, WaveOf(b.targets, t) < b.wave + 1
               PROVE  c.state[t] \in Settled /\ quest[t] # "marching"
    BY <1>1 DEF Behind
  <2>1. CASE t \in CurrentWave(b)
    BY <2>1
  <2>2. CASE t \notin CurrentWave(b)
    <3>1. WaveOf(b.targets, t) < b.wave
      BY <1>1, <1>3, <2>2, Waves
    <3> QED
      BY <1>2, <2>2, <3>1 DEF Behind
  <2> QED
    BY <2>1, <2>2
<1>7. Ahead(c)
  <2> SUFFICES ASSUME NEW t \in b.targets, WaveOf(b.targets, t) > b.wave + 1
               PROVE  c.state[t] = "pending"
    BY <1>1 DEF Ahead
  <2>1. t \notin CurrentWave(b) /\ WaveOf(b.targets, t) > b.wave
    BY <1>1, <1>3, Waves
  <2> QED
    BY <1>2, <2>1 DEF Ahead
<1>8. c.finalReconcileAttempted => AllWavesDone(c)
  <2> SUFFICES ASSUME b.finalReconcileAttempted, NEW t \in b.targets
               PROVE  WaveOf(b.targets, t) < b.wave + 1
    BY <1>1 DEF Frame, AllWavesDone
  <2>1. WaveOf(b.targets, t) < b.wave
    BY DEF Good, AllWavesDone
  <2> QED
    BY <1>1, <2>1, Waves
<1> QED
  BY <1>1, <1>4, <1>5, <1>6, <1>7, <1>8 DEF Good

\* A batch is stopped in its current wave.
LEMMA StopKeepsGood ==
  ASSUME NEW b, Good(b), b.phase # "stopped", ~b.claimAttempted,
         NEW c, Frame(b, c), c.wave = AfterLastWave, c.phase = "stopped",
         \A t \in b.targets :
           c.state[t] = IF b.state[t] = "pending" THEN "skipped"
                        ELSE IF b.state[t] \in Proved THEN b.state[t] ELSE "failed"
  PROVE  Good(c)
<1>1. /\ b \in Batches /\ c \in Batches /\ c.live /\ c.targets = b.targets
      /\ ~c.claimVerified /\ ~c.claimAttempted /\ c.targets # {}
  BY DEF Good, Frame
<1>2. Behind(b) /\ Ahead(b)
  BY DEF Good
<1>3. \A t \in b.targets : c.state[t] # "none"
  BY DEF Proved
<1>4. \A t \in b.targets : c.state[t] \in Proved => Terminal(t)
  BY DEF Good, Proved
<1>5. Over(c)
  BY <1>1 DEF Over, Settled
<1>6. \A t \in b.targets : Started(c, t) => ~(WaveOf(b.targets, t) > b.wave)
  BY <1>2 DEF Started, Ahead
<1>7. Ordered(c)
  <2> SUFFICES ASSUME NEW t \in b.targets, NEW u \in b.targets, Started(c, t),
                      WaveOf(b.targets, u) < WaveOf(b.targets, t)
               PROVE  c.state[u] \in Settled
    BY <1>1 DEF Ordered
  <2>1. WaveOf(b.targets, u) < b.wave
    BY <1>1, <1>6, Waves
  <2>2. b.state[u] \in Settled
    BY <1>2, <2>1 DEF Behind
  <2> QED
    BY <2>2 DEF Settled, Proved
<1>8. OneWave(c)
  <2>1. ASSUME NEW t \in b.targets, Started(c, t), quest[t] = "marching"
        PROVE  WaveOf(b.targets, t) = b.wave
    <3>1. ~(WaveOf(b.targets, t) < b.wave)
      BY <1>2, <2>1 DEF Behind
    <3> QED
      BY <1>1, <1>6, <2>1, <3>1, Waves
  <2> QED
    BY <1>1, <2>1 DEF OneWave
<1>9. AllWavesDone(c)
  BY <1>1, Waves
<1> QED
  BY <1>1, <1>3, <1>4, <1>5, <1>7, <1>8, <1>9 DEF Good

\* A batch all of which is proved may be claimed, however it came to that.
LEMMA ClaimableIsGood ==
  ASSUME NEW b, Good(b), NEW c, Frame(b, c), c.wave = b.wave, c.phase = b.phase,
         CanClaim(c), \A t \in c.targets : Terminal(t)
  PROVE  Good(c)
<1>1. /\ b \in Batches /\ c \in Batches /\ c.live /\ c.targets = b.targets
      /\ ~c.claimVerified /\ c.targets # {}
  BY DEF Good, Frame
<1>2. \A t \in c.targets : c.state[t] \in Proved /\ quest[t] # "marching"
  BY <1>1 DEF CanClaim, IdsIn, Proved, Terminal
<1>3. \A t \in c.targets : c.state[t] # "none" /\ c.state[t] \in Settled
  BY <1>2 DEF Proved, Settled
<1>4. Behind(c) /\ Ordered(c) /\ OneWave(c)
  BY <1>2, <1>3 DEF Behind, Ordered, OneWave
<1>5. Ahead(c)
  BY <1>1, Waves DEF CanClaim, AllWavesDone, Ahead
<1>6. c.phase = "stopped" => Over(c)
  BY <1>1, <1>3 DEF Good, Over
<1> QED
  BY <1>1, <1>2, <1>3, <1>4, <1>5, <1>6 DEF Good, CanClaim

-----------------------------------------------------------------------------
(* The controller's helpers.  A callback takes the only command there is.   *)

InStep ==
  /\ TypeOK
  /\ UNCHANGED game
  /\ items' \in SUBSET Targets

InCallback == InStep /\ busy

LEMMA NoBatch ==
  LET b == NewBatch({})
  IN  b \in Batches /\ ~b.live /\ b.targets = {}
<1>1. 0 \in 0..(NumTargets + 1)
  BY TargetsAssumption
<1> QED
  BY <1>1 DEF NewBatch, Batches, Phases, TargetStates

LEMMA GoodPrimed ==
  ASSUME NEW b, Good(b), batch' = b, quest' = quest
  PROVE  Good(batch)'
BY DEF Good, Terminal, Behind, Ahead, OneWave

LEMMA SubmitKeepsIInv ==
  ASSUME InStep, NEW b, Good(b),
         NEW op \in Ops, NEW ids \in SUBSET Targets, NEW callback \in Callbacks,
         Awaits(b, Command(op, ids, callback)),
         batch' = b, tasks' = {Command(op, ids, callback)},
         busy' = TRUE, report' \in Reports
  PROVE  IInv'
<1> DEFINE k == Command(op, ids, callback)
<1>1. /\ k \in Commands /\ k.op = op /\ k.ids = ids /\ k.callback = callback
      /\ k.res = "running" /\ k.found = {} /\ k.held = {} /\ k.todo = ids
  BY DEF Command, Commands, Results
<1>2. b \in Batches /\ b.live /\ b.targets # {}
  BY DEF Good
<1> HIDE DEF k
<1>3. tasks' = {k}
  BY DEF k
<1>4. quest' = quest /\ onRole' = onRole
  BY DEF InStep, game
<1>5. TypeOK'
  BY <1>1, <1>2, <1>3, <1>4 DEF TypeOK, InStep
<1>6. OneCommand'
  BY <1>3 DEF OneCommand
<1>7. Good(batch)'
  BY <1>4, GoodPrimed
<1>8. Awaits(batch, k)'
  BY <1>4 DEF Awaits, Resulted, k
<1>9. Truthful(k)'
  BY <1>1, <1>4 DEF Truthful
<1> QED
  BY <1>2, <1>3, <1>5, <1>6, <1>7, <1>8, <1>9 DEF IInv

LEMMA IdleKeepsIInv ==
  ASSUME InStep, batch' \in Batches, ~batch'.live, batch'.targets = {},
         tasks' = {}, busy' = FALSE, report' \in Reports
  PROVE  IInv'
<1>1. TypeOK'
  BY DEF TypeOK, InStep, game
<1>2. OneCommand'
  BY DEF OneCommand
<1> QED
  BY <1>1, <1>2 DEF IInv

LEMMA FinishKeepsIInv ==
  ASSUME InCallback, NEW b, b.live, NeedsFinalReconcile(b) => Good(b),
         FinishHuntBatch(b, {})
  PROVE  IInv'
<1>1. CASE NeedsFinalReconcile(b)
  <2> DEFINE c == [b EXCEPT !.finalReconcileAttempted = TRUE]
  <2>1. /\ SubmitFor(c, {}, "status", b.targets, "final_reconciled")
        /\ UNCHANGED <<busy, report>>
    BY <1>1 DEF FinishHuntBatch, SubmitFor
  <2>2. Good(b) /\ AllWavesDone(b) /\ ~b.claimAttempted
    BY <1>1 DEF NeedsFinalReconcile
  <2>3. /\ c \in Batches /\ c.live /\ c.targets = b.targets /\ c.wave = b.wave
        /\ c.phase = b.phase /\ c.state = b.state
        /\ ~c.claimVerified /\ ~c.claimAttempted /\ c.finalReconcileAttempted
        /\ b.targets \in SUBSET Targets
    BY <2>2 DEF Good, Batches
  <2> HIDE DEF c
  <2>4. Good(c)
    BY <2>2, <2>3, FlagsKeepGood DEF Good
  <2>5. "status" \in Ops /\ "final_reconciled" \in Callbacks
    BY DEF Ops, Callbacks
  <2>6. Awaits(c, Command("status", b.targets, "final_reconciled"))
    <3>1. AllWavesDone(c)
      BY <2>2, <2>3 DEF AllWavesDone
    <3> QED
      BY <2>3, <2>5, <3>1 DEF Awaits, Command
  <2> QED
    BY <2>1, <2>3, <2>4, <2>5, <2>6, SubmitKeepsIInv
       DEF SubmitFor, InCallback, InStep, TypeOK
<1>2. CASE ~NeedsFinalReconcile(b)
  BY <1>2, NoBatch, IdleKeepsIInv DEF FinishHuntBatch, Summary, Reports, InCallback
<1> QED
  BY <1>1, <1>2

LEMMA ClaimKeepsIInv ==
  ASSUME InCallback, NEW b, Good(b), StartClaim(b, {})
  PROVE  IInv'
<1>1. CASE CanClaim(b) /\ ~b.claimAttempted
  <2> DEFINE c == [b EXCEPT !.claimAttempted = TRUE]
  <2>1. /\ SubmitFor(c, {}, "claim", b.targets, "claim_finished")
        /\ UNCHANGED <<busy, report>>
    BY <1>1 DEF StartClaim, SubmitFor
  <2>2. /\ c \in Batches /\ c.live /\ c.targets = b.targets /\ c.wave = b.wave
        /\ c.phase = b.phase /\ c.state = b.state
        /\ ~c.claimVerified /\ c.claimAttempted
        /\ b.targets \in SUBSET Targets
    BY DEF Good, Batches
  <2> HIDE DEF c
  <2>3. Good(c)
    BY <1>1, <2>2, FlagsKeepGood DEF CanClaim
  <2>4. "claim" \in Ops /\ "claim_finished" \in Callbacks
    BY DEF Ops, Callbacks
  <2>5. Awaits(c, Command("claim", b.targets, "claim_finished"))
    <3>1. AllWavesDone(c)
      BY <1>1, <2>2 DEF CanClaim, AllWavesDone
    <3> QED
      BY <2>2, <2>4, <3>1 DEF Awaits, Command
  <2> QED
    BY <2>1, <2>2, <2>3, <2>4, <2>5, SubmitKeepsIInv
       DEF SubmitFor, InCallback, InStep, TypeOK
<1>2. CASE ~(CanClaim(b) /\ ~b.claimAttempted)
  BY <1>2, FinishKeepsIInv DEF StartClaim, Good
<1> QED
  BY <1>1, <1>2

\* The whole wave is marked before it is sent.
LEMMA SendKeepsGood ==
  ASSUME NEW b, Good(b), ~b.claimAttempted, ~AllWavesDone(b)
  PROVE  LET c == [SetState(b, CurrentWave(b), "dispatching")
                   EXCEPT !.phase = "dispatching"]
         IN  /\ Good(c)
             /\ Awaits(c, Command("march", CurrentWave(b),
                                  "batch_dispatch_finished"))
<1> DEFINE d == SetState(b, CurrentWave(b), "dispatching")
           c == [d EXCEPT !.phase = "dispatching"]
<1>1. b \in Batches /\ b.phase # "stopped" /\ b.live
  BY Waves DEF Good, Over
<1>2. /\ "dispatching" \in TargetStates /\ "dispatching" \in Phases
      /\ "march" \in Ops /\ "batch_dispatch_finished" \in Callbacks
  BY DEF TargetStates, Phases, Ops, Callbacks
<1>3. /\ Frame(b, d) /\ d.wave = b.wave
      /\ \A t \in Targets :
           d.state[t] = IF t \in CurrentWave(b) THEN "dispatching" ELSE b.state[t]
  BY <1>1, <1>2, SetStateMarks
<1> HIDE DEF d
<1>4. /\ Frame(d, c) /\ c.wave = d.wave /\ c.phase = "dispatching"
      /\ c.state = d.state
  BY <1>2, <1>3 DEF Frame, Batches
<1> HIDE DEF c
<1>5. Frame(b, c)
  BY <1>3, <1>4, FrameChains
<1>6. b.targets \in SUBSET Targets /\ CurrentWave(b) \in SUBSET b.targets
  BY <1>1 DEF Batches, CurrentWave
<1>7. Good(c)
  <2>1. \A t \in b.targets \ CurrentWave(b) : c.state[t] = b.state[t]
    BY <1>3, <1>4, <1>6
  <2>2. \A t \in CurrentWave(b) : c.state[t] = "dispatching"
    BY <1>3, <1>4, <1>6
  <2> QED
    BY <1>1, <1>3, <1>4, <1>5, <2>1, <2>2, CurrentKeepsGood DEF Proved
<1>8. /\ CurrentWave(c) = CurrentWave(b) /\ ~AllWavesDone(c) /\ c.live
      /\ ~c.claimAttempted
  BY <1>1, <1>3, <1>4, <1>5 DEF CurrentWave, AllWavesDone, Frame
<1>9. InWave(c, {"dispatching"}) = CurrentWave(b)
  BY <1>3, <1>4, <1>5, <1>6, <1>8 DEF InWave, IdsIn, Frame
<1>10. Awaits(c, Command("march", CurrentWave(b), "batch_dispatch_finished"))
  BY <1>2, <1>4, <1>6, <1>8, <1>9 DEF Awaits, Command
<1> QED
  BY <1>7, <1>10 DEF c, d

LEMMA DispatchKeepsIInv ==
  ASSUME InCallback, NEW b, Good(b), ~b.claimAttempted, DispatchNextHunt(b, {})
  PROVE  IInv'
<1>1. CASE AllWavesDone(b)
  BY <1>1, ClaimKeepsIInv, FinishKeepsIInv DEF DispatchNextHunt, Good
<1>2. CASE ~AllWavesDone(b)
  <2> DEFINE c == [SetState(b, CurrentWave(b), "dispatching")
                   EXCEPT !.phase = "dispatching"]
             k == Command("march", CurrentWave(b), "batch_dispatch_finished")
  <2>1. batch' = c /\ tasks' = {k} /\ UNCHANGED <<busy, report>>
    BY <1>2 DEF DispatchNextHunt, SubmitFor
  <2>2. Good(c) /\ Awaits(c, k)
    BY <1>2, SendKeepsGood
  <2>3. CurrentWave(b) \in SUBSET Targets
    BY DEF CurrentWave, Good, Batches
  <2>4. "march" \in Ops /\ "batch_dispatch_finished" \in Callbacks
    BY DEF Ops, Callbacks
  <2> HIDE DEF c
  <2> QED
    BY <2>1, <2>2, <2>3, <2>4, SubmitKeepsIInv DEF InCallback, InStep, TypeOK
<1> QED
  BY <1>1, <1>2

LEMMA ContinueKeepsIInv ==
  ASSUME InCallback, NEW b, Good(b), b.phase # "stopped", Resulted(b),
         InWave(b, {"dispatch_error"}) = {}, ContinueAfterWaveDispatches(b, {})
  PROVE  IInv'
<1>1. b \in Batches /\ b.live /\ ~AllWavesDone(b) /\ ~b.claimAttempted
  BY DEF Good, Resulted
<1>2. CurrentWave(b) \subseteq b.targets
  BY DEF CurrentWave
<1>3. CASE InWave(b, {"dispatched"}) # {}
  <2> DEFINE c == [b EXCEPT !.phase = "waiting"]
             ids == InWave(b, {"dispatched"})
             k == Command("waitAll", ids, "wave_wait_finished")
  <2>1. batch' = c /\ tasks' = {k} /\ UNCHANGED <<busy, report>>
    BY <1>3 DEF ContinueAfterWaveDispatches, SubmitFor
  <2>2. /\ Frame(b, c) /\ c.wave = b.wave /\ c.phase = "waiting"
        /\ c.state = b.state
    BY <1>1 DEF Frame, Batches, Phases
  <2> HIDE DEF c
  <2>3. Good(c)
    BY <1>1, <1>2, <2>2, CurrentKeepsGood DEF Good
  <2>4. /\ CurrentWave(c) = CurrentWave(b) /\ \A S : InWave(c, S) = InWave(b, S)
        /\ ~AllWavesDone(c)
    BY <1>1, <2>2 DEF CurrentWave, InWave, IdsIn, AllWavesDone, Frame
  <2>5. Resulted(c)
    BY <2>2, <2>4 DEF Resulted, Frame
  <2>6. /\ "waitAll" \in Ops /\ "wave_wait_finished" \in Callbacks
        /\ ids \in SUBSET Targets
    BY <1>1 DEF Ops, Callbacks, InWave, CurrentWave, Batches
  <2>7. c.live
    BY <1>1, <2>2 DEF Frame
  <2> HIDE DEF ids
  <2>8. Awaits(c, k)
    BY <1>3, <2>2, <2>4, <2>5, <2>6, <2>7 DEF Awaits, Command, ids
  <2> QED
    BY <2>1, <2>3, <2>6, <2>8, SubmitKeepsIInv DEF InCallback, InStep, TypeOK
<1>4. CASE InWave(b, {"dispatched"}) = {}
  <2> DEFINE c == AdvanceWave(b)
  <2>1. DispatchNextHunt(c, {})
    BY <1>4 DEF ContinueAfterWaveDispatches
  <2>2. /\ Frame(b, c) /\ c.wave = b.wave + 1 /\ c.phase = "ready"
        /\ c.state = b.state
    BY <1>1, AdvanceMarks
  <2> HIDE DEF c
  <2>3. \A t \in CurrentWave(b) : b.state[t] = "failed" /\ quest[t] # "marching"
    BY <1>2, <1>4 DEF Resulted, InWave, IdsIn
  <2>4. Good(c)
    BY <1>1, <2>2, <2>3, AdvanceKeepsGood DEF Settled, Proved
  <2>5. ~c.claimAttempted
    BY <1>1, <2>2 DEF Frame
  <2> QED
    BY <2>1, <2>4, <2>5, DispatchKeepsIInv
<1> QED
  BY <1>3, <1>4

LEMMA ResolveKeepsIInv ==
  ASSUME InCallback, NEW b, Good(b), b.phase # "stopped", Resulted(b),
         ResolveWaveDispatches(b, {})
  PROVE  IInv'
<1>1. b \in Batches /\ b.live /\ ~AllWavesDone(b) /\ ~b.claimAttempted
  BY DEF Good, Resulted
<1> DEFINE p == IF InWave(b, {"dispatch_error"}) # {} THEN "reconciling"
                                                      ELSE "resolved"
           c == [b EXCEPT !.phase = p]
<1>2. /\ Frame(b, c) /\ c.wave = b.wave /\ c.phase = p /\ c.phase # "stopped"
      /\ c.state = b.state
  BY <1>1 DEF Frame, Batches, Phases
<1> HIDE DEF c
<1>3. Good(c)
  BY <1>1, <1>2, CurrentKeepsGood DEF Good, CurrentWave
<1>4. /\ CurrentWave(c) = CurrentWave(b) /\ \A S : InWave(c, S) = InWave(b, S)
      /\ ~AllWavesDone(c)
  BY <1>1, <1>2 DEF CurrentWave, InWave, IdsIn, AllWavesDone, Frame
<1>5. Resulted(c) /\ c.live
  BY <1>1, <1>2, <1>4 DEF Resulted, Frame
<1>6. CASE InWave(b, {"dispatch_error"}) # {}
  <2>1. /\ batch' = c
        /\ tasks' = {Command("inspect", b.targets, "march_reconciled")}
        /\ UNCHANGED <<busy, report>>
    BY <1>6 DEF ResolveWaveDispatches, SubmitFor, c
  <2>2. /\ "inspect" \in Ops /\ "march_reconciled" \in Callbacks
        /\ b.targets \in SUBSET Targets
    BY <1>1 DEF Ops, Callbacks, Batches
  <2>3. Awaits(c, Command("inspect", b.targets, "march_reconciled"))
    BY <1>2, <1>4, <1>5, <1>6, <2>2 DEF Awaits, Command
  <2> QED
    BY <1>3, <2>1, <2>2, <2>3, SubmitKeepsIInv DEF InCallback, InStep, TypeOK
<1>7. CASE InWave(b, {"dispatch_error"}) = {}
  <2>1. ContinueAfterWaveDispatches(c, {})
    BY <1>7 DEF ResolveWaveDispatches, c
  <2> QED
    BY <1>2, <1>3, <1>4, <1>5, <1>7, <2>1, ContinueKeepsIInv
<1> QED
  BY <1>6, <1>7

-----------------------------------------------------------------------------
(* The buttons *)

LEMMA NotBusy ==
  ASSUME IInv, ~busy
  PROVE  tasks = {} /\ ~batch.live /\ batch.targets = {} /\ batch \in Batches
BY DEF IInv, OneCommand, TypeOK

LEMMA RefreshIntelStep ==
  ASSUME IInv, RefreshIntel
  PROVE  IInv'
<1> DEFINE k == Command("inspect", {}, "refreshed")
<1>1. /\ tasks = {} /\ ~batch.live /\ batch.targets = {} /\ TypeOK
  BY NotBusy DEF RefreshIntel, IInv
<1>2. /\ tasks' = {k} /\ busy' = TRUE /\ items' = {}
      /\ UNCHANGED <<quest, onRole, batch, report>>
  BY <1>1 DEF RefreshIntel, game
<1>3. /\ k \in Commands /\ k.callback = "refreshed" /\ k.op = "inspect"
      /\ k.res = "running"
  BY DEF Command, Commands, Results, Ops, Callbacks
<1> HIDE DEF k
<1>4. TypeOK'
  BY <1>1, <1>2, <1>3 DEF TypeOK
<1>5. OneCommand'
  BY <1>2 DEF OneCommand
<1>6. Awaits(batch, k)'
  BY <1>1, <1>2, <1>3 DEF Awaits
<1>7. Truthful(k)'
  BY <1>3 DEF Truthful
<1> QED
  BY <1>1, <1>2, <1>4, <1>5, <1>6, <1>7 DEF IInv

LEMMA NewBatchIsGood ==
  ASSUME NEW T \in SUBSET Targets, T # {}
  PROVE  LET b == NewBatch(T)
         IN  Good(b) /\ ~b.claimAttempted /\ ~AllWavesDone(b)
<1> DEFINE b == NewBatch(T)
<1>1. 0 \in 0..(NumTargets + 1)
  BY TargetsAssumption
<1>2. /\ b \in Batches /\ b.live /\ b.targets = T /\ b.wave = 0
      /\ b.phase = "ready" /\ ~b.claimAttempted /\ ~b.claimVerified
      /\ ~b.finalReconcileAttempted
      /\ \A t \in T : b.state[t] = "pending"
  BY <1>1 DEF NewBatch, Batches, Phases, TargetStates
<1> HIDE DEF b
<1>3. \A t \in T : WaveOf(T, t) \in Nat
  BY <1>2, Waves
<1>4. Behind(b) /\ Ahead(b)
  BY <1>2, <1>3 DEF Behind, Ahead
<1>5. Good(b)
  BY <1>2, <1>4 DEF Good, Proved
<1>6. ~AllWavesDone(b)
  BY <1>2, <1>3 DEF AllWavesDone
<1> QED
  BY <1>2, <1>5, <1>6 DEF b

LEMMA StartHuntStep ==
  ASSUME IInv, StartHunt
  PROVE  IInv'
<1>1. tasks = {} /\ TypeOK
  BY NotBusy DEF StartHunt, IInv
<1>2. PICK T \in (SUBSET items) \ {{}} :
        LET b == NewBatch(T)
        IN  /\ batch' = [SetState(b, CurrentWave(b), "dispatching")
                         EXCEPT !.phase = "dispatching"]
            /\ tasks' = tasks \cup {Command("march", CurrentWave(b),
                                            "batch_dispatch_finished")}
  BY DEF StartHunt
<1> DEFINE b == NewBatch(T)
           c == [SetState(b, CurrentWave(b), "dispatching")
                 EXCEPT !.phase = "dispatching"]
           k == Command("march", CurrentWave(b), "batch_dispatch_finished")
<1>3. batch' = c /\ tasks' = {k}
  BY <1>1, <1>2
<1>4. T \in SUBSET Targets /\ T # {}
  BY <1>1 DEF TypeOK
<1>5. Good(b) /\ ~b.claimAttempted /\ ~AllWavesDone(b)
  BY <1>4, NewBatchIsGood
<1>6. CurrentWave(b) \in SUBSET Targets
  BY <1>5 DEF CurrentWave, Good, Batches
<1> HIDE DEF b
<1>7. Good(c) /\ Awaits(c, k)
  BY <1>5, SendKeepsGood
<1>8. "march" \in Ops /\ "batch_dispatch_finished" \in Callbacks /\ "none" \in Reports
  BY DEF Ops, Callbacks, Reports
<1> HIDE DEF c
<1>9. InStep /\ busy' = TRUE /\ report' \in Reports
  BY <1>1, <1>8 DEF StartHunt, InStep, TypeOK
<1> QED
  BY <1>3, <1>6, <1>7, <1>8, <1>9, SubmitKeepsIInv

-----------------------------------------------------------------------------
(* The callbacks *)

LEMMA Context ==
  ASSUME IInv, NEW k \in tasks, UNCHANGED game, items' \in SUBSET Targets
  PROVE  /\ tasks \ {k} = {} /\ InCallback /\ k \in Commands
         /\ Awaits(batch, k) /\ Truthful(k)
         /\ batch.live => Good(batch)
BY DEF IInv, OneCommand, InCallback, InStep, TypeOK

LEMMA IntelRefreshedStep ==
  ASSUME IInv, NEW k \in tasks, IntelRefreshed(k)
  PROVE  IInv'
<1>1. items' \in SUBSET Targets /\ UNCHANGED game /\ k.callback = "refreshed"
  BY DEF IntelRefreshed, Returned, IInv, TypeOK, Commands
<1>2. InCallback /\ tasks' = {} /\ ~batch.live
  BY <1>1, Context DEF IntelRefreshed, Awaits
<1>3. batch' = batch /\ report' = report /\ busy' = FALSE
  BY DEF IntelRefreshed
<1>4. batch \in Batches /\ batch.targets = {} /\ report \in Reports
  BY <1>2 DEF IInv, TypeOK
<1> QED
  BY <1>2, <1>3, <1>4, IdleKeepsIInv DEF InCallback

\* Whatever a wave's command says, each of its targets has a result.
LEMMA RecordIsResulted ==
  ASSUME NEW b, Good(b), b.phase = "dispatching", ~AllWavesDone(b),
         ~b.claimAttempted, InWave(b, {"dispatching"}) = CurrentWave(b),
         NEW sent \in SUBSET CurrentWave(b), NEW held \in SUBSET CurrentWave(b),
         \A t \in held : quest[t] # "marching"
  PROVE  LET c == RecordDispatchResults(b, sent, held)
         IN  Good(c) /\ Resulted(c) /\ c.phase # "stopped"
<1> DEFINE c == RecordDispatchResults(b, sent, held)
<1>1. b \in Batches /\ b.targets \in SUBSET Targets
  BY DEF Good, Batches
<1>2. /\ Frame(b, c) /\ c.wave = b.wave /\ c.phase = b.phase
      /\ \A t \in Targets :
           c.state[t] = IF t \in CurrentWave(b) \ (sent \cup held)
                        THEN "dispatch_error"
                        ELSE IF t \in held THEN "failed"
                        ELSE IF t \in sent THEN "dispatched" ELSE b.state[t]
  BY <1>1, RecordMarks
<1> HIDE DEF c
<1>3. CurrentWave(b) \subseteq b.targets
  BY DEF CurrentWave
<1>4. \A t \in CurrentWave(b) :
        /\ c.state[t] \in {"dispatched", "failed", "dispatch_error"}
        /\ c.state[t] = "failed" => quest[t] # "marching"
  BY <1>1, <1>2, <1>3
<1>5. \A t \in b.targets \ CurrentWave(b) : c.state[t] = b.state[t]
  BY <1>1, <1>2
<1>6. Good(c)
  BY <1>2, <1>4, <1>5, CurrentKeepsGood DEF Proved
<1>7. CurrentWave(c) = CurrentWave(b) /\ ~AllWavesDone(c) /\ ~c.claimAttempted
  BY <1>2 DEF CurrentWave, AllWavesDone, Frame
<1>8. Resulted(c)
  BY <1>4, <1>7 DEF Resulted
<1> QED
  BY <1>2, <1>6, <1>8 DEF c

LEMMA BatchDispatchFinishedStep ==
  ASSUME IInv, NEW k \in tasks, BatchDispatchFinished(k)
  PROVE  IInv'
<1>1. /\ UNCHANGED game /\ items' \in SUBSET Targets /\ batch.live
      /\ batch.phase = "dispatching" /\ k.callback = "batch_dispatch_finished"
  BY DEF BatchDispatchFinished, Returned, IInv, TypeOK
<1>2. /\ tasks \ {k} = {} /\ InCallback /\ Awaits(batch, k) /\ Truthful(k)
      /\ Good(batch)
  BY <1>1, Context
<1>3. /\ ~AllWavesDone(batch) /\ ~batch.claimAttempted /\ k.op = "march"
      /\ k.ids = CurrentWave(batch)
      /\ InWave(batch, {"dispatching"}) = CurrentWave(batch)
  BY <1>1, <1>2 DEF Awaits
<1>4. /\ k.found \in SUBSET CurrentWave(batch) /\ k.held \in SUBSET CurrentWave(batch)
      /\ \A t \in k.held : quest[t] # "marching"
  BY <1>2, <1>3 DEF Truthful
<1> DEFINE c == IF k.res = "ok"
                THEN RecordDispatchResults(batch, k.found, k.held)
                ELSE RecordDispatchResults(batch, {}, {})
<1>5. ResolveWaveDispatches(c, {})
  BY <1>2 DEF BatchDispatchFinished
<1>6. Good(c) /\ Resulted(c) /\ c.phase # "stopped"
  <2>1. CASE k.res = "ok"
    BY <1>1, <1>2, <1>3, <1>4, <2>1, RecordIsResulted
  <2>2. CASE k.res # "ok"
    BY <1>1, <1>2, <1>3, <2>2, RecordIsResulted
  <2> QED
    BY <2>1, <2>2
<1> HIDE DEF c
<1> QED
  BY <1>2, <1>5, <1>6, ResolveKeepsIInv

\* A batch that goes on has skipped nothing outside its current wave.
LEMMA NothingSkipped ==
  ASSUME NEW b, Good(b), b.phase # "stopped",
         \A t \in CurrentWave(b) : b.state[t] # "skipped"
  PROVE  /\ b.targets \in SUBSET Targets
         /\ \A t \in b.targets : b.state[t] \in TargetStates \ {"none", "skipped"}
<1>1. b \in Batches /\ b.targets \in SUBSET Targets
  BY DEF Good, Batches
<1>2. \A t \in b.targets : b.state[t] \in TargetStates \ {"none"}
  BY <1>1 DEF Good, Batches
<1>3. ASSUME NEW t \in b.targets PROVE b.state[t] # "skipped"
  <2>1. CASE t \in CurrentWave(b)
    BY <2>1
  <2>2. CASE WaveOf(b.targets, t) < b.wave
    BY <2>2 DEF Good, Behind, Settled, Proved
  <2>3. CASE WaveOf(b.targets, t) > b.wave
    BY <2>3 DEF Good, Ahead
  <2> QED
    BY <1>1, <2>1, <2>2, <2>3, Waves DEF CurrentWave
<1> QED
  BY <1>1, <1>2, <1>3

LEMMA AbortIsGood ==
  ASSUME NEW b, Good(b), b.phase # "stopped", ~b.claimAttempted,
         \A t \in CurrentWave(b) : b.state[t] # "skipped"
  PROVE  LET c == AbortUnresolvedDispatch(b) IN Good(c) /\ Frame(b, c)
<1> DEFINE S == IdsIn(b, {"dispatched", "dispatching", "dispatch_error"})
           c == AbortUnresolvedDispatch(b)
<1>1. b \in Batches
  BY DEF Good
<1>2. /\ Frame(b, c) /\ c.wave = AfterLastWave /\ c.phase = "stopped"
      /\ \A t \in Targets :
           c.state[t] = IF t \in IdsIn(b, {"pending"}) THEN "skipped"
                        ELSE IF t \in S THEN "failed" ELSE b.state[t]
  BY <1>1, StopMarks DEF AbortUnresolvedDispatch
<1> HIDE DEF c
<1>3. /\ b.targets \in SUBSET Targets
      /\ \A t \in b.targets : b.state[t] \in TargetStates \ {"none", "skipped"}
  BY NothingSkipped
<1>4. \A t \in b.targets :
        c.state[t] = IF b.state[t] = "pending" THEN "skipped"
                     ELSE IF b.state[t] \in Proved THEN b.state[t] ELSE "failed"
  BY <1>2, <1>3 DEF IdsIn, Proved, TargetStates
<1> QED
  BY <1>2, <1>4, StopKeepsGood DEF c

LEMMA MarchReconciledStep ==
  ASSUME IInv, NEW k \in tasks, MarchReconciled(k)
  PROVE  IInv'
<1>1. /\ UNCHANGED game /\ items' \in SUBSET Targets /\ batch.live
      /\ batch.phase = "reconciling" /\ k.callback = "march_reconciled"
  BY DEF MarchReconciled, Returned, IInv, TypeOK, Commands
<1>2. /\ tasks \ {k} = {} /\ InCallback /\ Awaits(batch, k) /\ Good(batch)
  BY <1>1, Context
<1>3. Resulted(batch) /\ batch.phase # "stopped"
  BY <1>1, <1>2 DEF Awaits
<1>4. /\ batch \in Batches /\ batch.targets \in SUBSET Targets
      /\ CurrentWave(batch) \subseteq batch.targets
      /\ ~batch.claimAttempted /\ ~AllWavesDone(batch)
  BY <1>2, <1>3 DEF Good, Batches, CurrentWave, Resulted
<1> DEFINE E == InWave(batch, {"dispatch_error"})
           c == ReconcileDispatchErrors(batch, k.found)
<1>5. /\ Frame(batch, c) /\ c.wave = batch.wave /\ c.phase = "resolved"
      /\ \A t \in Targets :
           c.state[t] = IF t \in E THEN IF t \in k.found THEN "failed" ELSE "dispatched"
                        ELSE batch.state[t]
  BY <1>4, ReconcileMarks
<1> HIDE DEF c
<1>6. \A t \in CurrentWave(batch) :
        /\ t \in E => batch.state[t] = "dispatch_error"
        /\ t \notin E => batch.state[t] \in {"dispatched", "failed"}
  BY <1>3 DEF Resulted, InWave, IdsIn, CurrentWave
<1>7. \A t \in CurrentWave(batch) : c.state[t] \in {"dispatched", "failed"}
  BY <1>4, <1>5, <1>6
<1>8. Good(c)
  <2>1. E \subseteq CurrentWave(batch)
    BY DEF InWave
  <2>2. \A t \in batch.targets \ CurrentWave(batch) : c.state[t] = batch.state[t]
    BY <1>4, <1>5, <2>1
  <2> QED
    BY <1>2, <1>3, <1>4, <1>5, <1>7, <2>2, CurrentKeepsGood DEF Proved
<1>9. /\ CurrentWave(c) = CurrentWave(batch) /\ ~AllWavesDone(c)
      /\ ~c.claimAttempted
  BY <1>4, <1>5 DEF CurrentWave, AllWavesDone, Frame
<1>10. CASE k.res = "ok" /\ E \cap k.found = {}
  <2>1. ContinueAfterWaveDispatches(c, {})
    BY <1>2, <1>10 DEF MarchReconciled, c
  <2>2. Resulted(c)
    <3>1. \A t \in CurrentWave(batch) : c.state[t] = "failed" => quest[t] # "marching"
      BY <1>3, <1>4, <1>5, <1>10 DEF Resulted
    <3> QED
      BY <1>7, <1>9, <3>1 DEF Resulted
  <2>3. InWave(c, {"dispatch_error"}) = {}
    BY <1>7, <1>9 DEF InWave, IdsIn
  <2> QED
    BY <1>2, <1>5, <1>8, <2>1, <2>2, <2>3, ContinueKeepsIInv
<1>11. CASE k.res = "ok" /\ E \cap k.found # {}
  <2>1. FinishHuntBatch(AbortUnresolvedDispatch(c), {})
    BY <1>2, <1>11 DEF MarchReconciled, c
  <2>2. Good(AbortUnresolvedDispatch(c))
    BY <1>5, <1>7, <1>8, <1>9, AbortIsGood
  <2> QED
    BY <1>2, <2>1, <2>2, FinishKeepsIInv DEF Good
<1>12. CASE k.res # "ok"
  <2>1. FinishHuntBatch(AbortUnresolvedDispatch(batch), {})
    BY <1>2, <1>12 DEF MarchReconciled
  <2>2. \A t \in CurrentWave(batch) : batch.state[t] # "skipped"
    BY <1>6
  <2>3. Good(AbortUnresolvedDispatch(batch))
    BY <1>2, <1>3, <1>4, <2>2, AbortIsGood
  <2> QED
    BY <1>2, <2>1, <2>3, FinishKeepsIInv DEF Good
<1> QED
  BY <1>10, <1>11, <1>12

LEMMA CompleteIsGood ==
  ASSUME NEW b, Good(b), b.phase # "stopped", Resulted(b),
         InWave(b, {"dispatch_error"}) = {},
         \A t \in InWave(b, {"dispatched"}) : Terminal(t)
  PROVE  LET c == CompleteCurrentWave(b) IN Good(c) /\ ~c.claimAttempted
<1> DEFINE D == InWave(b, {"dispatched"})
           c == CompleteCurrentWave(b)
<1>1. /\ b \in Batches /\ b.targets \in SUBSET Targets
      /\ ~AllWavesDone(b) /\ ~b.claimAttempted
  BY DEF Good, Batches, Resulted
<1>2. /\ Frame(b, c) /\ c.wave = b.wave + 1 /\ c.phase = "ready"
      /\ \A t \in Targets :
           c.state[t] = IF t \in D
                        THEN IF t \in b.reconciledDetails THEN "reconciled" ELSE "success"
                        ELSE b.state[t]
  BY <1>1, CompleteMarks
<1> HIDE DEF c
<1>3. D \subseteq CurrentWave(b) /\ CurrentWave(b) \subseteq b.targets
  BY DEF InWave, CurrentWave
<1>4. ASSUME NEW t \in CurrentWave(b)
      PROVE  /\ c.state[t] \in Settled /\ quest[t] # "marching"
             /\ c.state[t] \in Proved => Terminal(t)
  <2>1. CASE t \in D
    <3>1. c.state[t] \in Proved
      BY <1>1, <1>2, <1>3, <2>1 DEF Proved
    <3> QED
      BY <2>1, <3>1 DEF Settled, Terminal
  <2>2. CASE t \notin D
    <3>1. b.state[t] = "failed" /\ quest[t] # "marching"
      BY <2>2 DEF Resulted, InWave, IdsIn, CurrentWave
    <3>2. c.state[t] = "failed"
      BY <1>1, <1>2, <1>3, <2>2, <3>1
    <3> QED
      BY <3>1, <3>2 DEF Settled, Proved
  <2> QED
    BY <2>1, <2>2
<1>5. \A t \in b.targets \ CurrentWave(b) : c.state[t] = b.state[t]
  BY <1>1, <1>2, <1>3
<1>6. Good(c)
  BY <1>1, <1>2, <1>4, <1>5, AdvanceKeepsGood
<1>7. ~c.claimAttempted
  BY <1>1, <1>2 DEF Frame
<1> QED
  BY <1>6, <1>7 DEF c

LEMMA WaveWaitFinishedStep ==
  ASSUME IInv, NEW k \in tasks, WaveWaitFinished(k)
  PROVE  IInv'
<1>1. /\ UNCHANGED game /\ items' \in SUBSET Targets /\ batch.live
      /\ batch.phase = "waiting" /\ k.callback = "wave_wait_finished"
  BY DEF WaveWaitFinished, Returned, IInv, TypeOK
<1>2. /\ tasks \ {k} = {} /\ InCallback /\ Awaits(batch, k) /\ Truthful(k)
      /\ Good(batch)
  BY <1>1, Context
<1>3. /\ Resulted(batch) /\ batch.phase # "stopped"
      /\ InWave(batch, {"dispatch_error"}) = {}
      /\ InWave(batch, {"dispatched"}) # {}
      /\ k.ids = InWave(batch, {"dispatched"})
  BY <1>1, <1>2 DEF Awaits
<1>4. CASE k.res = "ok"
  <2>1. \A t \in InWave(batch, {"dispatched"}) : Terminal(t)
    BY <1>1, <1>2, <1>3, <1>4 DEF Truthful
  <2>2. DispatchNextHunt(CompleteCurrentWave(batch), {})
    BY <1>2, <1>4 DEF WaveWaitFinished
  <2> QED
    BY <1>2, <1>3, <2>1, <2>2, CompleteIsGood, DispatchKeepsIInv
<1>5. CASE k.res # "ok"
  <2> DEFINE j == Command("inspect", batch.targets, "wave_reconciled")
  <2>1. batch' = batch /\ tasks' = {j} /\ UNCHANGED <<busy, report>>
    BY <1>2, <1>5 DEF WaveWaitFinished, SubmitFor
  <2>2. /\ "inspect" \in Ops /\ "wave_reconciled" \in Callbacks
        /\ batch.targets \in SUBSET Targets
    BY <1>2 DEF Ops, Callbacks, Good, Batches
  <2>3. Awaits(batch, j)
    BY <1>1, <1>3 DEF Awaits, Command
  <2> QED
    BY <1>2, <2>1, <2>2, <2>3, SubmitKeepsIInv DEF InCallback, InStep, TypeOK
<1> QED
  BY <1>4, <1>5

LEMMA FailWaitIsGood ==
  ASSUME NEW b, Good(b), b.phase # "stopped", Resulted(b),
         InWave(b, {"dispatch_error"}) = {}
  PROVE  LET c == FailWaitReconciliation(b) IN Good(c) /\ ~c.claimAttempted
<1> DEFINE D == InWave(b, {"dispatched"})
           c == FailWaitReconciliation(b)
<1>1. b \in Batches /\ ~b.claimAttempted
  BY DEF Good, Resulted
<1>2. /\ Frame(b, c) /\ c.wave = AfterLastWave /\ c.phase = "stopped"
      /\ \A t \in Targets :
           c.state[t] = IF t \in IdsIn(b, {"pending"}) THEN "skipped"
                        ELSE IF t \in D THEN "failed" ELSE b.state[t]
  BY <1>1, StopMarks DEF FailWaitReconciliation
<1> HIDE DEF c
<1>3. \A t \in CurrentWave(b) :
        /\ t \in D => b.state[t] = "dispatched"
        /\ t \notin D => b.state[t] = "failed"
  BY DEF Resulted, InWave, IdsIn, CurrentWave
<1>4. b.targets \in SUBSET Targets
  BY <1>1 DEF Batches
<1>5. ASSUME NEW t \in b.targets
      PROVE  c.state[t] = IF b.state[t] = "pending" THEN "skipped"
                          ELSE IF b.state[t] \in Proved THEN b.state[t] ELSE "failed"
  <2>1. t \in Targets /\ (t \in IdsIn(b, {"pending"}) <=> b.state[t] = "pending")
    BY <1>4 DEF IdsIn
  <2>2. CASE t \in CurrentWave(b)
    BY <1>2, <1>3, <2>1, <2>2 DEF Proved
  <2>3. CASE t \notin CurrentWave(b)
    <3>1. t \notin D
      BY <2>3 DEF InWave
    <3>2. CASE WaveOf(b.targets, t) < b.wave
      <4>1. b.state[t] \in Settled
        BY <3>2 DEF Good, Behind
      <4> QED
        BY <1>2, <2>1, <3>1, <4>1 DEF Settled, Proved
    <3>3. CASE WaveOf(b.targets, t) > b.wave
      <4>1. b.state[t] = "pending"
        BY <3>3 DEF Good, Ahead
      <4> QED
        BY <1>2, <2>1, <4>1
    <3> QED
      BY <1>1, <2>3, <3>2, <3>3, Waves DEF CurrentWave
  <2> QED
    BY <2>2, <2>3
<1>6. Good(c)
  BY <1>1, <1>2, <1>5, StopKeepsGood
<1>7. ~c.claimAttempted
  BY <1>1, <1>2 DEF Frame
<1> QED
  BY <1>6, <1>7 DEF c

LEMMA WaveReconciledStep ==
  ASSUME IInv, NEW k \in tasks, WaveReconciled(k)
  PROVE  IInv'
<1>1. /\ UNCHANGED game /\ items' \in SUBSET Targets /\ batch.live
      /\ batch.phase = "waiting" /\ k.callback = "wave_reconciled"
  BY DEF WaveReconciled, Returned, IInv, TypeOK, Commands
<1>2. tasks \ {k} = {} /\ InCallback /\ Awaits(batch, k) /\ Good(batch)
  BY <1>1, Context
<1>3. /\ Resulted(batch) /\ batch.phase # "stopped"
      /\ InWave(batch, {"dispatch_error"}) = {}
  BY <1>1, <1>2 DEF Awaits
<1>4. DispatchNextHunt(FailWaitReconciliation(batch), {})
  BY <1>2 DEF WaveReconciled
<1> QED
  BY <1>2, <1>3, <1>4, FailWaitIsGood, DispatchKeepsIInv

LEMMA ClaimFinishedStep ==
  ASSUME IInv, NEW k \in tasks, ClaimFinished(k)
  PROVE  IInv'
<1>1. /\ UNCHANGED game /\ items' \in SUBSET Targets /\ batch.live
      /\ k.callback = "claim_finished"
  BY DEF ClaimFinished, Returned, IInv, TypeOK
<1>2. tasks \ {k} = {} /\ InCallback /\ Awaits(batch, k) /\ Good(batch)
  BY <1>1, Context
<1>3. batch.claimAttempted /\ AllWavesDone(batch)
  BY <1>1, <1>2 DEF Awaits
<1> DEFINE c == [batch EXCEPT !.claimError = (@ \/ k.res # "ok")]
           j == Command("waitAll", batch.targets, "claim_verified")
<1>4. batch' = c /\ tasks' = {j} /\ UNCHANGED <<busy, report>>
  BY <1>2 DEF ClaimFinished, SubmitFor
<1>5. /\ c \in Batches /\ c.live /\ c.targets = batch.targets
      /\ c.wave = batch.wave /\ c.phase = batch.phase /\ c.state = batch.state
      /\ ~c.claimVerified /\ c.claimAttempted
      /\ batch.targets \in SUBSET Targets
  BY <1>2, <1>3 DEF Good, Batches
<1> HIDE DEF c
<1>6. Good(c)
  BY <1>2, <1>3, <1>5, FlagsKeepGood DEF Good
<1>7. "waitAll" \in Ops /\ "claim_verified" \in Callbacks
  BY DEF Ops, Callbacks
<1>8. AllWavesDone(c)
  BY <1>3, <1>5 DEF AllWavesDone
<1>9. Awaits(c, j)
  BY <1>5, <1>8 DEF Awaits, Command
<1> QED
  BY <1>2, <1>4, <1>5, <1>6, <1>7, <1>9, SubmitKeepsIInv
     DEF InCallback, InStep, TypeOK

LEMMA ClaimVerifiedStep ==
  ASSUME IInv, NEW k \in tasks, ClaimVerified(k)
  PROVE  IInv'
<1>1. /\ UNCHANGED game /\ items' \in SUBSET Targets /\ batch.live
      /\ k.callback = "claim_verified"
  BY DEF ClaimVerified, Returned, IInv, TypeOK
<1>2. tasks \ {k} = {} /\ InCallback /\ Awaits(batch, k) /\ Good(batch)
  BY <1>1, Context
<1> DEFINE absent == k.res \in {"ok", "refused"} /\ k.found = batch.targets
           valid  == k.res = "ok" /\ absent
           c == [batch EXCEPT !.claimVerified = absent,
                              !.claimError = (@ \/ ~valid)]
<1>3. FinishHuntBatch(c, {})
  BY <1>2 DEF ClaimVerified
<1>4. c.live /\ c.claimAttempted
  BY <1>1, <1>2 DEF Awaits, Good, Batches
<1> HIDE DEF c
<1> QED
  BY <1>2, <1>3, <1>4, FinishKeepsIInv DEF NeedsFinalReconcile

\* A reconciliation that proves the whole batch leads to the claim.
LEMMA ReconciledIsGood ==
  ASSUME NEW b, Good(b), NEW S, \A t \in S : Terminal(t)
  PROVE  LET c == ReconcileTerminalOutcomes(b, S)
         IN  Frame(b, c) /\ (CanClaim(c) => Good(c))
<1> DEFINE R == S \cap IdsIn(b, {"failed", "skipped"})
           c == ReconcileTerminalOutcomes(b, S)
<1>1. b \in Batches /\ "reconciled" \in TargetStates
  BY DEF Good, TargetStates
<1>2. /\ Frame(b, c) /\ c.wave = b.wave /\ c.phase = b.phase
      /\ \A t \in Targets : c.state[t] = IF t \in R THEN "reconciled" ELSE b.state[t]
  BY <1>1, SetStateMarks DEF ReconcileTerminalOutcomes
<1> HIDE DEF c
<1>3. c.targets = b.targets /\ b.targets \in SUBSET Targets
  BY <1>1, <1>2 DEF Frame, Batches
<1>4. ASSUME CanClaim(c), NEW t \in c.targets
      PROVE  Terminal(t)
  <2>1. c.state[t] \in Proved
    BY <1>4 DEF CanClaim, IdsIn, Proved
  <2> QED
    BY <1>2, <1>3, <2>1 DEF Good
<1>5. CanClaim(c) => Good(c)
  BY <1>2, <1>4, ClaimableIsGood
<1> QED
  BY <1>2, <1>5 DEF c

LEMMA FinalReconciledStep ==
  ASSUME IInv, NEW k \in tasks, FinalReconciled(k)
  PROVE  IInv'
<1>1. /\ UNCHANGED game /\ items' \in SUBSET Targets /\ batch.live
      /\ k.callback = "final_reconciled"
  BY DEF FinalReconciled, Returned, IInv, TypeOK
<1>2. /\ tasks \ {k} = {} /\ InCallback /\ Awaits(batch, k) /\ Truthful(k)
      /\ Good(batch)
  BY <1>1, Context
<1> DEFINE c == IF k.res = "ok" THEN ReconcileTerminalOutcomes(batch, k.found)
                                ELSE batch
<1>3. IF CanClaim(c) THEN StartClaim(c, {}) ELSE FinishHuntBatch(c, {})
  BY <1>2 DEF FinalReconciled
<1>4. Frame(batch, c) /\ (CanClaim(c) => Good(c))
  <2>1. CASE k.res = "ok"
    <3>1. \A t \in k.found : Terminal(t)
      BY <1>1, <1>2, <2>1 DEF Truthful
    <3> QED
      BY <1>2, <2>1, <3>1, ReconciledIsGood
  <2>2. CASE k.res # "ok"
    BY <1>2, <2>2 DEF Frame, Good
  <2> QED
    BY <2>1, <2>2
<1> HIDE DEF c
<1>5. c.live /\ ~NeedsFinalReconcile(c)
  BY <1>1, <1>2, <1>4 DEF Awaits, Frame, NeedsFinalReconcile
<1> QED
  BY <1>2, <1>3, <1>4, <1>5, ClaimKeepsIInv, FinishKeepsIInv

-----------------------------------------------------------------------------
(* The game, the player and the commands *)

\* Quests only move on, but for those a batch-intel command has yet to send.
QuestsMoveOn ==
  \A t \in Targets :
    /\ Terminal(t) => quest'[t] \in {"completed", "missing"}
    /\ quest[t] = "missing" => quest'[t] = "missing"
    /\ quest'[t] = "marching" =>
         quest[t] = "marching" \/ \E k \in tasks : k.op = "march" /\ t \in k.todo

LEMMA BackgroundKeepsIInv ==
  ASSUME IInv, UNCHANGED ctrl, QuestsMoveOn,
         quest' \in [Targets -> QuestStates], onRole' \in BOOLEAN,
         tasks' \subseteq Commands, tasks = {} <=> tasks' = {},
         \A j, k \in tasks' : j = k,
         \A k \in tasks' : /\ \E j \in tasks : /\ k.op = j.op /\ k.ids = j.ids
                                               /\ k.callback = j.callback
                           /\ Truthful(k)'
  PROVE  IInv'
<1>1. /\ batch' = batch /\ busy' = busy /\ items' = items /\ report' = report
      /\ TypeOK /\ OneCommand
      /\ batch.live <=> batch.targets # {}
      /\ batch.live => Good(batch) /\ tasks # {}
      /\ \A k \in tasks : Awaits(batch, k) /\ Truthful(k)
  BY DEF IInv, ctrl
<1>2. TypeOK' /\ OneCommand'
  BY <1>1 DEF TypeOK, OneCommand
<1>3. ASSUME NEW t \in Targets, quest'[t] = "marching", quest[t] # "marching"
      PROVE  batch.phase = "dispatching" /\ WaveOf(batch.targets, t) = batch.wave
  <2>1. PICK k \in tasks : k.op = "march" /\ t \in k.todo
    BY <1>3 DEF QuestsMoveOn
  <2>2. /\ k.callback = "batch_dispatch_finished" /\ batch.phase = "dispatching"
        /\ k.ids = CurrentWave(batch) /\ k.todo \subseteq k.ids
    BY <1>1, <2>1 DEF Awaits, Truthful
  <2> QED
    BY <2>1, <2>2 DEF CurrentWave
<1>4. ASSUME batch.live
      PROVE  Good(batch)'
  <2>1. Good(batch) /\ batch.targets \in SUBSET Targets /\ batch.wave \in Nat
    BY <1>1, <1>4, Waves DEF Good, Batches
  <2>2. \A t \in batch.targets : batch.state[t] \in Proved => Terminal(t)'
    BY <2>1 DEF Good, QuestsMoveOn, Terminal
  <2>3. Behind(batch) => Behind(batch)'
    <3> SUFFICES ASSUME Behind(batch), NEW t \in batch.targets,
                        WaveOf(batch.targets, t) < batch.wave
                 PROVE  batch.state[t] \in Settled /\ quest'[t] # "marching"
      BY <1>1 DEF Behind
    <3>1. batch.state[t] \in Settled /\ quest[t] # "marching"
      BY DEF Behind
    <3> QED
      BY <1>3, <2>1, <3>1
  <2>4. /\ Ahead(batch) => Ahead(batch)'
        /\ Over(batch) => Over(batch)'
        /\ Ordered(batch) => Ordered(batch)'
    BY <1>1 DEF Ahead, Over, Ordered, Started
  <2>5. ASSUME batch.phase = "stopped", OneWave(batch)
        PROVE  OneWave(batch)'
    <3>1. \A t \in batch.targets : quest'[t] = "marching" => quest[t] = "marching"
      BY <1>3, <2>1, <2>5
    <3> QED
      BY <1>1, <2>5, <3>1 DEF OneWave, Started
  <2>6. /\ CanClaim(batch) => CanClaim(batch)'
        /\ AllWavesDone(batch) => AllWavesDone(batch)'
    BY <1>1
  <2> QED
    BY <1>1, <2>1, <2>2, <2>3, <2>4, <2>5, <2>6 DEF Good
<1>5. ASSUME NEW k \in tasks'
      PROVE  Awaits(batch, k)'
  <2>1. PICK j \in tasks : /\ k.op = j.op /\ k.ids = j.ids
                           /\ k.callback = j.callback
    OBVIOUS
  <2>2. Awaits(batch, j)
    BY <1>1
  <2>3. ASSUME batch.phase # "dispatching", Resulted(batch)
        PROVE  Resulted(batch)'
    <3>1. CurrentWave(batch) \subseteq Targets
      BY <1>1 DEF TypeOK, Batches, CurrentWave
    <3> QED
      BY <1>1, <1>3, <2>3, <3>1 DEF Resulted
  <2>4. \A S : InWave(batch, S)' = InWave(batch, S)
    BY <1>1 DEF InWave, IdsIn, CurrentWave
  <2>5. CurrentWave(batch)' = CurrentWave(batch) /\ AllWavesDone(batch)' = AllWavesDone(batch)
    BY <1>1 DEF CurrentWave, AllWavesDone
  <2> QED
    BY <1>1, <2>1, <2>2, <2>3, <2>4, <2>5 DEF Awaits
<1> QED
  BY <1>1, <1>2, <1>4, <1>5 DEF IInv, OneCommand

\* A receipt stays true while its quests move on.
LEMMA TruthStays ==
  ASSUME NEW k \in Commands, Truthful(k),
         \A t \in Targets :
           /\ Terminal(t) => quest'[t] \in {"completed", "missing"}
           /\ quest[t] = "missing" => quest'[t] = "missing"
           /\ quest'[t] = "marching" => quest[t] = "marching"
  PROVE  Truthful(k)'
BY DEF Truthful, Terminal, Commands

LEMMA GameStepKeepsIInv ==
  ASSUME IInv, GameStep, UNCHANGED ctrl
  PROVE  IInv'
<1>1. TypeOK /\ OneCommand /\ \A k \in tasks : Truthful(k)
  BY DEF IInv
<1>2. /\ quest' \in [Targets -> QuestStates] /\ onRole' \in BOOLEAN
      /\ tasks' = tasks
      /\ \A t \in Targets :
           /\ Terminal(t) => quest'[t] \in {"completed", "missing"}
           /\ quest[t] = "missing" => quest'[t] = "missing"
           /\ quest'[t] = "marching" => quest[t] = "marching"
  <2>1. CASE PlayerSwitchesRole
    BY <1>1, <2>1 DEF PlayerSwitchesRole, TypeOK, Terminal
  <2>2. CASE \E t \in Targets : MarchReturns(t) \/ QuestDisappears(t) \/ PlayerRecalls(t)
    <3>1. PICK t \in Targets : MarchReturns(t) \/ QuestDisappears(t) \/ PlayerRecalls(t)
      BY <2>2
    <3>2. /\ \/ quest[t] = "marching" /\ quest' = [quest EXCEPT ![t] = "completed"]
             \/ /\ quest[t] \in {"available", "completed"}
                /\ quest' = [quest EXCEPT ![t] = "missing"]
             \/ quest[t] = "marching" /\ quest' = [quest EXCEPT ![t] = "available"]
          /\ onRole' = onRole /\ tasks' = tasks
      BY <3>1 DEF MarchReturns, QuestDisappears, PlayerRecalls
    <3> QED
      BY <1>1, <3>2 DEF TypeOK, QuestStates, Terminal
  <2> QED
    BY <2>1, <2>2 DEF GameStep
<1>3. QuestsMoveOn
  BY <1>2 DEF QuestsMoveOn
<1>4. \A k \in tasks : k \in Commands /\ Truthful(k)'
  BY <1>1, <1>2, TruthStays DEF TypeOK
<1> QED
  BY <1>1, <1>2, <1>3, <1>4, BackgroundKeepsIInv DEF OneCommand

\* A command returns, or goes on with its next target, as j.
LEMMA CommandKeepsIInv ==
  ASSUME IInv, NEW k \in tasks, UNCHANGED ctrl, QuestsMoveOn,
         quest' \in [Targets -> QuestStates], onRole' \in BOOLEAN,
         NEW j \in Commands, tasks' = (tasks \ {k}) \cup {j},
         j.op = k.op, j.ids = k.ids, j.callback = k.callback, Truthful(j)'
  PROVE  IInv'
<1>1. tasks' = {j}
  BY DEF IInv, OneCommand
<1> QED
  BY <1>1, BackgroundKeepsIInv

LEMMA QuestsStand ==
  ASSUME TypeOK, quest' = quest
  PROVE  QuestsMoveOn /\ quest' \in [Targets -> QuestStates]
BY DEF QuestsMoveOn, TypeOK, Terminal

\* What the commands that return at once make of k.
LEMMA ReturnsIs ==
  ASSUME NEW k \in Commands, NEW res \in Results, NEW found \in SUBSET Targets,
         Returns(k, res, found)
  PROVE  \E j \in Commands :
           /\ tasks' = (tasks \ {k}) \cup {j}
           /\ j.op = k.op /\ j.ids = k.ids /\ j.callback = k.callback
           /\ j.res = res /\ j.found = found /\ j.held = k.held /\ j.todo = k.todo
<1> DEFINE j == [k EXCEPT !.res = res, !.found = found]
<1>1. /\ j \in Commands /\ j.op = k.op /\ j.ids = k.ids /\ j.callback = k.callback
      /\ j.res = res /\ j.found = found /\ j.held = k.held /\ j.todo = k.todo
  BY DEF Commands
<1> QED
  BY <1>1 DEF Returns

LEMMA CommandFailsStep ==
  ASSUME IInv, NEW k \in tasks, CommandFails(k), UNCHANGED ctrl
  PROVE  IInv'
<1>1. TypeOK /\ k \in Commands /\ Truthful(k)
  BY DEF IInv, TypeOK
<1>2. PICK j \in Commands :
        /\ tasks' = (tasks \ {k}) \cup {j}
        /\ j.op = k.op /\ j.ids = k.ids /\ j.callback = k.callback
        /\ j.res = "error" /\ j.found = {} /\ j.held = k.held /\ j.todo = k.todo
  BY <1>1, ReturnsIs DEF CommandFails, Results
<1>3. quest' = quest /\ onRole' \in BOOLEAN
  BY <1>1 DEF CommandFails, TypeOK
<1>4. Truthful(j)'
  BY <1>1, <1>2, <1>3 DEF Truthful
<1> QED
  BY <1>1, <1>2, <1>3, <1>4, QuestsStand, CommandKeepsIInv

LEMMA InspectTasksStep ==
  ASSUME IInv, NEW k \in tasks, InspectTasks(k), UNCHANGED ctrl
  PROVE  IInv'
<1>1. TypeOK /\ k \in Commands /\ Awaits(batch, k) /\ k.op = "inspect"
  BY DEF IInv, TypeOK, InspectTasks
<1> DEFINE S == IF onRole THEN QuestsIn({"available"}) ELSE {}
<1>2. S \in SUBSET Targets
  BY DEF QuestsIn
<1>3. Returns(k, "ok", S)
  BY DEF InspectTasks
<1> HIDE DEF S
<1>4. PICK j \in Commands :
        /\ tasks' = (tasks \ {k}) \cup {j}
        /\ j.op = k.op /\ j.ids = k.ids /\ j.callback = k.callback
        /\ j.res = "ok" /\ j.found = S /\ j.held = k.held /\ j.todo = k.todo
  BY <1>1, <1>2, <1>3, ReturnsIs DEF Results
<1>5. quest' = quest /\ onRole' \in BOOLEAN
  BY <1>1 DEF InspectTasks, TypeOK
<1>6. Truthful(j)'
  BY <1>1, <1>4 DEF Truthful, Awaits
<1> QED
  BY <1>1, <1>4, <1>5, <1>6, QuestsStand, CommandKeepsIInv

LEMMA StatusReadStep ==
  ASSUME IInv, NEW k \in tasks, StatusRead(k), UNCHANGED ctrl
  PROVE  IInv'
<1>1. /\ TypeOK /\ k \in Commands /\ Awaits(batch, k)
      /\ k.op \in {"waitAny", "waitAll", "status"}
  BY DEF IInv, TypeOK, StatusRead
<1> DEFINE S == {t \in k.ids : IF k.op = "waitAll" THEN quest[t] = "missing"
                               ELSE Terminal(t)}
<1>2. S \in SUBSET Targets
  BY <1>1 DEF Commands
<1>3. Returns(k, "ok", S) /\ quest' = quest /\ onRole' \in BOOLEAN
  BY <1>1 DEF StatusRead, TypeOK
<1>4. PICK j \in Commands :
        /\ tasks' = (tasks \ {k}) \cup {j}
        /\ j.op = k.op /\ j.ids = k.ids /\ j.callback = k.callback
        /\ j.res = "ok" /\ j.found = S /\ j.held = k.held /\ j.todo = k.todo
  BY <1>1, <1>2, <1>3, ReturnsIs DEF Results
<1>5. j.callback = "wave_wait_finished" => \A t \in j.ids : Terminal(t)
  BY <1>1, <1>4 DEF Awaits, StatusRead
<1>6. j.callback = "claim_verified" => \A t \in j.found : quest[t] = "missing"
  BY <1>1, <1>4 DEF Awaits
<1>7. j.callback = "final_reconciled" => \A t \in j.found : Terminal(t)
  BY <1>1, <1>4 DEF Awaits
<1>8. Truthful(j)'
  BY <1>1, <1>3, <1>4, <1>5, <1>6, <1>7 DEF Truthful, Terminal
<1> QED
  BY <1>1, <1>3, <1>4, <1>8, QuestsStand, CommandKeepsIInv

LEMMA ForeignReadingStep ==
  ASSUME IInv, NEW k \in tasks, ForeignReading(k), UNCHANGED ctrl
  PROVE  IInv'
<1>1. /\ TypeOK /\ k \in Commands /\ Awaits(batch, k)
      /\ k.op \in {"waitAny", "waitAll", "status"}
  BY DEF IInv, TypeOK, ForeignReading
<1>2. Returns(k, "refused", k.ids) /\ quest' = quest /\ onRole' \in BOOLEAN
  BY <1>1 DEF ForeignReading, TypeOK
<1>3. PICK j \in Commands :
        /\ tasks' = (tasks \ {k}) \cup {j}
        /\ j.op = k.op /\ j.ids = k.ids /\ j.callback = k.callback
        /\ j.res = "refused" /\ j.found = k.ids
        /\ j.held = k.held /\ j.todo = k.todo
  BY <1>1, <1>2, ReturnsIs DEF Results, Commands
<1>4. Truthful(j)'
  BY <1>1, <1>3 DEF Truthful
<1> QED
  BY <1>1, <1>2, <1>3, <1>4, QuestsStand, CommandKeepsIInv

LEMMA ClaimIntelStep ==
  ASSUME IInv, NEW k \in tasks, NEW res \in {"ok", "error"}, ClaimIntel(k, res),
         UNCHANGED ctrl
  PROVE  IInv'
<1>1. /\ TypeOK /\ k \in Commands /\ Awaits(batch, k) /\ k.op = "claim"
      /\ OneCommand
  BY DEF IInv, TypeOK, ClaimIntel
<1> DEFINE S == IF res = "ok" THEN k.ids ELSE {}
<1>2. S \in SUBSET Targets
  BY <1>1 DEF Commands
<1>3. Returns(k, res, S) /\ onRole' \in BOOLEAN
  BY <1>1 DEF ClaimIntel, TypeOK
<1> HIDE DEF S
<1>4. PICK j \in Commands :
        /\ tasks' = (tasks \ {k}) \cup {j}
        /\ j.op = k.op /\ j.ids = k.ids /\ j.callback = k.callback
        /\ j.res = res /\ j.found = S /\ j.held = k.held /\ j.todo = k.todo
  BY <1>1, <1>2, <1>3, ReturnsIs DEF Results
<1>5. /\ quest' \in [Targets -> QuestStates]
      /\ \A t \in Targets :
           /\ Terminal(t) => quest'[t] \in {"completed", "missing"}
           /\ quest[t] = "missing" => quest'[t] = "missing"
           /\ quest'[t] = "marching" => quest[t] = "marching"
  BY <1>1 DEF ClaimIntel, TypeOK, QuestStates, Terminal
<1>6. QuestsMoveOn
  BY <1>5 DEF QuestsMoveOn
<1>7. Truthful(j)'
  BY <1>1, <1>4 DEF Truthful, Awaits
<1> QED
  BY <1>3, <1>4, <1>5, <1>6, <1>7, CommandKeepsIInv

\* What is left of a batch-intel command when after is known of its target.
LEMMA TargetDoneIs ==
  ASSUME NEW k, NEW after \in Commands, TargetDone(k, after)
  PROVE  \E j \in Commands :
           /\ tasks' = (tasks \ {k}) \cup {j}
           /\ j.op = after.op /\ j.ids = after.ids /\ j.callback = after.callback
           /\ j.todo = after.todo /\ j.found = after.found /\ j.held = after.held
<1> DEFINE r == IF after.todo = {} THEN "ok" ELSE "running"
           j == [after EXCEPT !.res = r]
<1>1. tasks' = (tasks \ {k}) \cup {j}
  BY DEF TargetDone
<1>2. r \in Results
  BY DEF Results
<1> HIDE DEF r
<1>3. /\ j \in Commands /\ j.op = after.op /\ j.ids = after.ids
      /\ j.callback = after.callback /\ j.todo = after.todo
      /\ j.found = after.found /\ j.held = after.held
  BY <1>2 DEF Commands
<1> HIDE DEF j
<1> QED
  BY <1>1, <1>3

LEMMA BatchIntelStep ==
  ASSUME IInv, NEW k \in tasks, BatchIntel(k), UNCHANGED ctrl
  PROVE  IInv'
<1>1. /\ TypeOK /\ k \in Commands /\ Awaits(batch, k) /\ Truthful(k)
      /\ k.op = "march" /\ onRole' \in BOOLEAN
  BY DEF IInv, TypeOK, BatchIntel
<1>2. /\ k.found \cup k.held \cup k.todo \subseteq k.ids
      /\ k.held \cap k.todo = {}
      /\ \A u \in k.held : quest[u] # "marching"
      /\ k.ids \in SUBSET Targets
      /\ k.callback = "batch_dispatch_finished"
  BY <1>1 DEF Truthful, Commands, Awaits
<1>3. PICK t \in k.todo :
        LET rest == [k EXCEPT !.todo = @ \ {t}]
            sent == [rest EXCEPT !.found = @ \cup {t}]
            held == [rest EXCEPT !.held = @ \cup {t}]
        IN  \/ /\ quest[t] = "available"
               /\ quest' = [quest EXCEPT ![t] = "marching"]
               /\ TargetDone(k, sent) \/ TargetDone(k, rest)
            \/ /\ quest[t] = "available" /\ quest' = quest /\ TargetDone(k, held)
            \/ /\ quest[t] = "available"
               /\ quest' \in {[quest EXCEPT ![t] = s] :
                                s \in {"available", "marching", "completed"}}
               /\ TargetDone(k, sent)
            \/ quest' = quest /\ TargetDone(k, rest)
  BY DEF BatchIntel
<1> DEFINE rest == [k EXCEPT !.todo = @ \ {t}]
           sent == [rest EXCEPT !.found = @ \cup {t}]
           held == [rest EXCEPT !.held = @ \cup {t}]
<1>4. t \in Targets
  BY <1>2
<1>5. /\ quest' \in [Targets -> QuestStates]
      /\ \A u \in Targets \ {t} : quest'[u] = quest[u]
      /\ quest'[t] = quest[t] \/ quest[t] = "available"
  <2>1. \/ quest' = quest
        \/ /\ quest[t] = "available"
           /\ \E s \in {"available", "marching", "completed"} :
                quest' = [quest EXCEPT ![t] = s]
    BY <1>3
  <2> QED
    BY <1>1, <1>4, <2>1 DEF TypeOK, QuestStates
<1>6. QuestsMoveOn
  BY <1>1, <1>5 DEF QuestsMoveOn, Terminal
<1>7. \/ TargetDone(k, sent)
      \/ TargetDone(k, rest)
      \/ TargetDone(k, held) /\ quest' = quest /\ quest[t] = "available"
  BY <1>3
<1>8. PICK j \in Commands :
        /\ tasks' = (tasks \ {k}) \cup {j}
        /\ j.op = k.op /\ j.ids = k.ids /\ j.callback = k.callback
        /\ j.todo = k.todo \ {t}
        /\ j.found \subseteq k.found \cup {t}
        /\ \/ j.held = k.held
           \/ j.held \subseteq k.held \cup {t} /\ quest'[t] = "available"
  <2>1. /\ sent \in Commands /\ sent.op = k.op /\ sent.ids = k.ids
        /\ sent.callback = k.callback /\ sent.todo = k.todo \ {t}
        /\ sent.found = k.found \cup {t} /\ sent.held = k.held
    BY <1>1, <1>4 DEF Commands
  <2>2. /\ held \in Commands /\ held.op = k.op /\ held.ids = k.ids
        /\ held.callback = k.callback /\ held.todo = k.todo \ {t}
        /\ held.found = k.found /\ held.held = k.held \cup {t}
    BY <1>1, <1>4 DEF Commands
  <2>3. /\ rest \in Commands /\ rest.op = k.op /\ rest.ids = k.ids
        /\ rest.callback = k.callback /\ rest.todo = k.todo \ {t}
        /\ rest.found = k.found /\ rest.held = k.held
    BY <1>1, <1>4 DEF Commands
  <2> HIDE DEF rest, sent, held
  <2>4. CASE TargetDone(k, sent)
    BY <2>1, <2>4, TargetDoneIs
  <2>5. CASE TargetDone(k, rest)
    BY <2>3, <2>5, TargetDoneIs
  <2>6. CASE TargetDone(k, held) /\ quest' = quest /\ quest[t] = "available"
    BY <2>2, <2>6, TargetDoneIs
  <2> QED
    BY <1>7, <2>4, <2>5, <2>6
<1>9. Truthful(j)'
  <2>1. j.found \cup j.held \cup j.todo \subseteq j.ids
    BY <1>2, <1>8
  <2>2. j.held \cap j.todo = {}
    BY <1>2, <1>8
  <2>3. ASSUME NEW u \in j.held PROVE quest'[u] # "marching"
    BY <1>2, <1>5, <1>8
  <2> QED
    BY <1>2, <1>8, <2>1, <2>2, <2>3 DEF Truthful
<1> QED
  BY <1>1, <1>5, <1>6, <1>8, <1>9, CommandKeepsIInv

-----------------------------------------------------------------------------
(* The invariant *)

LEMMA InitEstablishesIInv == Init => IInv
<1> SUFFICES ASSUME Init PROVE IInv
  OBVIOUS
<1>1. /\ batch \in Batches /\ ~batch.live /\ batch.targets = {}
      /\ quest \in [Targets -> QuestStates]
  BY NoBatch DEF Init, QuestStates
<1>2. TypeOK
  BY <1>1 DEF Init, TypeOK, Reports
<1>3. OneCommand
  BY DEF Init, OneCommand
<1> QED
  BY <1>1, <1>2, <1>3 DEF IInv, Init

LEMMA StutterKeepsIInv ==
  ASSUME IInv, UNCHANGED vars
  PROVE  IInv'
<1>1. /\ TypeOK /\ OneCommand /\ UNCHANGED ctrl
      /\ quest' = quest /\ onRole' = onRole /\ tasks' = tasks
      /\ \A k \in tasks : k \in Commands /\ Truthful(k)
  BY DEF IInv, vars, ctrl, TypeOK
<1>2. \A k \in tasks : Truthful(k)'
  BY <1>1 DEF Truthful, Terminal
<1> QED
  BY <1>1, <1>2, QuestsStand, BackgroundKeepsIInv DEF OneCommand, TypeOK

LEMMA NextKeepsIInv == IInv /\ [Next]_vars => IInv'
<1> SUFFICES ASSUME IInv, [Next]_vars PROVE IInv'
  OBVIOUS
<1>1. CASE RefreshIntel
  BY <1>1, RefreshIntelStep
<1>2. CASE StartHunt
  BY <1>2, StartHuntStep
<1>3. CASE \E k \in tasks : Callback(k)
  BY <1>3, IntelRefreshedStep, BatchDispatchFinishedStep, MarchReconciledStep,
     WaveWaitFinishedStep, WaveReconciledStep, ClaimFinishedStep,
     ClaimVerifiedStep, FinalReconciledStep
     DEF Callback
<1>4. CASE Runs
  BY <1>4, BatchIntelStep, CommandFailsStep, StatusReadStep, ClaimIntelStep,
     InspectTasksStep, ForeignReadingStep
     DEF Runs, CommandMoves
<1>5. CASE GameStep /\ UNCHANGED ctrl
  BY <1>5, GameStepKeepsIInv
<1>6. CASE UNCHANGED vars
  BY <1>6, StutterKeepsIInv
<1> QED
  BY <1>1, <1>2, <1>3, <1>4, <1>5, <1>6 DEF Next

\* The inductive invariant holds in every reachable state.
THEOREM WavesInvariance == Spec => []IInv
<1> QED
  BY InitEstablishesIInv, NextKeepsIInv, PTL DEF Spec

\* Every reachable state has the types the code gives it: a wave never goes
\* past the last one, whatever the commands answer.
THEOREM WaveTypes == Spec => []TypeOK
<1>1. IInv => TypeOK
  BY DEF IInv
<1> QED
  BY <1>1, WavesInvariance, PTL

\* Every receipt finds its batch in the phase and over the targets it was
\* submitted for, so that no callback of a wave raises.
THEOREM ReceiptsMatchTheWave == Spec => []ReceiptsFindTheirWave
<1>1. IInv => ReceiptsFindTheirWave
  <2> SUFFICES ASSUME IInv PROVE ReceiptsFindTheirWave
    OBVIOUS
  <2>1. OneCommand /\ \A k \in tasks : Awaits(batch, k)
    BY DEF IInv
  <2> QED
    BY <2>1 DEF ReceiptsFindTheirWave, OneCommand, Awaits
<1> QED
  BY <1>1, WavesInvariance, PTL

\* A wave is sent only when every target of the waves before it has its
\* outcome, and what is called done is done in the game.
THEOREM WavesInOrder == Spec => []NextWaveWaits
<1>1. IInv => NextWaveWaits
  <2> SUFFICES ASSUME IInv, NEW t \in batch.targets, NEW u \in batch.targets,
                      Sent(t),
                      WaveOf(batch.targets, u) < WaveOf(batch.targets, t)
               PROVE  /\ batch.state[u] \in {"success", "reconciled", "failed"}
                      /\ batch.state[u] # "failed" => Terminal(u)
    BY DEF NextWaveWaits
  <2>1. Good(batch) /\ batch \in Batches /\ Started(batch, t)
    BY DEF IInv, Good, Sent, Started
  <2>2. batch.state[u] \in Settled
    <3>1. CASE batch.phase = "stopped"
      BY <2>1, <3>1 DEF Good, Ordered
    <3>2. CASE batch.phase # "stopped"
      <4>1. ~(WaveOf(batch.targets, t) > batch.wave)
        BY <2>1, <3>2 DEF Good, Ahead, Started
      <4>2. WaveOf(batch.targets, u) < batch.wave
        BY <2>1, <4>1, Waves
      <4> QED
        BY <2>1, <3>2, <4>2 DEF Good, Behind
    <3> QED
      BY <3>1, <3>2
  <2> QED
    BY <2>1, <2>2 DEF Settled, Proved, Good
<1> QED
  BY <1>1, WavesInvariance, PTL

-----------------------------------------------------------------------------
(* The size of a wave *)

\* Ranks below C times w + 1 and from C times w: there are C of them.
LEMMA RanksOfWave ==
  ASSUME NEW n \in Nat, NEW w \in Nat, n \div Concurrency = w
  PROVE  n \in (w * Concurrency)..(w * Concurrency + Concurrency - 1)
<1>1. Concurrency = 1 \/ Concurrency = 2 \/ Concurrency = 3 \/ Concurrency = 4
  BY WavesAssumption
<1>2. CASE Concurrency = 1
  BY <1>2
<1>3. CASE Concurrency = 2
  BY <1>3
<1>4. CASE Concurrency = 3
  BY <1>4
<1>5. CASE Concurrency = 4
  BY <1>5
<1> QED
  BY <1>1, <1>2, <1>3, <1>4, <1>5

\* No more monsters than Concurrency are of one wave: their ranks differ, and
\* a wave has that many.
LEMMA WaveSize ==
  ASSUME NEW T \in SUBSET Targets, NEW S \in SUBSET (T \cap Monsters),
         \A t, u \in S : WaveOf(T, t) = WaveOf(T, u)
  PROVE  Cardinality(S) <= Concurrency
<1> DEFINE below(t) == {u \in T \cap Monsters : u < t}
           rank == [t \in S |-> Cardinality(below(t))]
<1>1. Concurrency \in Nat /\ Concurrency > 0 /\ Targets \subseteq Nat
  BY WavesAssumption, TargetsAssumption DEF Targets
<1>2. IsFiniteSet(S) /\ Cardinality(S) \in Nat
  BY FiniteTargets
<1>3. \A t \in S : IsFiniteSet(below(t)) /\ Cardinality(below(t)) \in Nat
  BY FiniteTargets
<1>4. SUFFICES ASSUME Cardinality(S) > Concurrency PROVE FALSE
  BY <1>1, <1>2
<1>5. PICK t0 \in S : TRUE
  <2>1. S # {}
    BY <1>1, <1>4, FS_EmptySet
  <2> QED
    BY <2>1
<1> DEFINE w == WaveOf(T, t0)
           I == (w * Concurrency)..(w * Concurrency + Concurrency - 1)
<1>6. w \in Nat
  BY WaveType, TargetsAssumption
<1>7. \A t \in S : rank[t] \in Nat /\ rank[t] \div Concurrency = w
  BY <1>3 DEF WaveOf
<1> HIDE DEF rank, w
<1>8. \A t \in S : rank[t] \in I
  BY <1>6, <1>7, RanksOfWave
<1>9. IsFiniteSet(I) /\ Cardinality(I) = Concurrency
  <2>1. w * Concurrency \in Int /\ w * Concurrency + Concurrency - 1 \in Int
    BY <1>1, <1>6
  <2> QED
    BY <1>1, <2>1, FS_Interval
<1>10. rank \in [S -> I]
  BY <1>8 DEF rank
<1> HIDE DEF I
<1>11. PICK t, u \in S : t # u /\ rank[t] = rank[u]
  BY <1>2, <1>4, <1>9, <1>10, FS_PigeonHole
<1>12. ASSUME NEW x \in S, NEW y \in S, x < y
       PROVE  rank[x] # rank[y]
  <2>1. below(x) \in SUBSET below(y) /\ x \in below(y) /\ x \notin below(x)
    <3>1. /\ x \in Nat /\ y \in Nat /\ x \in T \cap Monsters
          /\ T \cap Monsters \subseteq Nat
      BY <1>1
    <3>2. \A v \in T \cap Monsters : v < x => v < y
      BY <1>12, <3>1
    <3>3. ~(x < x)
      BY <3>1
    <3> QED
      BY <1>12, <3>1, <3>2, <3>3
  <2>2. Cardinality(below(y)) # Cardinality(below(x))
    BY <1>3, <2>1, FS_Subset
  <2> QED
    BY <2>2 DEF rank
<1>13. t < u \/ u < t
  BY <1>1, <1>11
<1> QED
  BY <1>11, <1>12, <1>13

\* Of the monsters a batch has sent, no more than the frozen concurrency are
\* on the road, also when receipts are lost or marches recalled.
THEOREM RoadIsBounded == Spec => []MarchesOnTheRoadBounded
<1>1. IInv => MarchesOnTheRoadBounded
  <2> DEFINE S == {t \in Monsters : Sent(t) /\ quest[t] = "marching"}
  <2> SUFFICES ASSUME IInv PROVE Cardinality(S) <= Concurrency
    BY DEF MarchesOnTheRoadBounded
  <2>1. batch.targets \in SUBSET Targets /\ S \in SUBSET (batch.targets \cap Monsters)
    BY DEF IInv, TypeOK, Batches, Sent
  <2>2. ASSUME NEW t \in S, NEW u \in S
        PROVE  WaveOf(batch.targets, t) = WaveOf(batch.targets, u)
    <3>1. /\ t \in batch.targets /\ u \in batch.targets
          /\ Started(batch, t) /\ Started(batch, u)
          /\ quest[t] = "marching" /\ quest[u] = "marching"
      BY DEF Sent, Started
    <3>2. Good(batch) /\ batch \in Batches
      BY <3>1 DEF IInv, Good
    <3>3. CASE batch.phase = "stopped"
      BY <3>1, <3>2, <3>3 DEF Good, OneWave
    <3>4. CASE batch.phase # "stopped"
      <4>1. Behind(batch) /\ Ahead(batch)
        BY <3>2, <3>4 DEF Good
      <4>2. /\ ~(WaveOf(batch.targets, t) > batch.wave)
            /\ ~(WaveOf(batch.targets, u) > batch.wave)
        BY <3>1, <4>1 DEF Ahead, Started
      <4>3. /\ ~(WaveOf(batch.targets, t) < batch.wave)
            /\ ~(WaveOf(batch.targets, u) < batch.wave)
        BY <3>1, <4>1 DEF Behind
      <4> QED
        BY <3>1, <3>2, <4>2, <4>3, Waves
    <3> QED
      BY <3>3, <3>4
  <2> HIDE DEF S
  <2> QED
    BY <2>1, <2>2, WaveSize
<1> QED
  BY <1>1, WavesInvariance, PTL

-----------------------------------------------------------------------------
(* A batch sent in waves keeps the promise of IntelBatch: HuntWaves         *)
(* implements IntelBatch under the mapping of HuntWaves!Promise, whatever   *)
(* the number of its targets and the size of its waves.                     *)

\* What batch b says of a target, in the words of IntelBatch.
StatusIn(b, t) ==
  IF t \notin b.targets THEN "idle"
  ELSE CASE b.state[t] = "pending" -> "open"
         [] b.state[t] \in {"dispatching", "dispatched", "dispatch_error"} ->
              "underway"
         [] b.state[t] \in {"failed", "skipped"} -> "unresolved"
         [] OTHER -> "done"

\* Of the targets of b, c has moved some forward, and called done only such
\* as the game has finished with; it may have made the claim b has not made.
Moved(b, c) ==
  /\ \A t \in Targets :
       /\ StatusIn(c, t) \in Promise!After(StatusIn(b, t))
       /\ StatusIn(c, t) = "done" /\ StatusIn(b, t) # "done" => Terminal(t)
  /\ \/ c.claimAttempted = b.claimAttempted
     \/ /\ ~b.claimAttempted /\ c.claimAttempted
        /\ \A t \in Targets : StatusIn(c, t) \in {"idle", "done"}

\* Quests that are over stay over.
Lasting ==
  /\ quest' \in [Targets -> QuestStates]
  /\ onRole' \in BOOLEAN
  /\ \A t \in Targets :
       /\ Terminal(t) => quest'[t] \in {"completed", "missing"}
       /\ quest[t] = "missing" => quest'[t] = "missing"

\* No reading after a claim comes to be refused, nor to be taken.
SameReading == Misled' <=> Misled
Quiet       == ~Misled /\ ~Misled' /\ onRole' = onRole

\* What a step of HuntWaves is to a batch.
Forward == /\ batch.live /\ batch'.live /\ Moved(batch, batch')
           /\ UNCHANGED <<quest, report>>
Ends    == Promise!End
Still   == UNCHANGED <<quest, onRole, batch, report>> /\ SameReading
Elapses == Lasting /\ UNCHANGED <<batch, report>> /\ SameReading
Misread == Promise!Misread
Starts  == /\ ~batch.live /\ batch'.live = TRUE /\ ~batch'.claimAttempted
           /\ \A t \in Targets : StatusIn(batch', t) \in {"idle", "open", "underway"}
           /\ report' = "none" /\ UNCHANGED game

Kinds == \/ Forward /\ Quiet
         \/ Ends \/ Still \/ Elapses \/ Misread \/ Starts

-----------------------------------------------------------------------------
(* Statuses *)

LEMMA StatusIsStatus ==
  ASSUME NEW b, NEW t
  PROVE  StatusIn(b, t) \in Promise!Statuses
BY DEF StatusIn, Promise!Statuses

\* A target of the batch by its state.
LEMMA StatusByState ==
  ASSUME NEW b, NEW t \in b.targets
  PROVE  /\ b.state[t] = "pending" => StatusIn(b, t) = "open"
         /\ b.state[t] \in {"dispatching", "dispatched", "dispatch_error"} =>
              StatusIn(b, t) = "underway"
         /\ b.state[t] \in {"failed", "skipped"} => StatusIn(b, t) = "unresolved"
         /\ b.state[t] \in Proved => StatusIn(b, t) = "done"
<1> DEFINE s == b.state[t]
<1>1. StatusIn(b, t) = IF s = "pending" THEN "open"
                       ELSE IF s \in {"dispatching", "dispatched", "dispatch_error"}
                       THEN "underway"
                       ELSE IF s \in {"failed", "skipped"} THEN "unresolved"
                       ELSE "done"
  BY DEF StatusIn
<1> HIDE DEF s
<1>2. /\ s = "pending" => StatusIn(b, t) = "open"
      /\ s \in {"dispatching", "dispatched", "dispatch_error"} =>
           StatusIn(b, t) = "underway"
      /\ s \in {"failed", "skipped"} => StatusIn(b, t) = "unresolved"
      /\ s \in Proved => StatusIn(b, t) = "done"
  BY <1>1 DEF Proved
<1> QED
  BY <1>2 DEF s

LEMMA NoBatchIsIdle ==
  /\ \A t \in Targets : StatusIn(NewBatch({}), t) = "idle"
  /\ NewBatch({}).live = FALSE /\ NewBatch({}).claimAttempted = FALSE
BY DEF NewBatch, StatusIn

LEMMA AfterIsTransitive ==
  ASSUME NEW r \in Promise!Statuses, NEW s \in Promise!After(r),
         NEW u \in Promise!After(s)
  PROVE  u \in Promise!After(r)
BY DEF Promise!After, Promise!Statuses

LEMMA StayingIsMoving ==
  ASSUME NEW s \in Promise!Statuses
  PROVE  s \in Promise!After(s)
BY DEF Promise!After, Promise!Statuses

\* The same states, or states that are further on.
LEMMA TargetMoves ==
  ASSUME NEW b, NEW c, c.targets = b.targets, NEW t,
         t \in b.targets =>
           \/ c.state[t] = b.state[t]
           \/ b.state[t] = "pending" /\ c.state[t] \in {"dispatching", "skipped"}
           \/ /\ b.state[t] \in {"dispatching", "dispatched", "dispatch_error"}
              /\ c.state[t] \in {"dispatched", "dispatch_error", "failed"}
           \/ /\ b.state[t] \in {"dispatched", "failed", "skipped"}
              /\ c.state[t] \in Proved /\ Terminal(t)
  PROVE  /\ StatusIn(c, t) \in Promise!After(StatusIn(b, t))
         /\ StatusIn(c, t) = "done" /\ StatusIn(b, t) # "done" => Terminal(t)
<1>1. CASE t \notin b.targets
  BY <1>1, StatusIsStatus, StayingIsMoving DEF StatusIn
<1>2. CASE t \in b.targets /\ c.state[t] = b.state[t]
  <2>1. StatusIn(c, t) = StatusIn(b, t)
    BY <1>2 DEF StatusIn
  <2> QED
    BY <2>1, StatusIsStatus, StayingIsMoving
<1>3. CASE t \in b.targets /\ b.state[t] = "pending"
             /\ c.state[t] \in {"dispatching", "skipped"}
  BY <1>3, StatusByState DEF Promise!After
<1>4. CASE /\ t \in b.targets
           /\ b.state[t] \in {"dispatching", "dispatched", "dispatch_error"}
           /\ c.state[t] \in {"dispatched", "dispatch_error", "failed"}
  BY <1>4, StatusByState DEF Promise!After
<1>5. CASE /\ t \in b.targets
           /\ b.state[t] \in {"dispatched", "failed", "skipped"}
           /\ c.state[t] \in Proved /\ Terminal(t)
  BY <1>5, StatusByState DEF Promise!After
<1> QED
  BY <1>1, <1>2, <1>3, <1>4, <1>5

LEMMA MovedTwice ==
  ASSUME NEW b, NEW c, NEW d, Moved(b, c), Moved(c, d),
         c.claimAttempted = b.claimAttempted
  PROVE  Moved(b, d)
<1>1. ASSUME NEW t \in Targets
      PROVE  /\ StatusIn(d, t) \in Promise!After(StatusIn(b, t))
             /\ StatusIn(d, t) = "done" /\ StatusIn(b, t) # "done" => Terminal(t)
  BY StatusIsStatus, AfterIsTransitive DEF Moved
<1>2. \/ d.claimAttempted = b.claimAttempted
      \/ /\ ~b.claimAttempted /\ d.claimAttempted
         /\ \A t \in Targets : StatusIn(d, t) \in {"idle", "done"}
  BY DEF Moved
<1> QED
  BY <1>1, <1>2 DEF Moved

\* Flags that say nothing of a target.
LEMMA FlagsMove ==
  ASSUME NEW b, NEW c, c.targets = b.targets, c.state = b.state,
         c.claimAttempted = b.claimAttempted
  PROVE  Moved(b, c)
<1>1. \A t \in Targets : StatusIn(c, t) = StatusIn(b, t)
  BY DEF StatusIn
<1> QED
  BY <1>1, StatusIsStatus, StayingIsMoving DEF Moved

\* Every target of a batch whose waves are done is done or given up.
LEMMA AllDoneIsClosed ==
  ASSUME NEW b, Good(b), AllWavesDone(b)
  PROVE  /\ \A t \in b.targets : b.state[t] \in Settled \cup {"skipped"}
         /\ ~CanClaim(b) =>
              /\ IdsIn(b, {"failed", "skipped"}) # {}
              /\ \E t \in b.targets : b.state[t] \in {"failed", "skipped"}
<1>1. \A t \in b.targets : b.state[t] \in Settled \cup {"skipped"}
  BY DEF Good, Over, Behind, AllWavesDone
<1>2. ASSUME ~CanClaim(b) PROVE \E t \in b.targets : b.state[t] \in {"failed", "skipped"}
  <2>1. PICK t \in b.targets : b.state[t] \notin Proved
    BY <1>2 DEF CanClaim, IdsIn, Proved
  <2> QED
    BY <1>1, <2>1 DEF Settled
<1> QED
  BY <1>1, <1>2 DEF IdsIn

-----------------------------------------------------------------------------
(* The controller's helpers *)

LEMMA FinishMoves ==
  ASSUME NEW b, Good(b), NeedsFinalReconcile(b), FinishHuntBatch(b, {})
  PROVE  Moved(b, batch') /\ batch'.live /\ UNCHANGED report
<1>1. batch' = [b EXCEPT !.finalReconcileAttempted = TRUE] /\ UNCHANGED report
  BY DEF FinishHuntBatch, SubmitFor
<1>2. /\ batch'.targets = b.targets /\ batch'.state = b.state
      /\ batch'.claimAttempted = b.claimAttempted /\ batch'.live
  BY <1>1 DEF Good, Batches
<1> QED
  BY <1>1, <1>2, FlagsMove

LEMMA ClaimMoves ==
  ASSUME NEW b, Good(b), CanClaim(b), ~b.claimAttempted, StartClaim(b, {})
  PROVE  Moved(b, batch') /\ batch'.live /\ UNCHANGED report
<1>1. batch' = [b EXCEPT !.claimAttempted = TRUE] /\ UNCHANGED report
  BY DEF StartClaim, SubmitFor
<1>2. /\ batch'.targets = b.targets /\ batch'.state = b.state
      /\ batch'.claimAttempted /\ batch'.live
  BY <1>1 DEF Good, Batches
<1>3. \A t \in Targets : StatusIn(batch', t) = StatusIn(b, t)
  BY <1>2 DEF StatusIn
<1>4. ASSUME NEW t \in Targets PROVE StatusIn(b, t) \in {"idle", "done"}
  <2>1. CASE t \in b.targets
    <3>1. b.state[t] \in Proved
      BY <2>1 DEF CanClaim, IdsIn, Proved
    <3> QED
      BY <2>1, <3>1, StatusByState
  <2>2. CASE t \notin b.targets
    BY <2>2 DEF StatusIn
  <2> QED
    BY <2>1, <2>2
<1>5. Moved(b, batch')
  BY <1>2, <1>3, <1>4, StatusIsStatus, StayingIsMoving DEF Moved
<1> QED
  BY <1>1, <1>2, <1>5

\* A callback that leaves the failures unreconciled leaves the batch running.
LEMMA DispatchMoves ==
  ASSUME NEW b, Good(b), ~b.claimAttempted, ~b.finalReconcileAttempted,
         ~AllWavesDone(b) => \A t \in CurrentWave(b) : b.state[t] = "pending",
         DispatchNextHunt(b, {})
  PROVE  Moved(b, batch') /\ batch'.live /\ UNCHANGED report
<1>1. CASE AllWavesDone(b) /\ CanClaim(b)
  BY <1>1, ClaimMoves DEF DispatchNextHunt
<1>2. CASE AllWavesDone(b) /\ ~CanClaim(b)
  <2>1. NeedsFinalReconcile(b)
    BY <1>2, AllDoneIsClosed DEF NeedsFinalReconcile
  <2> QED
    BY <1>2, <2>1, FinishMoves DEF DispatchNextHunt
<1>3. CASE ~AllWavesDone(b)
  <2> DEFINE d == SetState(b, CurrentWave(b), "dispatching")
             c == [d EXCEPT !.phase = "dispatching"]
  <2>1. batch' = c /\ UNCHANGED report
    BY <1>3 DEF DispatchNextHunt, SubmitFor
  <2>2. b \in Batches /\ b.live /\ b.targets \in SUBSET Targets
    BY DEF Good, Batches
  <2>3. /\ Frame(b, d)
        /\ \A t \in Targets :
             d.state[t] = IF t \in CurrentWave(b) THEN "dispatching" ELSE b.state[t]
    BY <2>2, SetStateMarks DEF TargetStates
  <2> HIDE DEF d
  <2>4. /\ c.targets = b.targets /\ c.state = d.state /\ c.live
        /\ c.claimAttempted = b.claimAttempted
    BY <2>2, <2>3 DEF Frame, Batches
  <2> HIDE DEF c
  <2>5. \A t \in b.targets :
          \/ c.state[t] = b.state[t]
          \/ b.state[t] = "pending" /\ c.state[t] \in {"dispatching", "skipped"}
    BY <1>3, <2>2, <2>3, <2>4
  <2>6. Moved(b, c)
    BY <2>4, <2>5, TargetMoves DEF Moved
  <2> QED
    BY <2>1, <2>4, <2>6
<1> QED
  BY <1>1, <1>2, <1>3

\* In the wave after the current one nothing was sent.
LEMMA NextWaveIsPending ==
  ASSUME NEW b, Good(b), b.phase # "stopped", NEW c, c.targets = b.targets,
         c.wave = b.wave + 1,
         \A t \in b.targets \ CurrentWave(b) : c.state[t] = b.state[t]
  PROVE  \A t \in CurrentWave(c) : c.state[t] = "pending"
<1> SUFFICES ASSUME NEW t \in CurrentWave(c) PROVE c.state[t] = "pending"
  OBVIOUS
<1>1. /\ b \in Batches /\ t \in b.targets /\ WaveOf(b.targets, t) = b.wave + 1
  BY DEF Good, CurrentWave
<1>2. WaveOf(b.targets, t) > b.wave /\ t \notin CurrentWave(b)
  BY <1>1, Waves DEF CurrentWave
<1>3. b.state[t] = "pending"
  BY <1>1, <1>2 DEF Good, Ahead
<1> QED
  BY <1>1, <1>2, <1>3

LEMMA ContinueMoves ==
  ASSUME NEW b, Good(b), b.phase # "stopped", Resulted(b),
         InWave(b, {"dispatch_error"}) = {}, ContinueAfterWaveDispatches(b, {})
  PROVE  Moved(b, batch') /\ batch'.live /\ UNCHANGED report
<1>1. /\ b \in Batches /\ b.live /\ ~AllWavesDone(b) /\ ~b.claimAttempted
      /\ ~b.finalReconcileAttempted
  BY DEF Good, Resulted
<1>2. CASE InWave(b, {"dispatched"}) # {}
  <2>1. batch' = [b EXCEPT !.phase = "waiting"] /\ UNCHANGED report
    BY <1>2 DEF ContinueAfterWaveDispatches, SubmitFor
  <2>2. /\ batch'.targets = b.targets /\ batch'.state = b.state
        /\ batch'.claimAttempted = b.claimAttempted /\ batch'.live
    BY <1>1, <2>1 DEF Batches
  <2> QED
    BY <2>1, <2>2, FlagsMove
<1>3. CASE InWave(b, {"dispatched"}) = {}
  <2> DEFINE c == AdvanceWave(b)
  <2>1. DispatchNextHunt(c, {})
    BY <1>3 DEF ContinueAfterWaveDispatches
  <2>2. /\ Frame(b, c) /\ c.wave = b.wave + 1 /\ c.phase = "ready"
        /\ c.state = b.state
    BY <1>1, AdvanceMarks
  <2> HIDE DEF c
  <2>3. \A t \in CurrentWave(b) : b.state[t] = "failed" /\ quest[t] # "marching"
    BY <1>3 DEF Resulted, InWave, IdsIn, CurrentWave
  <2>4. Good(c)
    BY <1>1, <2>2, <2>3, AdvanceKeepsGood DEF Settled, Proved
  <2>5. ~c.claimAttempted /\ ~c.finalReconcileAttempted /\ c.targets = b.targets
    BY <1>1, <2>2 DEF Frame
  <2>6. \A t \in CurrentWave(c) : c.state[t] = "pending"
    BY <2>2, <2>5, NextWaveIsPending
  <2>7. Moved(c, batch') /\ batch'.live /\ UNCHANGED report
    BY <2>1, <2>4, <2>5, <2>6, DispatchMoves
  <2>8. Moved(b, c)
    BY <2>2, FlagsMove DEF Frame
  <2> QED
    BY <1>1, <2>5, <2>7, <2>8, MovedTwice, <2>2 DEF Frame
<1> QED
  BY <1>2, <1>3

LEMMA ResolveMoves ==
  ASSUME NEW b, Good(b), b.phase # "stopped", Resulted(b),
         ResolveWaveDispatches(b, {})
  PROVE  Moved(b, batch') /\ batch'.live /\ UNCHANGED report
<1>1. /\ b \in Batches /\ b.live /\ ~AllWavesDone(b) /\ ~b.claimAttempted
  BY DEF Good, Resulted
<1>2. CASE InWave(b, {"dispatch_error"}) # {}
  <2>1. batch' = [b EXCEPT !.phase = "reconciling"] /\ UNCHANGED report
    BY <1>2 DEF ResolveWaveDispatches, SubmitFor
  <2>2. /\ batch'.targets = b.targets /\ batch'.state = b.state
        /\ batch'.claimAttempted = b.claimAttempted /\ batch'.live
    BY <1>1, <2>1 DEF Batches
  <2> QED
    BY <2>1, <2>2, FlagsMove
<1>3. CASE InWave(b, {"dispatch_error"}) = {}
  <2> DEFINE c == [b EXCEPT !.phase = "resolved"]
  <2>1. ContinueAfterWaveDispatches(c, {})
    BY <1>3 DEF ResolveWaveDispatches
  <2>2. /\ Frame(b, c) /\ c.wave = b.wave /\ c.phase = "resolved"
        /\ c.state = b.state
    BY <1>1 DEF Frame, Batches, Phases
  <2> HIDE DEF c
  <2>3. Good(c)
    BY <1>1, <2>2, CurrentKeepsGood DEF Good, CurrentWave
  <2>4. /\ CurrentWave(c) = CurrentWave(b) /\ \A S : InWave(c, S) = InWave(b, S)
        /\ ~AllWavesDone(c)
    BY <1>1, <2>2 DEF CurrentWave, InWave, IdsIn, AllWavesDone, Frame
  <2>5. Resulted(c)
    BY <1>1, <2>2, <2>4 DEF Resulted, Frame
  <2>6. Moved(c, batch') /\ batch'.live /\ UNCHANGED report
    BY <1>3, <2>1, <2>2, <2>3, <2>4, <2>5, ContinueMoves
  <2>7. Moved(b, c) /\ c.claimAttempted = b.claimAttempted
    BY <2>2, FlagsMove DEF Frame
  <2> QED
    BY <2>6, <2>7, MovedTwice
<1> QED
  BY <1>2, <1>3

-----------------------------------------------------------------------------
(* What the callbacks make of the batch *)

LEMMA StatusOfBatch ==
  /\ \A t \in Targets : Status(t) = StatusIn(batch, t)
  /\ \A t \in Targets : Status(t)' = StatusIn(batch', t)
BY DEF Status, StatusIn

\* Marks that each move a target on.
LEMMA MarksMove ==
  ASSUME NEW b, NEW c, Frame(b, c), b.targets \in SUBSET Targets,
         \A t \in b.targets :
           \/ c.state[t] = b.state[t]
           \/ b.state[t] = "pending" /\ c.state[t] \in {"dispatching", "skipped"}
           \/ /\ b.state[t] \in {"dispatching", "dispatched", "dispatch_error"}
              /\ c.state[t] \in {"dispatched", "dispatch_error", "failed"}
           \/ /\ b.state[t] \in {"dispatched", "failed", "skipped"}
              /\ c.state[t] \in Proved /\ Terminal(t)
  PROVE  /\ Moved(b, c) /\ c.claimAttempted = b.claimAttempted
         /\ c.targets = b.targets
         /\ c.finalReconcileAttempted = b.finalReconcileAttempted
<1>1. c.targets = b.targets /\ c.claimAttempted = b.claimAttempted
      /\ c.finalReconcileAttempted = b.finalReconcileAttempted
  BY DEF Frame
<1>2. \A t \in Targets :
        /\ StatusIn(c, t) \in Promise!After(StatusIn(b, t))
        /\ StatusIn(c, t) = "done" /\ StatusIn(b, t) # "done" => Terminal(t)
  BY <1>1, TargetMoves
<1> QED
  BY <1>1, <1>2 DEF Moved

\* A batch that is stopped, S being what has failed of it.
LEMMA StopMoves ==
  ASSUME NEW b, Good(b), ~AllWavesDone(b),
         NEW S, \A t \in S : b.state[t] \in {"dispatching", "dispatched",
                                            "dispatch_error"},
         NEW c, c = Stop(SetState(SetState(b, S, "failed"),
                                  IdsIn(b, {"pending"}), "skipped"))
  PROVE  /\ Moved(b, c) /\ AllWavesDone(c)
         /\ c.claimAttempted = b.claimAttempted
         /\ ~c.finalReconcileAttempted
         /\ \A t \in b.targets : t \in S \/ b.state[t] = "failed"
              => c.state[t] = "failed"
         /\ c.targets = b.targets
<1>1. b \in Batches /\ b.targets \in SUBSET Targets /\ ~b.finalReconcileAttempted
  BY DEF Good, Batches
<1>2. /\ Frame(b, c) /\ c.wave = AfterLastWave
      /\ \A t \in Targets :
           c.state[t] = IF t \in IdsIn(b, {"pending"}) THEN "skipped"
                        ELSE IF t \in S THEN "failed" ELSE b.state[t]
  BY <1>1, StopMarks
<1>3. \A t \in b.targets :
        \/ c.state[t] = b.state[t]
        \/ b.state[t] = "pending" /\ c.state[t] = "skipped"
        \/ /\ b.state[t] \in {"dispatching", "dispatched", "dispatch_error"}
           /\ c.state[t] = "failed"
  BY <1>1, <1>2 DEF IdsIn
<1>4. /\ Moved(b, c) /\ c.claimAttempted = b.claimAttempted
      /\ c.targets = b.targets /\ ~c.finalReconcileAttempted
  BY <1>1, <1>2, <1>3, MarksMove
<1>5. AllWavesDone(c)
  BY <1>2, Waves DEF Frame
<1>6. \A t \in b.targets : t \in S \/ b.state[t] = "failed" => c.state[t] = "failed"
  <2> SUFFICES ASSUME NEW t \in b.targets, t \in S \/ b.state[t] = "failed"
               PROVE  c.state[t] = "failed"
    OBVIOUS
  <2>1. b.state[t] # "pending"
    OBVIOUS
  <2>2. t \notin IdsIn(b, {"pending"})
    BY <2>1 DEF IdsIn
  <2> QED
    BY <1>1, <1>2, <2>2
<1> QED
  BY <1>4, <1>5, <1>6

\* How a batch may end, in its own words.
LEMMA BatchIsOver ==
  ASSUME Good(batch), AllWavesDone(batch), batch' = NewBatch({}), UNCHANGED game,
         \/ /\ report' = "verified" /\ Claim = "requested"
            /\ \A t \in batch.targets : quest[t] = "missing"
         \/ report' = "verified" /\ Claim = "misread"
         \/ report' = "claimError" /\ Claim \in {"requested", "misread"}
         \/ /\ report' = "unresolved"
            /\ \E t \in batch.targets : batch.state[t] \in {"failed", "skipped"}
  PROVE  Ends
<1>1. batch.targets \in SUBSET Targets /\ batch.live
  BY DEF Good, Batches
<1>2. \A t \in batch.targets : batch.state[t] \in Settled \cup {"skipped"}
  BY AllDoneIsClosed
<1>3. ASSUME NEW t \in Targets
      PROVE  /\ StatusIn(batch, t) \in {"idle", "done", "unresolved"}
             /\ StatusIn(batch, t) # "idle" => t \in batch.targets
  <2>1. CASE t \in batch.targets
    BY <1>2, <2>1, StatusByState DEF Settled
  <2>2. CASE t \notin batch.targets
    BY <2>2 DEF StatusIn
  <2> QED
    BY <2>1, <2>2
<1>4. [t \in Targets |-> Status(t)]' = [t \in Targets |-> "idle"]
  BY NoBatchIsIdle, StatusOfBatch
<1>5. \A t \in Targets : [u \in Targets |-> Status(u)][t] = StatusIn(batch, t)
  BY StatusOfBatch
<1>6. batch'.live = FALSE /\ Claim' = "none" /\ UNCHANGED <<quest, onRole>>
  BY NoBatchIsIdle DEF Claim, game
<1>7. \/ /\ report' = "verified" /\ Claim = "requested"
         /\ \A t \in Targets : StatusIn(batch, t) # "idle" => quest[t] = "missing"
      \/ report' = "verified" /\ Claim = "misread"
      \/ report' = "claimError" /\ Claim \in {"requested", "misread"}
      \/ /\ report' = "unresolved"
         /\ \E t \in Targets : StatusIn(batch, t) = "unresolved"
  <2>1. ASSUME NEW t \in batch.targets, batch.state[t] \in {"failed", "skipped"}
        PROVE  t \in Targets /\ StatusIn(batch, t) = "unresolved"
    BY <1>1, <2>1, StatusByState
  <2> QED
    BY <1>3, <2>1
<1> QED
  BY <1>1, <1>3, <1>4, <1>5, <1>6, <1>7 DEF Promise!End, Ends

\* What a callback moved, and then what the helper it calls moved.
LEMMA ThenForward ==
  ASSUME batch.live, quest' = quest, NEW b, Moved(batch, b),
         b.claimAttempted = batch.claimAttempted,
         Moved(b, batch'), batch'.live, UNCHANGED report
  PROVE  Forward
BY MovedTwice DEF Forward

-----------------------------------------------------------------------------
(* The callbacks *)

\* The receipt of a wave marks its targets: sent, not sent or in doubt.
LEMMA BatchDispatchFinishedMoves ==
  ASSUME IInv, NEW k \in tasks, BatchDispatchFinished(k)
  PROVE  Forward
<1>1. /\ UNCHANGED game /\ items' \in SUBSET Targets /\ batch.live
      /\ batch.phase = "dispatching" /\ k.callback = "batch_dispatch_finished"
  BY DEF BatchDispatchFinished, Returned, IInv, TypeOK
<1>2. /\ tasks \ {k} = {} /\ Awaits(batch, k) /\ Truthful(k) /\ Good(batch)
  BY <1>1, Context
<1>3. /\ ~AllWavesDone(batch) /\ ~batch.claimAttempted /\ k.op = "march"
      /\ k.ids = CurrentWave(batch)
      /\ InWave(batch, {"dispatching"}) = CurrentWave(batch)
  BY <1>1, <1>2 DEF Awaits
<1>4. /\ k.found \in SUBSET CurrentWave(batch) /\ k.held \in SUBSET CurrentWave(batch)
      /\ \A t \in k.held : quest[t] # "marching"
  BY <1>2, <1>3 DEF Truthful
<1> DEFINE sent == IF k.res = "ok" THEN k.found ELSE {}
           held == IF k.res = "ok" THEN k.held ELSE {}
           c == RecordDispatchResults(batch, sent, held)
<1>5. ResolveWaveDispatches(c, {})
  BY <1>2 DEF BatchDispatchFinished
<1>6. /\ sent \in SUBSET CurrentWave(batch) /\ held \in SUBSET CurrentWave(batch)
      /\ \A t \in held : quest[t] # "marching"
  BY <1>4
<1>7. batch \in Batches /\ batch.targets \in SUBSET Targets
  BY <1>2 DEF Good, Batches
<1> HIDE DEF sent, held
<1>8. /\ Frame(batch, c)
      /\ \A t \in Targets :
           c.state[t] = IF t \in CurrentWave(batch) \ (sent \cup held)
                        THEN "dispatch_error"
                        ELSE IF t \in held THEN "failed"
                        ELSE IF t \in sent THEN "dispatched" ELSE batch.state[t]
  BY <1>3, <1>7, RecordMarks
<1>9. Good(c) /\ Resulted(c) /\ c.phase # "stopped"
  BY <1>1, <1>2, <1>3, <1>6, RecordIsResulted
<1> HIDE DEF c
<1>10. \A t \in CurrentWave(batch) : batch.state[t] = "dispatching"
  BY <1>3 DEF InWave, IdsIn
<1>11. \A t \in batch.targets :
         \/ c.state[t] = batch.state[t]
         \/ /\ batch.state[t] = "dispatching"
            /\ c.state[t] \in {"dispatched", "dispatch_error", "failed"}
  BY <1>6, <1>7, <1>8, <1>10
<1>12. Moved(batch, c) /\ c.claimAttempted = batch.claimAttempted
  BY <1>7, <1>8, <1>11, MarksMove
<1>13. Moved(c, batch') /\ batch'.live /\ UNCHANGED report
  BY <1>5, <1>9, ResolveMoves
<1> QED
  BY <1>1, <1>12, <1>13, ThenForward DEF game

\* A target of the wave that did not set out stops the batch; what the stop
\* leaves as failed is reconciled once before the batch ends.
LEMMA AbortForward ==
  ASSUME Good(batch), batch.live, quest' = quest,
         NEW b, Good(b), Moved(batch, b), ~AllWavesDone(b), ~b.claimAttempted,
         b.claimAttempted = batch.claimAttempted,
         \E t \in b.targets : b.state[t] \in {"failed", "dispatch_error"},
         Good(AbortUnresolvedDispatch(b)),
         FinishHuntBatch(AbortUnresolvedDispatch(b), {})
  PROVE  Forward
<1> DEFINE S == IdsIn(b, {"dispatched", "dispatching", "dispatch_error"})
           d == AbortUnresolvedDispatch(b)
<1>1. PICK t \in b.targets : b.state[t] \in {"failed", "dispatch_error"}
  OBVIOUS
<1>2. t \in S \/ b.state[t] = "failed"
  BY <1>1 DEF IdsIn
<1>3. \A u \in S : b.state[u] \in {"dispatching", "dispatched", "dispatch_error"}
  BY DEF IdsIn
<1>4. d = Stop(SetState(SetState(b, S, "failed"), IdsIn(b, {"pending"}), "skipped"))
  BY DEF AbortUnresolvedDispatch
<1> HIDE DEF S, d
<1>5. /\ Moved(b, d) /\ AllWavesDone(d) /\ ~d.finalReconcileAttempted
      /\ d.claimAttempted = b.claimAttempted /\ d.targets = b.targets
      /\ d.state[t] = "failed"
  BY <1>2, <1>3, <1>4, StopMoves
<1>6. NeedsFinalReconcile(d)
  BY <1>5 DEF NeedsFinalReconcile, IdsIn
<1>7. Moved(d, batch') /\ batch'.live /\ UNCHANGED report
  BY <1>6, FinishMoves DEF d
<1>8. Moved(batch, d) /\ d.claimAttempted = batch.claimAttempted
  BY <1>5, MovedTwice
<1> QED
  BY <1>7, <1>8, ThenForward

LEMMA MarchReconciledMoves ==
  ASSUME IInv, NEW k \in tasks, MarchReconciled(k)
  PROVE  Forward
<1>1. /\ UNCHANGED game /\ items' \in SUBSET Targets /\ batch.live
      /\ batch.phase = "reconciling" /\ k.callback = "march_reconciled"
  BY DEF MarchReconciled, Returned, IInv, TypeOK, Commands
<1>2. tasks \ {k} = {} /\ Awaits(batch, k) /\ Good(batch) /\ quest' = quest
  BY <1>1, Context DEF game
<1>3. /\ Resulted(batch) /\ batch.phase # "stopped"
      /\ InWave(batch, {"dispatch_error"}) # {}
  BY <1>1, <1>2 DEF Awaits
<1>4. /\ batch \in Batches /\ batch.targets \in SUBSET Targets
      /\ CurrentWave(batch) \subseteq batch.targets
      /\ ~batch.claimAttempted /\ ~AllWavesDone(batch)
  BY <1>2, <1>3 DEF Good, Batches, CurrentWave, Resulted
<1> DEFINE E == InWave(batch, {"dispatch_error"})
           c == ReconcileDispatchErrors(batch, k.found)
<1>5. /\ Frame(batch, c) /\ c.wave = batch.wave /\ c.phase = "resolved"
      /\ \A t \in Targets :
           c.state[t] = IF t \in E THEN IF t \in k.found THEN "failed" ELSE "dispatched"
                        ELSE batch.state[t]
  BY <1>4, ReconcileMarks
<1> HIDE DEF c
<1>6. \A t \in CurrentWave(batch) :
        /\ t \in E => batch.state[t] = "dispatch_error"
        /\ t \notin E => batch.state[t] \in {"dispatched", "failed"}
  BY <1>3 DEF Resulted, InWave, IdsIn, CurrentWave
<1>7. E \subseteq CurrentWave(batch) /\ E # {}
  BY <1>3 DEF InWave
<1> HIDE DEF E
<1>8. \A t \in CurrentWave(batch) : c.state[t] \in {"dispatched", "failed"}
  BY <1>4, <1>5, <1>6
<1>9. \A t \in batch.targets \ CurrentWave(batch) : c.state[t] = batch.state[t]
  BY <1>4, <1>5, <1>7
<1>10. Good(c)
  BY <1>2, <1>3, <1>4, <1>5, <1>8, <1>9, CurrentKeepsGood DEF Proved
<1>11. /\ CurrentWave(c) = CurrentWave(batch) /\ ~AllWavesDone(c)
       /\ ~c.claimAttempted
  BY <1>4, <1>5 DEF CurrentWave, AllWavesDone, Frame
<1>12. \A t \in batch.targets :
         \/ c.state[t] = batch.state[t]
         \/ /\ batch.state[t] = "dispatch_error"
            /\ c.state[t] \in {"dispatched", "failed"}
  BY <1>4, <1>5, <1>6, <1>7
<1>13. /\ Moved(batch, c) /\ c.claimAttempted = batch.claimAttempted
       /\ c.targets = batch.targets
  BY <1>4, <1>5, <1>12, MarksMove
<1>14. CASE k.res = "ok" /\ E \cap k.found = {}
  <2>1. ContinueAfterWaveDispatches(c, {})
    BY <1>2, <1>14 DEF MarchReconciled, c, E
  <2>2. \A t \in CurrentWave(batch) : c.state[t] = "failed" => quest[t] # "marching"
    BY <1>3, <1>4, <1>5, <1>14 DEF Resulted
  <2>3. Resulted(c)
    BY <1>8, <1>11, <2>2 DEF Resulted
  <2>4. InWave(c, {"dispatch_error"}) = {}
    BY <1>8, <1>11 DEF InWave, IdsIn
  <2>5. Moved(c, batch') /\ batch'.live /\ UNCHANGED report
    BY <1>5, <1>10, <2>1, <2>3, <2>4, ContinueMoves
  <2> QED
    BY <1>1, <1>2, <1>13, <2>5, ThenForward
<1>15. CASE k.res = "ok" /\ E \cap k.found # {}
  <2>1. FinishHuntBatch(AbortUnresolvedDispatch(c), {})
    BY <1>2, <1>15 DEF MarchReconciled, c, E
  <2>2. Good(AbortUnresolvedDispatch(c))
    BY <1>5, <1>8, <1>10, <1>11, AbortIsGood
  <2>3. PICK t \in E : t \in k.found
    BY <1>15
  <2>4. t \in c.targets /\ c.state[t] = "failed"
    BY <1>4, <1>5, <1>7, <1>13, <2>3
  <2> QED
    BY <1>1, <1>2, <1>10, <1>11, <1>13, <2>1, <2>2, <2>4, AbortForward
<1>16. CASE k.res # "ok"
  <2>1. FinishHuntBatch(AbortUnresolvedDispatch(batch), {})
    BY <1>2, <1>16 DEF MarchReconciled
  <2>2. \A t \in CurrentWave(batch) : batch.state[t] # "skipped"
    BY <1>6
  <2>3. Good(AbortUnresolvedDispatch(batch))
    BY <1>2, <1>3, <1>4, <2>2, AbortIsGood
  <2>4. \E t \in batch.targets : batch.state[t] \in {"failed", "dispatch_error"}
    BY <1>4, <1>6, <1>7
  <2>5. Moved(batch, batch)
    BY FlagsMove
  <2> QED
    BY <1>1, <1>2, <1>4, <2>1, <2>3, <2>4, <2>5, AbortForward
<1> QED
  BY <1>14, <1>15, <1>16

\* The marches of the wave are over, or what became of them is inspected.
LEMMA WaveWaitFinishedMoves ==
  ASSUME IInv, NEW k \in tasks, WaveWaitFinished(k)
  PROVE  Forward
<1>1. /\ UNCHANGED game /\ items' \in SUBSET Targets /\ batch.live
      /\ batch.phase = "waiting" /\ k.callback = "wave_wait_finished"
  BY DEF WaveWaitFinished, Returned, IInv, TypeOK
<1>2. /\ tasks \ {k} = {} /\ Awaits(batch, k) /\ Truthful(k) /\ Good(batch)
      /\ quest' = quest
  BY <1>1, Context DEF game
<1>3. /\ Resulted(batch) /\ batch.phase # "stopped"
      /\ InWave(batch, {"dispatch_error"}) = {}
      /\ k.ids = InWave(batch, {"dispatched"})
  BY <1>1, <1>2 DEF Awaits
<1>4. /\ batch \in Batches /\ batch.targets \in SUBSET Targets
      /\ ~AllWavesDone(batch) /\ ~batch.finalReconcileAttempted
  BY <1>2, <1>3 DEF Good, Batches, Resulted
<1>5. CASE k.res = "ok"
  <2> DEFINE c == CompleteCurrentWave(batch)
             D == InWave(batch, {"dispatched"})
  <2>1. \A t \in D : Terminal(t)
    BY <1>1, <1>2, <1>3, <1>5 DEF Truthful
  <2>2. DispatchNextHunt(c, {})
    BY <1>2, <1>5 DEF WaveWaitFinished
  <2>3. Good(c) /\ ~c.claimAttempted
    BY <1>2, <1>3, <2>1, CompleteIsGood
  <2>4. /\ Frame(batch, c) /\ c.wave = batch.wave + 1
        /\ \A t \in Targets :
             c.state[t] = IF t \in D
                          THEN IF t \in batch.reconciledDetails
                               THEN "reconciled" ELSE "success"
                          ELSE batch.state[t]
    BY <1>4, CompleteMarks
  <2> HIDE DEF c
  <2>5. D \subseteq CurrentWave(batch) /\ \A t \in D : batch.state[t] = "dispatched"
    BY DEF InWave, IdsIn
  <2> HIDE DEF D
  <2>6. \A t \in batch.targets :
          \/ c.state[t] = batch.state[t]
          \/ /\ batch.state[t] = "dispatched"
             /\ c.state[t] \in Proved /\ Terminal(t)
    BY <1>4, <2>1, <2>4, <2>5 DEF Proved
  <2>7. /\ Moved(batch, c) /\ c.claimAttempted = batch.claimAttempted
        /\ c.targets = batch.targets /\ ~c.finalReconcileAttempted
    BY <1>4, <2>4, <2>6, MarksMove
  <2>8. \A t \in batch.targets \ CurrentWave(batch) : c.state[t] = batch.state[t]
    BY <1>4, <2>4, <2>5
  <2>9. \A t \in CurrentWave(c) : c.state[t] = "pending"
    BY <1>2, <1>3, <2>4, <2>7, <2>8, NextWaveIsPending
  <2>10. Moved(c, batch') /\ batch'.live /\ UNCHANGED report
    BY <2>2, <2>3, <2>7, <2>9, DispatchMoves
  <2> QED
    BY <1>1, <1>2, <2>7, <2>10, ThenForward
<1>6. CASE k.res # "ok"
  <2>1. batch' = batch /\ UNCHANGED report
    BY <1>6 DEF WaveWaitFinished, SubmitFor
  <2> QED
    BY <1>1, <1>2, <2>1, FlagsMove DEF Forward
<1> QED
  BY <1>5, <1>6

\* A wave whose wait failed is given up, and everything after it.
LEMMA WaveReconciledMoves ==
  ASSUME IInv, NEW k \in tasks, WaveReconciled(k)
  PROVE  Forward
<1> DEFINE c == FailWaitReconciliation(batch)
           D == InWave(batch, {"dispatched"})
<1>1. /\ UNCHANGED game /\ items' \in SUBSET Targets /\ batch.live
      /\ batch.phase = "waiting" /\ k.callback = "wave_reconciled"
  BY DEF WaveReconciled, Returned, IInv, TypeOK, Commands
<1>2. tasks \ {k} = {} /\ Awaits(batch, k) /\ Good(batch) /\ quest' = quest
  BY <1>1, Context DEF game
<1>3. /\ Resulted(batch) /\ batch.phase # "stopped"
      /\ InWave(batch, {"dispatch_error"}) = {} /\ ~AllWavesDone(batch)
  BY <1>1, <1>2 DEF Awaits, Resulted
<1>4. DispatchNextHunt(c, {})
  BY <1>2 DEF WaveReconciled
<1>5. Good(c) /\ ~c.claimAttempted
  BY <1>2, <1>3, FailWaitIsGood
<1>6. c = Stop(SetState(SetState(batch, D, "failed"), IdsIn(batch, {"pending"}),
                        "skipped"))
  BY DEF FailWaitReconciliation
<1>7. \A t \in D : batch.state[t] = "dispatched"
  BY DEF InWave, IdsIn
<1> HIDE DEF c, D
<1>8. /\ Moved(batch, c) /\ AllWavesDone(c) /\ ~c.finalReconcileAttempted
      /\ c.claimAttempted = batch.claimAttempted
  BY <1>2, <1>3, <1>6, <1>7, StopMoves
<1>9. Moved(c, batch') /\ batch'.live /\ UNCHANGED report
  BY <1>4, <1>5, <1>8, DispatchMoves
<1> QED
  BY <1>1, <1>2, <1>8, <1>9, ThenForward

\* The answer to a claim only changes what is reported of it.
LEMMA ClaimFinishedMoves ==
  ASSUME IInv, NEW k \in tasks, ClaimFinished(k)
  PROVE  Forward
<1>1. batch.live /\ batch \in Batches /\ quest' = quest
  BY DEF ClaimFinished, IInv, TypeOK, game
<1>2. batch' = [batch EXCEPT !.claimError = (@ \/ k.res # "ok")] /\ UNCHANGED report
  BY DEF ClaimFinished, SubmitFor
<1>3. /\ batch'.targets = batch.targets /\ batch'.state = batch.state
      /\ batch'.claimAttempted = batch.claimAttempted /\ batch'.live
  BY <1>1, <1>2 DEF Batches
<1> QED
  BY <1>1, <1>2, <1>3, FlagsMove DEF Forward

\* "verified" is said when every target was seen missing, and one that is
\* missing does not come back; or when the reading was refused.
LEMMA ClaimVerifiedEnds ==
  ASSUME IInv, NEW k \in tasks, ClaimVerified(k)
  PROVE  Ends
<1>1. /\ UNCHANGED game /\ items' \in SUBSET Targets /\ batch.live
      /\ k.callback = "claim_verified"
  BY DEF ClaimVerified, Returned, IInv, TypeOK
<1>2. /\ tasks \ {k} = {} /\ Awaits(batch, k) /\ Truthful(k) /\ Good(batch)
      /\ quest' = quest
  BY <1>1, Context DEF game
<1>3. /\ batch \in Batches /\ batch.claimAttempted /\ CanClaim(batch)
      /\ AllWavesDone(batch)
  BY <1>1, <1>2 DEF Awaits, Good
<1> DEFINE absent == k.res \in {"ok", "refused"} /\ k.found = batch.targets
           valid  == k.res = "ok" /\ absent
           c == [batch EXCEPT !.claimVerified = absent,
                              !.claimError = (@ \/ ~valid)]
<1>4. FinishHuntBatch(c, {})
  BY <1>2 DEF ClaimVerified
<1>5. /\ valid => \A t \in batch.targets : quest[t] = "missing"
      /\ valid => ~Misled
      /\ absent /\ ~valid => Misled
  <2>1. \A j \in tasks : j = k
    BY <1>2
  <2>2. valid => ~Misled
    BY <2>1 DEF Misled
  <2>3. absent /\ ~valid => Misled
    BY <1>1 DEF Misled
  <2> QED
    BY <1>1, <1>2, <2>2, <2>3 DEF Truthful
<1>6. absent \in BOOLEAN /\ valid \in BOOLEAN /\ (valid => absent)
  OBVIOUS
<1> HIDE DEF absent, valid
<1>7. /\ c.targets = batch.targets /\ c.state = batch.state /\ c.wave = batch.wave
      /\ c.claimAttempted
      /\ absent => c.claimVerified
      /\ ~absent => ~c.claimVerified /\ c.claimError
  BY <1>3, <1>6 DEF Batches
<1> HIDE DEF c
<1>8. CanClaim(c)
  BY <1>3, <1>7 DEF CanClaim, AllWavesDone, IdsIn
<1>9. batch' = NewBatch({}) /\ report' = Summary(c)
  BY <1>4, <1>7 DEF FinishHuntBatch, NeedsFinalReconcile
<1>10. Claim = IF Misled THEN "misread" ELSE "requested"
  BY <1>3 DEF Claim
<1>11. CASE absent
  <2>1. report' = "verified"
    BY <1>7, <1>9, <1>11 DEF Summary
  <2>2. CASE valid
    BY <1>1, <1>2, <1>3, <1>5, <1>9, <1>10, <2>1, <2>2, BatchIsOver
  <2>3. CASE ~valid
    BY <1>1, <1>2, <1>3, <1>5, <1>9, <1>10, <1>11, <2>1, <2>3, BatchIsOver
  <2> QED
    BY <2>2, <2>3
<1>12. CASE ~absent
  <2>1. ~c.claimVerified /\ c.claimError
    BY <1>7, <1>12
  <2>2. report' = "claimError"
    BY <1>8, <1>9, <2>1 DEF Summary
  <2> QED
    BY <1>1, <1>2, <1>3, <1>9, <1>10, <2>2, BatchIsOver
<1> QED
  BY <1>11, <1>12

\* What failed was looked at once more: the claim is made, or the batch ends
\* and says that something is unresolved.
LEMMA FinalReconciledMovesOrEnds ==
  ASSUME IInv, NEW k \in tasks, FinalReconciled(k)
  PROVE  Forward \/ Ends
<1>1. /\ UNCHANGED game /\ items' \in SUBSET Targets /\ batch.live
      /\ k.callback = "final_reconciled"
  BY DEF FinalReconciled, Returned, IInv, TypeOK
<1>2. /\ tasks \ {k} = {} /\ Awaits(batch, k) /\ Truthful(k) /\ Good(batch)
      /\ quest' = quest
  BY <1>1, Context DEF game
<1>3. /\ batch.finalReconcileAttempted /\ ~batch.claimAttempted
      /\ AllWavesDone(batch) /\ ~batch.claimVerified
      /\ batch \in Batches /\ batch.targets \in SUBSET Targets
  BY <1>1, <1>2 DEF Awaits, Good, Batches
<1> DEFINE S == IF k.res = "ok" THEN k.found \cap IdsIn(batch, {"failed", "skipped"})
                                ELSE {}
           c == IF k.res = "ok" THEN ReconcileTerminalOutcomes(batch, k.found)
                                ELSE batch
<1>4. IF CanClaim(c) THEN StartClaim(c, {}) ELSE FinishHuntBatch(c, {})
  BY <1>2 DEF FinalReconciled
<1>5. \A t \in S : batch.state[t] \in {"failed", "skipped"} /\ Terminal(t)
  BY <1>1, <1>2 DEF Truthful, IdsIn
<1>6. /\ Frame(batch, c) /\ c.wave = batch.wave
      /\ \A t \in Targets : c.state[t] = IF t \in S THEN "reconciled" ELSE batch.state[t]
      /\ CanClaim(c) => Good(c)
  <2>1. CASE k.res = "ok"
    <3>1. \A t \in k.found : Terminal(t)
      BY <1>1, <1>2, <2>1 DEF Truthful
    <3>2. CanClaim(c) => Good(c)
      BY <1>2, <2>1, <3>1, ReconciledIsGood
    <3>3. c = SetState(batch, S, "reconciled") /\ "reconciled" \in TargetStates
      BY <2>1 DEF ReconcileTerminalOutcomes, TargetStates
    <3> HIDE DEF c, S
    <3> QED
      BY <1>3, <3>2, <3>3, SetStateMarks
  <2>2. CASE k.res # "ok"
    BY <1>2, <1>3, <2>2 DEF Frame
  <2> QED
    BY <2>1, <2>2
<1> HIDE DEF c, S
<1>7. \A t \in batch.targets :
        \/ c.state[t] = batch.state[t]
        \/ /\ batch.state[t] \in {"failed", "skipped"}
           /\ c.state[t] \in Proved /\ Terminal(t)
  BY <1>3, <1>5, <1>6 DEF Proved
<1>8. /\ Moved(batch, c) /\ c.claimAttempted = batch.claimAttempted
      /\ c.targets = batch.targets /\ c.finalReconcileAttempted
      /\ ~c.claimVerified /\ AllWavesDone(c)
  BY <1>3, <1>6, <1>7, MarksMove DEF Frame, AllWavesDone
<1>9. CASE CanClaim(c)
  <2>1. Moved(c, batch') /\ batch'.live /\ UNCHANGED report
    BY <1>3, <1>4, <1>6, <1>8, <1>9, ClaimMoves
  <2> QED
    BY <1>1, <1>2, <1>8, <2>1, ThenForward
<1>10. CASE ~CanClaim(c)
  <2>1. batch' = NewBatch({}) /\ report' = "unresolved"
    BY <1>4, <1>8, <1>10 DEF FinishHuntBatch, NeedsFinalReconcile, Summary
  <2>2. PICK t \in batch.targets : c.state[t] \notin Proved
    BY <1>8, <1>10 DEF CanClaim, IdsIn, Proved
  <2>3. batch.state[t] \notin Proved
    BY <1>7, <2>2
  <2>4. batch.state[t] \in {"failed", "skipped"}
    BY <1>2, <1>3, <2>3, AllDoneIsClosed DEF Settled
  <2> QED
    BY <1>1, <1>2, <1>3, <2>1, <2>4, BatchIsOver
<1> QED
  BY <1>9, <1>10

-----------------------------------------------------------------------------
(* Every step is of one of the kinds *)

\* The helpers leave a command that is at work, or none.
Fresh == \A j \in tasks' : j.res = "running"

LEMMA HelpersSubmit ==
  ASSUME NEW b,
         \/ FinishHuntBatch(b, {})
         \/ StartClaim(b, {})
         \/ DispatchNextHunt(b, {})
         \/ ContinueAfterWaveDispatches(b, {})
         \/ ResolveWaveDispatches(b, {})
  PROVE  Fresh
<1>1. ASSUME NEW c, NEW op, NEW ids, NEW callback,
             SubmitFor(c, {}, op, ids, callback)
      PROVE  Fresh
  BY <1>1 DEF SubmitFor, Command, Fresh
<1>2. ASSUME NEW c, FinishHuntBatch(c, {}) PROVE Fresh
  BY <1>1, <1>2 DEF FinishHuntBatch, Fresh
<1>3. ASSUME NEW c, StartClaim(c, {}) PROVE Fresh
  BY <1>1, <1>2, <1>3 DEF StartClaim
<1>4. ASSUME NEW c, DispatchNextHunt(c, {}) PROVE Fresh
  BY <1>1, <1>2, <1>3, <1>4 DEF DispatchNextHunt
<1>5. ASSUME NEW c, ContinueAfterWaveDispatches(c, {}) PROVE Fresh
  BY <1>1, <1>4, <1>5 DEF ContinueAfterWaveDispatches
<1>6. CASE ResolveWaveDispatches(b, {})
  BY <1>1, <1>5, <1>6 DEF ResolveWaveDispatches
<1> QED
  BY <1>2, <1>3, <1>4, <1>5, <1>6

\* No callback but _claim_verified finds or leaves a reading that was refused.
LEMMA CallbackIsQuiet ==
  ASSUME IInv, NEW k \in tasks, Callback(k), ~ClaimVerified(k)
  PROVE  Quiet
<1>1. tasks \ {k} = {} /\ \A j \in tasks : j = k
  BY DEF IInv, OneCommand
<1>2. k.callback # "claim_verified" /\ onRole' = onRole
  BY DEF Callback, IntelRefreshed, BatchDispatchFinished, MarchReconciled,
         WaveWaitFinished, WaveReconciled, ClaimFinished, FinalReconciled,
         Returned, game
<1>3. Fresh
  <2>1. CASE IntelRefreshed(k)
    BY <1>1, <2>1 DEF IntelRefreshed, Fresh
  <2>2. CASE BatchDispatchFinished(k)
    BY <1>1, <2>2, HelpersSubmit DEF BatchDispatchFinished
  <2>3. CASE MarchReconciled(k)
    BY <1>1, <2>3, HelpersSubmit DEF MarchReconciled
  <2>4. CASE WaveWaitFinished(k)
    BY <1>1, <2>4, HelpersSubmit DEF WaveWaitFinished, SubmitFor, Command, Fresh
  <2>5. CASE WaveReconciled(k)
    BY <1>1, <2>5, HelpersSubmit DEF WaveReconciled
  <2>6. CASE ClaimFinished(k)
    BY <1>1, <2>6 DEF ClaimFinished, SubmitFor, Command, Fresh
  <2>7. CASE FinalReconciled(k)
    BY <1>1, <2>7, HelpersSubmit DEF FinalReconciled
  <2> QED
    BY <2>1, <2>2, <2>3, <2>4, <2>5, <2>6, <2>7 DEF Callback
<1> QED
  BY <1>1, <1>2, <1>3 DEF Quiet, Misled, Fresh

LEMMA CallbackKind ==
  ASSUME IInv, NEW k \in tasks, Callback(k)
  PROVE  Kinds
<1>1. CASE IntelRefreshed(k)
  <2>1. ~ClaimVerified(k)
    BY <1>1 DEF IntelRefreshed, ClaimVerified, Returned
  <2> QED
    BY <1>1, <2>1, CallbackIsQuiet
       DEF IntelRefreshed, game, Quiet, SameReading, Still, Kinds
<1>2. CASE BatchDispatchFinished(k) /\ ~ClaimVerified(k)
  BY <1>2, BatchDispatchFinishedMoves, CallbackIsQuiet DEF Kinds
<1>3. CASE MarchReconciled(k) /\ ~ClaimVerified(k)
  BY <1>3, MarchReconciledMoves, CallbackIsQuiet DEF Kinds
<1>4. CASE WaveWaitFinished(k) /\ ~ClaimVerified(k)
  BY <1>4, WaveWaitFinishedMoves, CallbackIsQuiet DEF Kinds
<1>5. CASE WaveReconciled(k) /\ ~ClaimVerified(k)
  BY <1>5, WaveReconciledMoves, CallbackIsQuiet DEF Kinds
<1>6. CASE ClaimFinished(k) /\ ~ClaimVerified(k)
  BY <1>6, ClaimFinishedMoves, CallbackIsQuiet DEF Kinds
<1>7. CASE ClaimVerified(k)
  BY <1>7, ClaimVerifiedEnds DEF Kinds
<1>8. CASE FinalReconciled(k) /\ ~ClaimVerified(k)
  BY <1>8, FinalReconciledMovesOrEnds, CallbackIsQuiet DEF Kinds
<1> QED
  BY <1>1, <1>2, <1>3, <1>4, <1>5, <1>6, <1>7, <1>8 DEF Callback

LEMMA StartHuntKind ==
  ASSUME IInv, StartHunt
  PROVE  Starts
<1>1. ~batch.live /\ TypeOK /\ report' = "none" /\ UNCHANGED game
  BY NotBusy DEF StartHunt, IInv
<1>2. PICK T \in (SUBSET items) \ {{}} :
        batch' = [SetState(NewBatch(T), CurrentWave(NewBatch(T)), "dispatching")
                  EXCEPT !.phase = "dispatching"]
  BY DEF StartHunt
<1> DEFINE b == NewBatch(T)
<1>3. T \in SUBSET Targets /\ T # {}
  BY <1>1 DEF TypeOK
<1>4. b.targets = T /\ b.live = TRUE /\ b.claimAttempted = FALSE
      /\ \A t \in T : b.state[t] = "pending"
  BY <1>3 DEF NewBatch
<1>5. /\ batch'.targets = b.targets /\ batch'.live = b.live
      /\ batch'.claimAttempted = b.claimAttempted
      /\ batch'.state = [t \in Targets |-> IF t \in CurrentWave(b) THEN "dispatching"
                                           ELSE b.state[t]]
  BY <1>2 DEF SetState, NewBatch
<1> HIDE DEF b
<1>6. ASSUME NEW t \in Targets
      PROVE  StatusIn(batch', t) \in {"idle", "open", "underway"}
  <2>1. CASE t \in T
    <3>1. batch'.state[t] \in {"pending", "dispatching"} /\ t \in batch'.targets
      BY <1>4, <1>5, <2>1
    <3> QED
      BY <3>1, StatusByState
  <2>2. CASE t \notin T
    BY <1>4, <1>5, <2>2 DEF StatusIn
  <2> QED
    BY <2>1, <2>2
<1> QED
  BY <1>1, <1>4, <1>5, <1>6 DEF Starts

LEMMA CommandElapses ==
  ASSUME TypeOK, NEW k \in tasks, CommandMoves(k)
  PROVE  Lasting
<1> onRole' \in BOOLEAN
  BY DEF CommandMoves, BatchIntel, CommandFails, StatusRead, ForeignReading,
         ClaimIntel, InspectTasks, TypeOK
<1>1. CASE quest' = quest
  BY <1>1 DEF Lasting, TypeOK, Terminal
<1>2. CASE BatchIntel(k)
  <2>1. PICK t \in k.todo :
          \/ quest' = quest
          \/ /\ quest[t] = "available"
             /\ quest' \in {[quest EXCEPT ![t] = s] :
                              s \in {"available", "marching", "completed"}}
    BY <1>2 DEF BatchIntel
  <2>2. CASE quest' = quest
    BY <1>1, <2>2
  <2>3. ASSUME NEW s \in {"available", "marching", "completed"},
               quest[t] = "available", quest' = [quest EXCEPT ![t] = s]
        PROVE  Lasting
    BY <2>3 DEF Lasting, TypeOK, QuestStates, Terminal
  <2> QED
    BY <2>1, <2>2, <2>3
<1>3. ASSUME NEW res \in {"ok", "error"}, ClaimIntel(k, res)
      PROVE  Lasting
  BY <1>3 DEF ClaimIntel, Lasting, TypeOK, QuestStates, Terminal
<1> QED
  BY <1>1, <1>2, <1>3
     DEF CommandMoves, CommandFails, StatusRead, ForeignReading, InspectTasks

\* A command keeps its callback, and only a foreign reading is refused.
LEMMA CommandAnswers ==
  ASSUME IInv, NEW k \in tasks, CommandMoves(k)
  PROVE  /\ k.res = "running"
         /\ \E j : /\ tasks' = {j} /\ j.callback = k.callback
                   /\ ForeignReading(k) => j.res = "refused"
                   /\ j.res = "refused" /\ k.op # "march" => ForeignReading(k)
<1>1. k \in Commands /\ tasks = {k}
  BY DEF IInv, TypeOK, OneCommand
<1>2. k.res = "running"
  BY DEF CommandMoves, BatchIntel, CommandFails, StatusRead, ForeignReading,
         ClaimIntel, InspectTasks
<1>3. ASSUME NEW res, NEW found, Returns(k, res, found)
      PROVE  \E j : tasks' = {j} /\ j.callback = k.callback /\ j.res = res
  <2> DEFINE j == [k EXCEPT !.res = res, !.found = found]
  <2>1. j.callback = k.callback /\ j.res = res
    BY <1>1 DEF Commands
  <2>2. tasks' = {j}
    BY <1>1, <1>3 DEF Returns
  <2> QED
    BY <2>1, <2>2
<1>4. CASE BatchIntel(k)
  <2>1. ASSUME NEW after \in Commands, after.callback = k.callback,
               TargetDone(k, after)
        PROVE  \E j : tasks' = {j} /\ j.callback = k.callback
    BY <1>1, <2>1, TargetDoneIs
  <2>2. PICK t \in k.todo :
          LET rest == [k EXCEPT !.todo = @ \ {t}]
          IN  \/ TargetDone(k, rest)
              \/ TargetDone(k, [rest EXCEPT !.found = @ \cup {t}])
              \/ TargetDone(k, [rest EXCEPT !.held = @ \cup {t}])
    BY <1>4 DEF BatchIntel
  <2> DEFINE rest == [k EXCEPT !.todo = @ \ {t}]
             sent == [rest EXCEPT !.found = @ \cup {t}]
             held == [rest EXCEPT !.held = @ \cup {t}]
  <2>3. t \in Targets
    BY <1>1 DEF Commands
  <2>4. /\ rest \in Commands /\ rest.callback = k.callback
        /\ sent \in Commands /\ sent.callback = k.callback
        /\ held \in Commands /\ held.callback = k.callback
    BY <1>1, <2>3 DEF Commands
  <2>5. TargetDone(k, rest) \/ TargetDone(k, sent) \/ TargetDone(k, held)
    BY <2>2
  <2> HIDE DEF rest, sent, held
  <2>6. \E j : tasks' = {j} /\ j.callback = k.callback
    BY <2>1, <2>4, <2>5
  <2>7. k.op = "march" /\ ~ForeignReading(k)
    BY <1>4 DEF BatchIntel, ForeignReading
  <2> QED
    BY <1>2, <2>6, <2>7
<1>5. CASE ForeignReading(k)
  <2>1. Returns(k, "refused", k.ids)
    BY <1>5 DEF ForeignReading
  <2> QED
    BY <1>2, <1>3, <1>5, <2>1
<1>6. CASE ~BatchIntel(k) /\ ~ForeignReading(k)
  <2>1. PICK res \in {"ok", "error"} : \E found : Returns(k, res, found)
    BY <1>6 DEF CommandMoves, CommandFails, StatusRead, ClaimIntel, InspectTasks
  <2>2. PICK j : tasks' = {j} /\ j.callback = k.callback /\ j.res = res
    BY <1>3, <2>1
  <2> QED
    BY <1>2, <1>6, <2>2
<1> QED
  BY <1>4, <1>5, <1>6

\* The reading after the claim may be refused, and then the batch has misread
\* the effect of its claim.
LEMMA CommandKind ==
  ASSUME IInv, NEW k \in tasks, CommandMoves(k), UNCHANGED ctrl
  PROVE  Kinds
<1>1. /\ TypeOK /\ Awaits(batch, k) /\ \A i \in tasks : i = k
      /\ UNCHANGED <<batch, report>>
  BY DEF IInv, OneCommand, ctrl
<1>2. Lasting /\ k.res = "running"
  BY <1>1, CommandElapses, CommandAnswers
<1>3. PICK j : /\ tasks' = {j} /\ j.callback = k.callback
               /\ ForeignReading(k) => j.res = "refused"
               /\ j.res = "refused" /\ k.op # "march" => ForeignReading(k)
  BY CommandAnswers
<1>4. ~Misled
  BY <1>1, <1>2 DEF Misled
<1>5. CASE k.callback = "claim_verified" /\ ForeignReading(k)
  <2>1. Misled' /\ batch.claimAttempted
    BY <1>1, <1>3, <1>5 DEF Misled, Awaits
  <2>2. Claim = "requested" /\ Claim' = "misread"
    BY <1>1, <1>4, <2>1 DEF Claim
  <2>3. batch.live = TRUE
    BY <1>1, <1>5 DEF Awaits, TypeOK, Batches
  <2>4. ~onRole /\ UNCHANGED <<quest, onRole>>
    BY <1>5 DEF ForeignReading
  <2>5. \A t \in Targets : Status(t)' = Status(t)
    BY <1>1 DEF Status
  <2> QED
    BY <1>1, <2>2, <2>3, <2>4, <2>5 DEF Promise!Misread, Misread, Kinds
<1>6. CASE ~(k.callback = "claim_verified" /\ ForeignReading(k))
  <2>1. ~Misled'
    BY <1>1, <1>3, <1>6 DEF Misled, Awaits
  <2> QED
    BY <1>1, <1>2, <1>4, <2>1 DEF SameReading, Elapses, Kinds
<1> QED
  BY <1>5, <1>6

LEMMA GameElapses ==
  ASSUME TypeOK, GameStep
  PROVE  Lasting
<1>1. CASE PlayerSwitchesRole
  BY <1>1 DEF PlayerSwitchesRole, Lasting, TypeOK, Terminal
<1>2. ASSUME NEW t \in Targets,
             MarchReturns(t) \/ QuestDisappears(t) \/ PlayerRecalls(t)
      PROVE  Lasting
  BY <1>2 DEF MarchReturns, QuestDisappears, PlayerRecalls, Lasting, TypeOK,
              QuestStates, Terminal
<1> QED
  BY <1>1, <1>2 DEF GameStep

LEMMA StepKind ==
  ASSUME IInv, [Next]_vars
  PROVE  Kinds
<1>1. TypeOK
  BY DEF IInv
<1>2. CASE RefreshIntel
  <2>1. ~Misled /\ ~Misled'
    BY <1>2, NotBusy DEF RefreshIntel, Command, Misled
  <2> QED
    BY <1>2, <2>1 DEF RefreshIntel, game, SameReading, Still, Kinds
<1>3. CASE StartHunt
  BY <1>3, StartHuntKind DEF Kinds
<1>4. ASSUME NEW k \in tasks, Callback(k) PROVE Kinds
  BY <1>4, CallbackKind
<1>5. CASE Runs
  BY <1>5, CommandKind DEF Runs
<1>6. CASE GameStep /\ UNCHANGED ctrl
  <2>1. tasks' = tasks
    BY <1>6 DEF GameStep, PlayerSwitchesRole, MarchReturns, QuestDisappears,
                PlayerRecalls
  <2>2. SameReading
    BY <2>1 DEF SameReading, Misled
  <2> QED
    BY <1>1, <1>6, <2>2, GameElapses DEF ctrl, Elapses, Kinds
<1>7. CASE UNCHANGED vars
  <2>1. SameReading
    BY <1>7 DEF vars, SameReading, Misled
  <2> QED
    BY <1>7, <2>1 DEF vars, Still, Kinds
<1> QED
  BY <1>2, <1>3, <1>4, <1>5, <1>6, <1>7 DEF Next

-----------------------------------------------------------------------------
(* Every kind of step is a step of IntelBatch or a stutter *)

Mapped(b) == [t \in Targets |-> StatusIn(b, t)]

LEMMA MappedStatus ==
  /\ [t \in Targets |-> Status(t)] = Mapped(batch)
  /\ [t \in Targets |-> Status(t)]' = Mapped(batch')
BY StatusOfBatch DEF Mapped

LEMMA ForwardIsAdvance ==
  ASSUME TypeOK, Forward, Quiet, batch'.live \in BOOLEAN
  PROVE  Promise!Advance
<1>1. batch.live = TRUE /\ batch'.live = TRUE
  BY DEF Forward, TypeOK, Batches
<1>2. Mapped(batch') \in [Targets -> Promise!Statuses]
  BY StatusIsStatus DEF Mapped
<1>3. \A t \in Targets :
        /\ Mapped(batch')[t] \in Promise!After(Mapped(batch)[t])
        /\ Mapped(batch')[t] = "done" /\ Mapped(batch)[t] # "done"
             => quest[t] \in {"completed", "missing"}
  BY DEF Forward, Moved, Mapped, Terminal
<1>4. \/ Claim' = Claim
      \/ /\ Claim = "none" /\ Claim' = "requested"
         /\ \A t \in Targets : Mapped(batch')[t] \in {"idle", "done"}
  BY DEF Forward, Moved, Mapped, Quiet, Claim
<1>5. UNCHANGED <<quest, onRole, report>>
  BY DEF Forward, Quiet
<1> QED
  BY <1>1, <1>2, <1>3, <1>4, <1>5, MappedStatus DEF Promise!Advance

LEMMA StartsIsBegin ==
  ASSUME TypeOK, Starts
  PROVE  Promise!Begin
<1>1. Mapped(batch') \in [Targets -> {"idle", "open", "underway"}]
  BY DEF Starts, Mapped
<1>2. /\ batch.live = FALSE /\ batch'.live = TRUE /\ Claim' = "none"
      /\ report' = "none" /\ UNCHANGED <<quest, onRole>>
  BY DEF Starts, TypeOK, Batches, Claim, game
<1> QED
  BY <1>1, <1>2, MappedStatus DEF Promise!Begin

LEMMA ElapsesIsGameMoves ==
  ASSUME Elapses
  PROVE  Promise!GameMoves
<1>1. Mapped(batch') = Mapped(batch)
  BY DEF Elapses
<1>2. quest' \in [Targets -> QuestStates] /\ onRole' \in BOOLEAN /\ Claim' = Claim
  BY DEF Elapses, Lasting, SameReading, Claim
<1>3. \A t \in Targets :
        /\ quest[t] = "completed" => quest'[t] \in {"completed", "missing"}
        /\ quest[t] = "missing" => quest'[t] = "missing"
  BY DEF Elapses, Lasting, Terminal
<1> QED
  BY <1>1, <1>2, <1>3, MappedStatus DEF Elapses, Promise!GameMoves, QuestStates

LEMMA KindsKeepPromise ==
  ASSUME TypeOK, batch'.live \in BOOLEAN, Kinds
  PROVE  [Promise!Next]_(Promise!vars)
<1>1. CASE Forward /\ Quiet
  BY <1>1, ForwardIsAdvance DEF Promise!Next
<1>2. CASE Ends
  BY <1>2 DEF Ends, Promise!Next
<1>3. CASE Still
  BY <1>3, MappedStatus DEF Still, SameReading, Claim, Promise!vars
<1>4. CASE Elapses
  BY <1>4, ElapsesIsGameMoves DEF Promise!Next
<1>5. CASE Starts
  BY <1>5, StartsIsBegin DEF Promise!Next
<1>6. CASE Misread
  BY <1>6 DEF Misread, Promise!Next
<1> QED
  BY <1>1, <1>2, <1>3, <1>4, <1>5, <1>6 DEF Kinds

-----------------------------------------------------------------------------

LEMMA InitKeepsPromise == Init => Promise!Init
<1> SUFFICES ASSUME Init PROVE Promise!Init
  OBVIOUS
<1>1. batch = NewBatch({}) /\ report = "none" /\ onRole = TRUE
      /\ quest \in [Targets -> {"available", "missing"}]
  BY DEF Init
<1>2. batch.live = FALSE /\ batch.claimAttempted = FALSE
  BY <1>1, NoBatchIsIdle
<1>3. Mapped(batch) = [t \in Targets |-> "idle"]
  BY <1>1, NoBatchIsIdle DEF Mapped
<1> QED
  BY <1>1, <1>2, <1>3, MappedStatus DEF Promise!Init, Claim

\* A batch sent in waves keeps what IntelBatch promises: targets only move
\* forward, are done only when the game is done with them, the claim is made
\* once and when everything is done, and "verified" is said only when the game
\* lists no target any more, or when the reading after the claim was refused as
\* one of another role and listed none of them.
THEOREM WavesKeepPromise == Spec => KeepsPromise
<1>1. Init => IInv /\ Promise!Init
  BY InitEstablishesIInv, InitKeepsPromise
<1>2. ASSUME IInv, [Next]_vars
      PROVE  IInv' /\ [Promise!Next]_(Promise!vars)
  <2>1. IInv'
    BY <1>2, NextKeepsIInv
  <2>2. TypeOK /\ batch'.live \in BOOLEAN
    BY <1>2, <2>1 DEF IInv, TypeOK, Batches
  <2> QED
    BY <1>2, <2>1, <2>2, StepKind, KindsKeepPromise
<1> QED
  BY <1>1, <1>2, PTL DEF Spec, KeepsPromise, Promise!Spec
=============================================================================
