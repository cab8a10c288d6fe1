------------------------- MODULE ServerRecoveryProofs -------------------------
(***************************************************************************)
(* Theorems of ServerRecovery: its types, the lock of a program and its    *)
(* generation, and that scripts which do not overlap leave one server.     *)
(***************************************************************************)
EXTENDS ServerRecovery, FiniteSetTheorems, TLAPS

\* What a caller observed is never ahead of the generation.
ObservedBefore ==
  \A c \in Callers : In(c, "locking") =>
    generation[ProgramOf[c]] >= call[c].observed

\* Scripts that do not overlap: one at a time, and what the one that runs knows
\* of the servers stays true.
Alone ==
  ~overlapped =>
    /\ \A m, n \in Running : m = n
    /\ \A p, q \in alive : p = q
    /\ \A n \in Running :
         /\ script[n].at \in {"check", "term", "stopping", "killed"} =>
              \A p \in alive : p = script[n].old
         /\ At(n, "free") => alive = {}

IInv == TypeOK /\ OneRecoveryAtATime /\ RetryFollowsRecovery
               /\ ObservedBefore /\ Alone

LEMMA InitIInv == Init => IInv
  <1> SUFFICES ASSUME Init PROVE IInv
    OBVIOUS
  <1> USE RecoveryAssumption DEF Init, NoCall, NoScript
  <1>1. TypeOK
    <2>1. alive \subseteq Servers /\ endpoint \in alive \cup {None, Foreign}
      OBVIOUS
    <2>2. deaf \subseteq alive \cap {endpoint}
      OBVIOUS
    <2>3. binary \in BOOLEAN /\ overlapped \in BOOLEAN
      BY Zenon
    <2>4. script \in [Numbers -> [at : Working \cup {"none", "ok", "failed"},
                                 old : Servers \cup {None}]]
      BY DEF Numbers, Working
    <2> QED BY <2>1, <2>2, <2>3, <2>4 DEF TypeOK
  <1>2. OneRecoveryAtATime /\ RetryFollowsRecovery /\ ObservedBefore
    BY DEF OneRecoveryAtATime, RetryFollowsRecovery, ObservedBefore, In
  <1>3. Alone
    BY DEF Alone, Running, Working, At
  <1> QED BY <1>1, <1>2, <1>3 DEF IInv

-----------------------------------------------------------------------------
(* Types.                                                                  *)

ScriptType ==
  script \in [Numbers -> [at : Working \cup {"none", "ok", "failed"},
                          old : Servers \cup {None}]]

CallType ==
  call \in [Callers -> [pc : {"idle", "first", "recover", "locking", "running",
                             "retry"},
                       n : 0..MaxCalls, observed : Nat]]

\* A script that goes on or ends, and a call that does, keep their types.
LEMMA GoesTyped ==
  ASSUME ScriptType, NEW n \in Numbers,
         \E at \in Working \cup {"ok", "failed"} : Goes(n, at)
  PROVE  ScriptType'
  BY DEF ScriptType, Goes, Numbers

LEMMA CallTyped ==
  ASSUME CallType, NEW c \in Callers,
         \/ Ends(c)
         \/ \E pc \in {"recover", "retry", "running"} : Moves(c, pc)
  PROVE  CallType'
  BY RecoveryAssumption DEF CallType, Ends, Moves, NoCall

LEMMA TypeOKStep == TypeOK /\ [Next]_vars => TypeOK'
  <1> SUFFICES ASSUME TypeOK, [Next]_vars PROVE TypeOK'
    OBVIOUS
  <1> USE RecoveryAssumption DEF TypeOK, Working, Numbers
  <1>1. ASSUME NEW p \in Servers, Binds(p) PROVE TypeOK'
    BY <1>1 DEF Binds, program
  <1>2. CASE ServerFails
    BY <1>2 DEF ServerFails, Faulty, Dies, program
  <1>3. CASE ForeignLeaves
    BY <1>3 DEF ForeignLeaves, program
  <1>4. ASSUME NEW n \in Numbers, ScriptStep(n) PROVE TypeOK'
    <2>1. CASE Counts(n)
      <3>1. UNCHANGED <<device, faults, overlapped, program>>
        BY <2>1 DEF Counts
      <3>2. script' \in [Numbers -> [at : Working \cup {"none", "ok", "failed"},
                                    old : Servers \cup {None}]]
        <4>1. CASE Goes(n, "failed")
          BY <4>1 DEF Goes
        <4>2. CASE \E old \in Servers \cup {None} :
                script' = [script EXCEPT ![n] = [at |-> "check", old |-> old]]
          BY <4>2
        <4> QED BY <2>1, <4>1, <4>2 DEF Counts
      <3> QED BY <3>1, <3>2 DEF device, program
    <2>2. CASE Checks(n)
      BY <2>2 DEF Checks, At, Goes, device, program
    <2>3. CASE Terminates(n)
      BY <2>3 DEF Terminates, At, Goes, device, program
    <2>4. CASE Stops(n)
      <3>1. UNCHANGED <<binary, faults, overlapped, program>>
        BY <2>4 DEF Stops, Dies, device
      <3>2. ScriptType'
        <4>1. \E at \in Working \cup {"ok", "failed"} : Goes(n, at)
          BY <2>4 DEF Stops
        <4> QED BY <4>1, GoesTyped DEF ScriptType
      <3>3. CASE Dies(script[n].old)
        BY <3>1, <3>2, <3>3 DEF Dies, program, ScriptType
      <3>4. CASE UNCHANGED device
        BY <3>1, <3>2, <3>4 DEF device, program, ScriptType
      <3> QED BY <2>4, <3>3, <3>4 DEF Stops
    <2>5. CASE Starts(n)
      <3>1. UNCHANGED <<endpoint, deaf, binary, faults, overlapped, program>>
        BY <2>5 DEF Starts
      <3>2. ScriptType'
        <4>1. \E at \in Working \cup {"ok", "failed"} : Goes(n, at)
          BY <2>5 DEF Starts
        <4> QED BY <4>1, GoesTyped DEF ScriptType
      <3>3. alive \subseteq alive' /\ alive' \subseteq Servers
        BY <2>5 DEF Starts
      <3> QED BY <3>1, <3>2, <3>3 DEF program, ScriptType
    <2>6. CASE Polls(n)
      BY <2>6 DEF Polls, At, Goes, device, program
    <2> QED BY <1>4, <2>1, <2>2, <2>3, <2>4, <2>5, <2>6 DEF ScriptStep
  <1>5. ASSUME NEW n \in Numbers, Abandoned(n) PROVE TypeOK'
    BY <1>5 DEF Abandoned, Goes, device, program
  <1>6. ASSUME NEW c \in Callers, Calls(c) \/ CallerStep(c) PROVE TypeOK'
    <2> USE DEF device, program, NoCall, NoScript, Moves, Ends, Goes, In
    <2>1. CASE Calls(c)
      BY <2>1 DEF Calls
    <2>2. CASE ActionEnds(c)
      BY <2>2 DEF ActionEnds
    <2>3. CASE ConnectionFails(c)
      <3>1. UNCHANGED <<device, script, overlapped, holder, generation, calls>>
        BY <2>3 DEF ConnectionFails
      <3>2. faults' \in 0..MaxFaults
        BY <2>3 DEF ConnectionFails, Faulty
      <3>3. CallType'
        <4>1. Ends(c) \/ \E pc \in {"recover", "retry", "running"} : Moves(c, pc)
          BY <2>3 DEF ConnectionFails
        <4> QED BY <4>1, CallTyped DEF CallType
      <3> QED BY <3>1, <3>2, <3>3 DEF CallType
    <2>4. CASE CannotRecover(c)
      BY <2>4 DEF CannotRecover, Faulty
    <2>5. CASE Observes(c)
      BY <2>5 DEF Observes
    <2>6. CASE AlreadyRecovered(c)
      BY <2>6 DEF AlreadyRecovered
    <2>7. CASE Launches(c)
      BY <2>7 DEF Launches
    <2>8. CASE ScriptAnswers(c)
      <3>1. UNCHANGED <<device, faults, script, overlapped, calls>>
        BY <2>8 DEF ScriptAnswers
      <3>2. holder' \in [Programs -> Callers \cup {None}]
        BY <2>8 DEF ScriptAnswers, Releases
      <3>3. generation' \in [Programs -> Nat]
        BY <2>8 DEF ScriptAnswers
      <3>4. CallType'
        <4>1. Ends(c) \/ \E pc \in {"recover", "retry", "running"} : Moves(c, pc)
          BY <2>8 DEF ScriptAnswers
        <4> QED BY <4>1, CallTyped DEF CallType
      <3> QED BY <3>1, <3>2, <3>3, <3>4 DEF CallType
    <2>9. CASE TimesOut(c)
      BY <2>9 DEF TimesOut, Releases, Faulty
    <2> QED BY <1>6, <2>1, <2>2, <2>3, <2>4, <2>5, <2>6, <2>7, <2>8, <2>9
        DEF CallerStep
  <1>7. CASE UNCHANGED vars
    BY <1>7 DEF vars
  <1> QED BY <1>1, <1>2, <1>3, <1>4, <1>5, <1>6, <1>7 DEF Next

-----------------------------------------------------------------------------
(* The lock and the generation of a program.                               *)

Locked == OneRecoveryAtATime /\ RetryFollowsRecovery /\ ObservedBefore

LEMMA LockedStep == TypeOK /\ Locked /\ [Next]_vars => Locked'
  <1> SUFFICES ASSUME TypeOK, Locked, [Next]_vars PROVE Locked'
    OBVIOUS
  <1> USE RecoveryAssumption
      DEF TypeOK, Locked, OneRecoveryAtATime, RetryFollowsRecovery,
          ObservedBefore, In
  <1>1. CASE UNCHANGED program
    BY <1>1 DEF program
  <1>2. ASSUME NEW c \in Callers, Calls(c) \/ CallerStep(c) PROVE Locked'
    <2> USE DEF NoCall, Moves, Ends
    <2>1. CASE Calls(c)
      BY <2>1 DEF Calls
    <2>2. CASE ActionEnds(c)
      BY <2>2 DEF ActionEnds
    <2>3. CASE ConnectionFails(c)
      BY <2>3 DEF ConnectionFails
    <2>4. CASE CannotRecover(c)
      BY <2>4 DEF CannotRecover
    <2>5. CASE Observes(c)
      BY <2>5 DEF Observes
    <2>6. CASE AlreadyRecovered(c)
      BY <2>6 DEF AlreadyRecovered
    <2>7. CASE Launches(c)
      BY <2>7 DEF Launches
    <2>8. CASE ScriptAnswers(c)
      <3>1. \A d \in Callers \ {c} :
              /\ call'[d] = call[d]
              /\ call[d].pc = "running" => ProgramOf[d] # ProgramOf[c]
        BY <2>8 DEF ScriptAnswers
      <3>2. call'[c].pc \notin {"running", "locking"}
        BY <2>8 DEF ScriptAnswers
      <3>3. \A p \in Programs \ {ProgramOf[c]} :
              holder'[p] = holder[p] /\ generation'[p] = generation[p]
        BY <2>8 DEF ScriptAnswers, Releases
      <3>4. \A p \in Programs :
              /\ generation'[p] \in Nat /\ generation[p] \in Nat
              /\ generation'[p] >= generation[p]
        BY <2>8 DEF ScriptAnswers
      <3>5. call'[c].pc = "retry" =>
              generation'[ProgramOf[c]] > call'[c].observed
        BY <2>8 DEF ScriptAnswers
      <3>6. OneRecoveryAtATime'
        BY <3>1, <3>2, <3>3
      <3>7. RetryFollowsRecovery'
        <4> SUFFICES ASSUME NEW d \in Callers, call'[d].pc = "retry", d # c
                     PROVE generation'[ProgramOf[d]] > call'[d].observed
          BY <3>5
        <4>1. generation[ProgramOf[d]] > call[d].observed
          BY <3>1
        <4> QED BY <3>1, <3>4, <4>1
      <3>8. ObservedBefore'
        <4> SUFFICES ASSUME NEW d \in Callers, call'[d].pc = "locking", d # c
                     PROVE generation'[ProgramOf[d]] >= call'[d].observed
          BY <3>2
        <4>1. generation[ProgramOf[d]] >= call[d].observed
          BY <3>1
        <4> QED BY <3>1, <3>4, <4>1
      <3> QED BY <3>6, <3>7, <3>8
    <2>9. CASE TimesOut(c)
      BY <2>9 DEF TimesOut, Releases
    <2> QED BY <1>2, <2>1, <2>2, <2>3, <2>4, <2>5, <2>6, <2>7, <2>8, <2>9
        DEF CallerStep
  <1>3. ASSUME NEW n \in Numbers, ScriptStep(n) \/ Abandoned(n)
        PROVE UNCHANGED program
    BY <1>3 DEF ScriptStep, Counts, Checks, Terminates, Stops, Starts, Polls,
                Abandoned
  <1>4. ASSUME NEW p \in Servers, Binds(p) PROVE UNCHANGED program
    BY <1>4 DEF Binds
  <1>5. CASE ServerFails \/ ForeignLeaves
    BY <1>1, <1>5 DEF ServerFails, ForeignLeaves
  <1>6. CASE UNCHANGED vars
    BY <1>1, <1>6 DEF vars, program
  <1> QED BY <1>1, <1>2, <1>3, <1>4, <1>5, <1>6 DEF Next

-----------------------------------------------------------------------------
(* The servers of scripts that do not overlap.                             *)

LEMMA AloneStep == TypeOK /\ Alone /\ [Next]_vars => Alone'
  <1> SUFFICES ASSUME TypeOK, Alone, [Next]_vars PROVE Alone'
    OBVIOUS
  <1> USE RecoveryAssumption
  <1>1. ASSUME alive' \subseteq alive, UNCHANGED <<script, overlapped>>
        PROVE Alone'
    BY <1>1 DEF Alone, Running, At
  <1>2. ASSUME NEW p \in Servers, Binds(p) PROVE Alone'
    <2>1. alive' \subseteq alive /\ UNCHANGED <<script, overlapped>>
      BY <1>2 DEF Binds
    <2> QED BY <1>1, <2>1
  <1>3. CASE ServerFails \/ ForeignLeaves
    <2>1. alive' \subseteq alive /\ UNCHANGED <<script, overlapped>>
      BY <1>3 DEF ServerFails, ForeignLeaves, Dies
    <2> QED BY <1>1, <2>1
  <1>4. ASSUME NEW n \in Numbers, ScriptStep(n) PROVE Alone'
    <2> USE DEF TypeOK, Alone, Running, Working, At, Goes, device
    <2>1. CASE Counts(n)
      BY <2>1 DEF Counts
    <2>2. CASE Checks(n)
      BY <2>2 DEF Checks
    <2>3. CASE Terminates(n)
      BY <2>3 DEF Terminates
    <2>4. CASE Stops(n)
      BY <2>4 DEF Stops, Dies
    <2>5. CASE Starts(n)
      <3>1. n \in Running /\ UNCHANGED overlapped
        BY <2>5 DEF Starts
      <3>2. CASE overlapped
        BY <3>1, <3>2
      <3>3. CASE ~overlapped
        <4>1. alive = {} /\ \A m \in Running : m = n
          BY <2>5, <3>1, <3>3 DEF Starts
        <4>2. \A p, q \in alive' : p = q
          BY <2>5, <4>1 DEF Starts
        <4>3. \A m \in Running' : m = n /\ script'[m].at = "poll"
          BY <2>5, <4>1 DEF Starts
        <4> QED BY <4>2, <4>3
      <3> QED BY <3>2, <3>3
    <2>6. CASE Polls(n)
      BY <2>6 DEF Polls
    <2> QED BY <1>4, <2>1, <2>2, <2>3, <2>4, <2>5, <2>6 DEF ScriptStep
  <1>5. ASSUME NEW n \in Numbers, Abandoned(n) PROVE Alone'
    BY <1>5 DEF Abandoned, TypeOK, Alone, Running, Working, At, Goes, device
  <1>6. ASSUME NEW c \in Callers, Calls(c) \/ CallerStep(c) PROVE Alone'
    <2>1. CASE Launches(c)
      <3>1. alive' = alive
        BY <2>1 DEF Launches, device
      <3>2. CASE overlapped'
        BY <3>2 DEF Alone
      <3>3. CASE ~overlapped'
        <4>1. ~overlapped /\ Running = {}
          BY <2>1, <3>3 DEF Launches
        <4>2. \A m \in Running' : m = call[c].n /\ script'[m].at = "count"
          BY <2>1, <4>1 DEF Launches, Goes, Running, Working, TypeOK
        <4> QED BY <3>1, <4>1, <4>2 DEF Alone, At
      <3> QED BY <3>2, <3>3
    <2>2. CASE ~Launches(c)
      <3>1. alive' \subseteq alive /\ UNCHANGED <<script, overlapped>>
        BY <1>6, <2>2 DEF Calls, CallerStep, ActionEnds, ConnectionFails,
           CannotRecover, Observes, AlreadyRecovered, ScriptAnswers, TimesOut,
           device
      <3> QED BY <1>1, <3>1
    <2> QED BY <2>1, <2>2
  <1>7. CASE UNCHANGED vars
    BY <1>1, <1>7 DEF vars
  <1> QED BY <1>2, <1>3, <1>4, <1>5, <1>6, <1>7 DEF Next

-----------------------------------------------------------------------------

LEMMA AloneMeansOne == TypeOK /\ Alone => OneServer
  <1> SUFFICES ASSUME TypeOK, Alone, ~overlapped
               PROVE Cardinality(alive) <= 1
    BY DEF OneServer
  <1>1. CASE alive = {}
    BY <1>1, FS_EmptySet
  <1>2. CASE alive # {}
    <2>1. PICK p \in alive : TRUE
      BY <1>2
    <2>2. alive = {p}
      BY <2>1 DEF Alone
    <2>3. Cardinality({p}) = 1
      BY FS_Singleton
    <2> QED BY <2>2, <2>3
  <1> QED BY <1>1, <1>2

LEMMA Inductive == Spec => []IInv
  <1>1. IInv /\ [Next]_vars => IInv'
    BY TypeOKStep, LockedStep, AloneStep DEF IInv, Locked
  <1> QED BY InitIInv, <1>1, PTL DEF Spec

\* Every state of the recovery has the types of TypeOK; a listener is a server
\* that is alive, or foreign (FridaServerRecovery).
THEOREM Types == Spec => []TypeOK
  <1>1. IInv => TypeOK
    BY DEF IInv
  <1> QED BY Inductive, <1>1, PTL

\* With any number of callers, programs and calls, a program runs one recovery
\* at a time and none for a caller that waited while another succeeded
\* (frida_driver.py:recover).
THEOREM Serial == Spec => []OneRecoveryAtATime
  <1>1. IInv => OneRecoveryAtATime
    BY DEF IInv
  <1> QED BY Inductive, <1>1, PTL

\* No action is repeated without a recovery that succeeded after the caller
\* asked for one (_with_server_recovery).
THEOREM Retries == Spec => []RetryFollowsRecovery
  <1>1. IInv => RetryFollowsRecovery
    BY DEF IInv
  <1> QED BY Inductive, <1>1, PTL

\* Whatever servers, ports and waits do, scripts that never overlapped have left
\* at most one server process (the restart script).
THEOREM OneAtMost == Spec => []OneServer
  <1>1. IInv => OneServer
    BY AloneMeansOne DEF IInv
  <1> QED BY Inductive, <1>1, PTL

=============================================================================
