---------------------------- MODULE YetiLoopProofs ----------------------------
(***************************************************************************)
(* Theorems of YetiLoop for every number of sessions, yetis, items and     *)
(* requests: its types, one summons and one rally a round, and that the    *)
(* rally of a round goes to the yeti that is locked.                       *)
(*                                                                         *)
(* A session does not count what it sent: it remembers that it asked for a *)
(* summons (spawnSent) and that it rallied (attempted), and forgets both   *)
(* when it locks a target.  RoundFine says why that is enough: what is     *)
(* forgotten then is not asked again, because a locked target is left only *)
(* at the end of the round.                                                *)
(***************************************************************************)
EXTENDS YetiLoop, TLAPS

\* A session y after f faults, each of which may have repeated one request.
RoundFine(y, f) ==
  /\ y.summons <= 1 + f
  /\ ~y.spawnSent /\ y.locked = None => y.summons <= f
  /\ y.pc = "spawn" => ~y.spawnSent /\ y.locked = None
  /\ y.rallied <= 1 + f
  /\ ~y.attempted => y.rallied <= f
  /\ y.attempted => y.locked # None
  /\ y.pc = "commit" => ~y.attempted /\ y.locked # None

\* The last of the requests q of session s goes to the target locked in y.
LastGoesTo(q, y, s) ==
  \A i \in DOMAIN q : q[i].by = s =>
    \/ q[i].to = y.locked
    \/ \E j \in DOMAIN q : q[j].by = s /\ j > i

Requests == Seq([to : Yetis, by : Sessions])

SessionOK(s) ==
  /\ RoundFine(session[s], faults)
  /\ session[s].rallied > 0 /\ faults = 0 => LastGoesTo(requests, session[s], s)

IInv == TypeOK /\ \A s \in Sessions : SessionOK(s)

-----------------------------------------------------------------------------
(* Sessions *)

LEMMA NewSessionTyped ==
  /\ NewSession \in SessionType
  /\ NewSession.pc = "none" /\ NewSession.locked = None
  /\ NewSession.summons = 0 /\ NewSession.rallied = 0
  /\ ~NewSession.attempted /\ ~NewSession.spawnSent
BY DEF NewSession, SessionType, Phases

\* A session that only its pc or its stop flag tells from y.
SameRound(y, z) ==
  /\ z.summons = y.summons /\ z.rallied = y.rallied /\ z.locked = y.locked
  /\ z.spawnSent = y.spawnSent /\ z.attempted = y.attempted
  /\ z.pc \in {y.pc, "status", "drained"}

LEMMA SameRoundFine ==
  ASSUME NEW y, NEW z, SameRound(y, z), NEW f, RoundFine(y, f)
  PROVE  RoundFine(z, f)
BY DEF SameRound, RoundFine

\* Nothing was sent yet.
Fresh(y) ==
  /\ y.summons = 0 /\ y.rallied = 0 /\ y.locked = None
  /\ ~y.attempted /\ ~y.spawnSent
  /\ y.pc \notin {"spawn", "commit"}

LEMMA FreshIsFine ==
  ASSUME NEW y, Fresh(y), NEW f \in Nat
  PROVE  RoundFine(y, f)
BY DEF Fresh, RoundFine

LEMMA FreshSessions ==
  ASSUME NEW pc \in {"none", "status", "over"}
  PROVE  /\ [NewSession EXCEPT !.pc = pc] \in SessionType
         /\ Fresh([NewSession EXCEPT !.pc = pc])
         /\ [NewSession EXCEPT !.pc = pc].pc = pc
BY NewSessionTyped DEF Fresh, NewSession, SessionType, Phases

\* Locking the target that is seen forgets nothing that could be sent again.
LEMMA SeenFine ==
  ASSUME TypeOK, NEW s \in Sessions, RoundFine(session[s], faults),
         session[s].pc = "status"
  PROVE  /\ Seen(s) \in SessionType
         /\ RoundFine(Seen(s), faults)
         /\ Seen(s).pc = "status"
         /\ Seen(s).rallied = session[s].rallied
         /\ Seen(s).stop = session[s].stop
         /\ session[s].locked # None => Seen(s).locked = session[s].locked
         /\ boss # None => Seen(s).locked # None
<1> DEFINE y == session[s]
           z == [y EXCEPT !.locked = boss, !.spawnSent = FALSE, !.attempted = FALSE]
<1>1. y \in SessionType /\ faults \in Nat
  BY DEF TypeOK
<1>2. CASE boss # None /\ y.locked = None
  <2>1. Seen(s) = z
    BY <1>2 DEF Seen
  <2>2. z \in SessionType
    BY <1>1 DEF SessionType, TypeOK
  <2>3. /\ z.pc = y.pc /\ z.summons = y.summons /\ z.rallied = y.rallied
        /\ z.locked = boss /\ z.stop = y.stop
    BY <1>1 DEF SessionType
  <2>4. ~z.spawnSent /\ ~z.attempted
    BY <1>1 DEF SessionType
  <2>5. RoundFine(z, faults)
    BY <1>1, <1>2, <2>3, <2>4 DEF RoundFine
  <2> QED
    BY <1>2, <2>1, <2>2, <2>3, <2>5
<1>3. CASE ~(boss # None /\ y.locked = None)
  BY <1>1, <1>3 DEF Seen
<1> QED
  BY <1>2, <1>3

-----------------------------------------------------------------------------
(* Requests *)

LEMMA TailKeepsLast ==
  ASSUME NEW q \in Requests, q # <<>>, NEW y, NEW s, LastGoesTo(q, y, s)
  PROVE  LastGoesTo(Tail(q), y, s)
<1> DEFINE p == Tail(q)
<1>1. Len(q) \in Nat \ {0} /\ DOMAIN q = 1..Len(q)
  BY DEF Requests
<1>2. DOMAIN p = 1..(Len(q) - 1)
      /\ \A i \in 1..(Len(q) - 1) : p[i] = q[i + 1]
  BY <1>1 DEF Requests
<1> HIDE DEF p
<1> SUFFICES ASSUME NEW i \in DOMAIN p, p[i].by = s
             PROVE  \/ p[i].to = y.locked
                    \/ \E j \in DOMAIN p : p[j].by = s /\ j > i
  BY DEF LastGoesTo, p
<1>3. i + 1 \in DOMAIN q /\ q[i + 1].by = s
  BY <1>1, <1>2
<1>4. CASE q[i + 1].to = y.locked
  BY <1>2, <1>4
<1>5. ASSUME NEW j \in DOMAIN q, q[j].by = s, j > i + 1
      PROVE  \E k \in DOMAIN p : p[k].by = s /\ k > i
  <2>1. j - 1 \in DOMAIN p /\ p[j - 1] = q[j] /\ j - 1 > i
    BY <1>1, <1>2, <1>5
  <2> QED
    BY <1>5, <2>1
<1> QED
  BY <1>3, <1>4, <1>5 DEF LastGoesTo

\* A request that is appended is the last of its session, and none of another.
LEMMA AppendKeepsLast ==
  ASSUME NEW q \in Requests, NEW s \in Sessions, NEW to \in Yetis, NEW y, NEW r,
         r # s => LastGoesTo(q, y, r), r = s => y.locked = to
  PROVE  LastGoesTo(Append(q, [to |-> to, by |-> s]), y, r)
<1> DEFINE n == Len(q)
           p == Append(q, [to |-> to, by |-> s])
<1>1. n \in Nat /\ DOMAIN q = 1..n
  BY DEF Requests
<1>2. /\ DOMAIN p = 1..(n + 1)
      /\ p[n + 1].to = to /\ p[n + 1].by = s
      /\ \A i \in 1..n : p[i] = q[i]
  BY <1>1 DEF Requests
<1> HIDE DEF n, p
<1> SUFFICES ASSUME NEW i \in DOMAIN p, p[i].by = r
             PROVE  \/ p[i].to = y.locked
                    \/ \E j \in DOMAIN p : p[j].by = r /\ j > i
  BY DEF LastGoesTo, p
<1>3. CASE r = s
  BY <1>1, <1>2, <1>3
<1>4. CASE r # s
  BY <1>1, <1>2, <1>4 DEF LastGoesTo
<1> QED
  BY <1>3, <1>4

-----------------------------------------------------------------------------
(* One session moves, and may send something. *)

LEMMA MoreFaultsFine ==
  ASSUME NEW y \in SessionType, NEW f \in Nat, NEW g \in Nat, f <= g,
         RoundFine(y, f)
  PROVE  RoundFine(y, g)
BY DEF RoundFine, SessionType

LEMMA SessionMoves ==
  ASSUME IInv, NEW s \in Sessions, NEW y \in SessionType,
         session' = [session EXCEPT ![s] = y],
         unread' \subseteq unread, s \in unread' => y.pc \in {"status", "commit", "spawn"},
         UNCHANGED <<boss, rallies, items, orderly, last>>, running' \in BOOLEAN,
         summoned' \in 0..MaxRequests, requests' \in Requests,
         faults' \in 0..MaxFaults, faults <= faults',
         RoundFine(y, faults'),
         y.rallied > 0 /\ faults' = 0 => LastGoesTo(requests', y, s),
         \A r \in Sessions \ {s} :
           LastGoesTo(requests, session[r], r) => LastGoesTo(requests', session[r], r)
  PROVE  IInv'
<1>1. /\ TypeOK /\ faults \in Nat /\ faults' \in Nat
      /\ session \in [Sessions -> SessionType]
      /\ \A r \in Sessions : SessionOK(r)
  BY YetiAssumption DEF IInv, TypeOK
<1>2. /\ session' \in [Sessions -> SessionType] /\ session'[s] = y
      /\ \A r \in Sessions \ {s} : session'[r] = session[r]
  BY <1>1
<1>3. unread' \subseteq Live'
  BY <1>1, <1>2 DEF TypeOK, Live, Alive
<1>4. TypeOK'
  BY <1>1, <1>2, <1>3 DEF TypeOK, Requests
<1>5. SessionOK(s)'
  BY <1>2 DEF SessionOK
<1>6. ASSUME NEW r \in Sessions, r # s PROVE SessionOK(r)'
  <2>1. session'[r] = session[r] /\ session[r] \in SessionType
    BY <1>1, <1>2, <1>6
  <2>2. RoundFine(session[r], faults')
    BY <1>1, <2>1, MoreFaultsFine DEF SessionOK
  <2>3. ASSUME session[r].rallied > 0, faults' = 0
        PROVE  LastGoesTo(requests', session[r], r)
    <3>1. LastGoesTo(requests, session[r], r)
      BY <1>1, <2>3 DEF SessionOK
    <3> QED
      BY <1>6, <3>1
  <2> QED
    BY <2>1, <2>2, <2>3 DEF SessionOK
<1> QED
  BY <1>4, <1>5, <1>6 DEF IInv

\* A session that sends nothing.
LEMMA QuietMove ==
  ASSUME IInv, NEW s \in Sessions, NEW y \in SessionType,
         session' = [session EXCEPT ![s] = y],
         unread' \subseteq unread, s \in unread' => y.pc \in {"status", "commit", "spawn"},
         UNCHANGED <<game, last>>, running' \in BOOLEAN,
         RoundFine(y, faults),
         y.rallied > 0 /\ faults = 0 => LastGoesTo(requests, y, s)
  PROVE  IInv'
<1>1. TypeOK /\ faults' = faults /\ requests' = requests
      /\ UNCHANGED <<boss, rallies, items, summoned, orderly>>
  BY DEF IInv, game
<1>2. /\ faults' \in 0..MaxFaults /\ faults <= faults'
      /\ summoned' \in 0..MaxRequests
      /\ requests' \in Requests
  BY <1>1, YetiAssumption DEF TypeOK, Requests
<1> QED
  BY <1>1, <1>2, SessionMoves

LEMMA ExitsKeepsIInv ==
  ASSUME IInv, NEW s \in Sessions, Exits(s), UNCHANGED <<game, window>>
  PROVE  IInv'
<1> DEFINE y == [NewSession EXCEPT !.pc = "over"]
<1>1. session' = [session EXCEPT ![s] = y] /\ unread' = unread \ {s}
  BY DEF Exits
<1>2. y \in SessionType /\ Fresh(y)
  BY FreshSessions
<1> HIDE DEF y
<1>3. faults \in Nat /\ running' \in BOOLEAN /\ last' = last
  BY YetiAssumption DEF IInv, TypeOK, window
<1>4. RoundFine(y, faults) /\ ~(y.rallied > 0)
  BY <1>2, <1>3, FreshIsFine DEF Fresh
<1> QED
  BY <1>1, <1>2, <1>3, <1>4, QuietMove

\* What a session that read the status does next.  Only a target that is seen
\* for the first time is locked, and nothing was sent to it.
LEMMA ReadsKeepsIInv ==
  ASSUME IInv, NEW s \in Sessions, NEW y \in SessionType, Reads(s, y),
         y.pc \in {"status", "commit", "spawn"},
         RoundFine(y, faults),
         \/ y.rallied = 0
         \/ y.rallied = session[s].rallied /\ (session[s].locked # None => y.locked = session[s].locked)
  PROVE  IInv'
<1>1. /\ session' = [session EXCEPT ![s] = y] /\ unread' \subseteq unread
      /\ UNCHANGED <<game, window>> /\ UNCHANGED last
  BY DEF Reads, window
<1>2. running' \in BOOLEAN
  BY <1>1 DEF IInv, TypeOK, window
<1>3. ASSUME y.rallied > 0, faults = 0 PROVE LastGoesTo(requests, y, s)
  <2>1. SessionOK(s) /\ session[s].rallied > 0
    BY <1>3 DEF IInv
  <2>2. session[s].attempted
    BY <1>3, <2>1 DEF SessionOK, RoundFine, IInv, TypeOK, SessionType
  <2>3. y.locked = session[s].locked
    BY <1>3, <2>1, <2>2 DEF SessionOK, RoundFine
  <2> QED
    BY <1>3, <2>1, <2>3 DEF SessionOK, LastGoesTo
<1> QED
  BY <1>1, <1>2, <1>3, QuietMove

LEMMA ReadStatusStep ==
  ASSUME IInv, NEW s \in Sessions, ReadStatus(s)
  PROVE  IInv'
<1> DEFINE y == session[s]
           z == Seen(s)
<1>1. TypeOK /\ SessionOK(s) /\ y \in SessionType /\ RoundFine(y, faults)
      /\ faults \in Nat
  BY YetiAssumption DEF IInv, TypeOK, SessionOK
<1>2. y.pc = "status"
  BY DEF ReadStatus, TargetChanged, Completed, StillWaits, RallySeen,
         ChoosesRally, TargetMissing, ChoosesSummons, Reads, At
<1>3. /\ z \in SessionType /\ RoundFine(z, faults)
      /\ z.pc = "status" /\ z.rallied = y.rallied
      /\ y.locked # None => z.locked = y.locked
      /\ boss # None => z.locked # None
  BY <1>1, <1>2, SeenFine
<1> HIDE DEF y, z
<1>4. CASE TargetChanged(s)
  BY <1>4, ExitsKeepsIInv DEF TargetChanged
<1>5. CASE Completed(s)
  <2> DEFINE n == [NewSession EXCEPT !.pc = "status"]
  <2>1. Reads(s, n)
    BY <1>5 DEF Completed
  <2>2. n \in SessionType /\ Fresh(n) /\ n.pc = "status"
    BY FreshSessions
  <2> HIDE DEF n
  <2>3. RoundFine(n, faults) /\ n.rallied = 0
    BY <1>1, <2>2, FreshIsFine DEF Fresh
  <2> QED
    BY <2>1, <2>2, <2>3, ReadsKeepsIInv
<1>6. CASE StillWaits(s)
  <2>1. Reads(s, z)
    BY <1>6 DEF StillWaits, z
  <2> QED
    BY <1>3, <2>1, ReadsKeepsIInv DEF y
<1>7. CASE RallySeen(s)
  <2> DEFINE n == [z EXCEPT !.phase = "waiting_clear", !.confirmed = TRUE]
  <2>1. Reads(s, n)
    BY <1>7 DEF RallySeen, z
  <2>2. n \in SessionType /\ SameRound(z, n) /\ n.pc = "status"
    BY <1>3 DEF SessionType, SameRound, Phases
  <2> HIDE DEF n
  <2>3. RoundFine(n, faults)
    BY <1>3, <2>2, SameRoundFine
  <2> QED
    BY <1>3, <2>1, <2>2, <2>3, ReadsKeepsIInv DEF y, SameRound
<1>8. CASE ChoosesRally(s)
  <2>1. CASE z.attempted
    <3> DEFINE n == [z EXCEPT !.phase = "waiting_departure"]
    <3>1. Reads(s, n)
      BY <1>8, <2>1 DEF ChoosesRally, z
    <3>2. n \in SessionType /\ SameRound(z, n) /\ n.pc = "status"
      BY <1>3 DEF SessionType, SameRound, Phases
    <3> HIDE DEF n
    <3>3. RoundFine(n, faults)
      BY <1>3, <3>2, SameRoundFine
    <3> QED
      BY <1>3, <3>1, <3>2, <3>3, ReadsKeepsIInv DEF y, SameRound
  <2>2. CASE ~z.attempted
    <3> DEFINE n == [z EXCEPT !.phase = "target_locked", !.pc = "commit"]
    <3>1. Reads(s, n) /\ boss # None
      BY <1>8, <2>2 DEF ChoosesRally, z
    <3>2. /\ n \in SessionType /\ n.pc = "commit"
          /\ n.summons = z.summons /\ n.rallied = z.rallied
          /\ n.locked = z.locked
          /\ n.spawnSent = z.spawnSent /\ n.attempted = z.attempted
      BY <1>3 DEF SessionType, Phases
    <3> HIDE DEF n
    <3>3. RoundFine(n, faults)
      BY <1>3, <2>2, <3>1, <3>2 DEF RoundFine
    <3> QED
      BY <1>3, <3>1, <3>2, <3>3, ReadsKeepsIInv DEF y
  <2> QED
    BY <2>1, <2>2
<1>9. CASE TargetMissing(s)
  <2> DEFINE n == [y EXCEPT !.phase = "target_locked"]
  <2>1. Reads(s, n)
    BY <1>9 DEF TargetMissing, y
  <2>2. n \in SessionType /\ SameRound(y, n) /\ n.pc = "status"
    BY <1>1, <1>2 DEF SessionType, SameRound, Phases
  <2> HIDE DEF n
  <2>3. RoundFine(n, faults)
    BY <1>1, <2>2, SameRoundFine
  <2> QED
    BY <2>1, <2>2, <2>3, ReadsKeepsIInv DEF y, SameRound
<1>10. CASE ChoosesSummons(s)
  <2> DEFINE pc == IF y.spawnSent THEN "status" ELSE "spawn"
             n == [y EXCEPT !.phase = "spawning", !.pc = pc]
  <2>1. Reads(s, n) /\ y.locked = None
    BY <1>10 DEF ChoosesSummons, y
  <2>2. pc \in {"status", "spawn"} /\ (pc = "spawn" => ~y.spawnSent)
    OBVIOUS
  <2> HIDE DEF pc
  <2>3. /\ n \in SessionType /\ n.pc = pc
        /\ n.summons = y.summons /\ n.rallied = y.rallied
        /\ n.locked = y.locked
        /\ n.spawnSent = y.spawnSent /\ n.attempted = y.attempted
    BY <1>1, <2>2 DEF SessionType, Phases
  <2> HIDE DEF n
  <2>4. RoundFine(n, faults)
    BY <1>1, <2>1, <2>2, <2>3 DEF RoundFine
  <2> QED
    BY <2>1, <2>2, <2>3, <2>4, ReadsKeepsIInv DEF y
<1> QED
  BY <1>4, <1>5, <1>6, <1>7, <1>8, <1>9, <1>10 DEF ReadStatus

-----------------------------------------------------------------------------
(* A session sends. *)

LEMMA SomeoneSends ==
  ASSUME IInv, NEW s \in Sessions
  PROVE  /\ TypeOK /\ session[s] \in SessionType /\ session \in [Sessions -> SessionType]
         /\ RoundFine(session[s], faults) /\ faults \in Nat
         /\ requests \in Requests
         /\ session[s].rallied > 0 /\ faults = 0 => LastGoesTo(requests, session[s], s)
BY YetiAssumption DEF IInv, TypeOK, SessionOK, Requests

\* The three outcomes of a command that fires, each of which may count a fault.
LEMMA CommitStep ==
  ASSUME IInv, NEW s \in Sessions, Commit(s)
  PROVE  IInv'
<1> DEFINE x == session[s]
           sent == [x EXCEPT !.rallied = @ + 1]
           gone == [NewSession EXCEPT !.pc = "over"]
           done == Dispatched(sent)
<1>1. /\ TypeOK /\ x \in SessionType /\ RoundFine(x, faults) /\ faults \in Nat
      /\ requests \in Requests
  BY SomeoneSends
<1>2. /\ x.pc = "commit" /\ boss # None /\ boss \in Yetis
      /\ requests' = Append(requests, [to |-> boss, by |-> s])
      /\ UNCHANGED <<boss, rallies, items, summoned, orderly, last, running>>
  BY <1>1 DEF Commit, At, TypeOK, window
<1>3. /\ sent \in SessionType /\ sent.pc = "commit"
      /\ sent.rallied = x.rallied + 1 /\ sent.summons = x.summons
      /\ sent.locked = x.locked /\ sent.locked # None /\ ~sent.attempted
      /\ sent.spawnSent <=> x.spawnSent
  BY <1>1, <1>2 DEF SessionType, RoundFine
<1>4. /\ done \in SessionType /\ done.pc = "status"
      /\ done.rallied = x.rallied + 1 /\ done.summons = x.summons
      /\ done.locked = x.locked /\ done.attempted
      /\ done.spawnSent <=> x.spawnSent
  <2>1. sent \in SessionType /\ sent.rallied = x.rallied + 1
        /\ sent.summons = x.summons /\ sent.locked = x.locked
        /\ (sent.spawnSent <=> x.spawnSent)
    BY <1>3
  <2> HIDE DEF x, sent
  <2>2. done = [sent EXCEPT !.pc = "status", !.phase = "waiting_departure",
                            !.attempted = TRUE]
    BY DEF Dispatched
  <2> QED
    BY <2>1, <2>2 DEF SessionType, Phases
<1>5. gone \in SessionType /\ Fresh(gone) /\ gone.pc = "over"
  BY FreshSessions
<1>6. /\ \/ session' = [session EXCEPT ![s] = done] /\ x.locked = boss
            /\ UNCHANGED <<faults, unread>>
         \/ session' = [session EXCEPT ![s] = gone] /\ unread' = unread \ {s}
            /\ UNCHANGED faults
         \/ Fault /\ session' = [session EXCEPT ![s] = sent] /\ UNCHANGED unread
  BY DEF Commit, Exits
<1> HIDE DEF x, sent, gone, done
<1>7. requests' \in Requests
  BY <1>1, <1>2 DEF Requests
<1>8. \A r \in Sessions \ {s} :
        LastGoesTo(requests, session[r], r) => LastGoesTo(requests', session[r], r)
  BY <1>1, <1>2, AppendKeepsLast
<1>9. faults \in 0..MaxFaults /\ summoned' \in 0..MaxRequests
      /\ running' \in BOOLEAN
  BY <1>1, <1>2 DEF TypeOK
<1>10. CASE session' = [session EXCEPT ![s] = done] /\ x.locked = boss
             /\ UNCHANGED <<faults, unread>>
  <2>1. RoundFine(done, faults')
    BY <1>1, <1>2, <1>3, <1>4, <1>10 DEF RoundFine, SessionType
  <2>2. LastGoesTo(requests', done, s)
    BY <1>1, <1>2, <1>4, <1>10, AppendKeepsLast
  <2>3. /\ unread' \subseteq unread
        /\ UNCHANGED <<boss, rallies, items, orderly, last>>
        /\ faults' \in 0..MaxFaults /\ faults <= faults'
    BY <1>1, <1>2, <1>9, <1>10
  <2> QED
    BY <1>4, <1>7, <1>8, <1>9, <1>10, <2>1, <2>2, <2>3, SessionMoves
<1>11. CASE session' = [session EXCEPT ![s] = gone] /\ unread' = unread \ {s}
             /\ UNCHANGED faults
  <2>1. RoundFine(gone, faults') /\ ~(gone.rallied > 0)
    BY <1>1, <1>5, <1>11, FreshIsFine DEF Fresh
  <2>2. /\ unread' \subseteq unread
        /\ UNCHANGED <<boss, rallies, items, orderly, last>>
        /\ faults' \in 0..MaxFaults /\ faults <= faults'
    BY <1>1, <1>2, <1>9, <1>11
  <2> QED
    BY <1>5, <1>7, <1>8, <1>9, <1>11, <2>1, <2>2, SessionMoves
<1>12. CASE Fault /\ session' = [session EXCEPT ![s] = sent] /\ UNCHANGED unread
  <2>1. faults' = faults + 1 /\ faults' \in 0..MaxFaults
    BY <1>9, <1>12, YetiAssumption DEF Fault
  <2>2. RoundFine(sent, faults')
    BY <1>1, <1>2, <1>3, <2>1 DEF RoundFine, SessionType
  <2>3. /\ unread' \subseteq unread
        /\ UNCHANGED <<boss, rallies, items, orderly, last>>
        /\ faults' \in 0..MaxFaults /\ faults <= faults'
    BY <1>1, <1>2, <1>12, <2>1
  <2>4. ~(faults' = 0)
    BY <1>1, <2>1
  <2> QED
    BY <1>3, <1>7, <1>8, <1>9, <1>12, <2>2, <2>3, <2>4, SessionMoves
<1> QED
  BY <1>6, <1>10, <1>11, <1>12

LEMMA SpawnSentStep ==
  ASSUME IInv, NEW s \in Sessions, SpawnSent(s)
  PROVE  IInv'
<1> DEFINE x == session[s]
           sent == [x EXCEPT !.summons = @ + 1]
           done == [sent EXCEPT !.pc = "status", !.spawnSent = TRUE]
<1>1. /\ TypeOK /\ x \in SessionType /\ RoundFine(x, faults) /\ faults \in Nat
      /\ requests \in Requests
      /\ x.rallied > 0 /\ faults = 0 => LastGoesTo(requests, x, s)
  BY SomeoneSends
<1>2. /\ x.pc = "spawn" /\ summoned' = summoned + 1 /\ summoned < MaxRequests
      /\ UNCHANGED <<boss, rallies, items, requests, orderly, unread, last, running>>
  BY DEF SpawnSent, At, window
<1>3. /\ sent \in SessionType /\ sent.pc = "spawn"
      /\ sent.rallied = x.rallied /\ sent.summons = x.summons + 1
      /\ sent.locked = x.locked
      /\ sent.attempted <=> x.attempted
  BY <1>1, <1>2 DEF SessionType
<1>4. sent.spawnSent <=> x.spawnSent
  BY <1>1 DEF SessionType
<1>5. /\ done \in SessionType /\ done.pc = "status"
      /\ done.rallied = x.rallied /\ done.summons = x.summons + 1
      /\ done.locked = x.locked
      /\ done.attempted <=> x.attempted
  <2>1. sent \in SessionType /\ sent.rallied = x.rallied
        /\ sent.summons = x.summons + 1 /\ sent.locked = x.locked
        /\ (sent.attempted <=> x.attempted)
    BY <1>3
  <2> HIDE DEF x, sent
  <2> QED
    BY <2>1 DEF SessionType
<1>6. done.spawnSent
  <2> HIDE DEF sent
  <2> QED
    BY <1>3 DEF SessionType
<1>7. \/ session' = [session EXCEPT ![s] = done] /\ UNCHANGED faults
      \/ Fault /\ session' = [session EXCEPT ![s] = sent]
  BY DEF SpawnSent
<1> HIDE DEF x, sent, done
<1>8. /\ faults \in 0..MaxFaults /\ summoned' \in 0..MaxRequests
      /\ running' \in BOOLEAN /\ requests' \in Requests
  BY <1>1, <1>2, YetiAssumption DEF TypeOK
<1>9. x.summons \in Nat /\ x.rallied \in Nat
  BY <1>1 DEF SessionType
<1>10. CASE session' = [session EXCEPT ![s] = done] /\ UNCHANGED faults
  <2>1. RoundFine(done, faults')
    BY <1>1, <1>2, <1>5, <1>6, <1>9, <1>10 DEF RoundFine
  <2>2. done.rallied > 0 /\ faults' = 0 => LastGoesTo(requests', done, s)
    BY <1>1, <1>2, <1>5, <1>10 DEF LastGoesTo
  <2>3. /\ unread' \subseteq unread
        /\ UNCHANGED <<boss, rallies, items, orderly, last>>
        /\ faults' \in 0..MaxFaults /\ faults <= faults'
    BY <1>1, <1>2, <1>8, <1>10
  <2> QED
    BY <1>2, <1>5, <1>8, <1>10, <2>1, <2>2, <2>3, SessionMoves
<1>11. CASE Fault /\ session' = [session EXCEPT ![s] = sent]
  <2>1. faults' = faults + 1 /\ faults' \in 0..MaxFaults
    BY <1>8, <1>11, YetiAssumption DEF Fault
  <2>2. RoundFine(sent, faults')
    BY <1>1, <1>2, <1>3, <1>4, <1>9, <2>1 DEF RoundFine
  <2>3. /\ unread' \subseteq unread
        /\ UNCHANGED <<boss, rallies, items, orderly, last>>
        /\ faults' \in 0..MaxFaults /\ faults <= faults'
    BY <1>1, <1>2, <1>11, <2>1
  <2>4. ~(faults' = 0)
    BY <1>1, <2>1
  <2> QED
    BY <1>2, <1>3, <1>8, <1>11, <2>2, <2>3, <2>4, SessionMoves
<1> QED
  BY <1>7, <1>10, <1>11

\* Nothing was sent: the session asks again, or takes the request as made.
LEMMA BlockedStep ==
  ASSUME IInv, NEW s \in Sessions, CommitBlocked(s) \/ SpawnRefused(s)
  PROVE  IInv'
<1> DEFINE x == session[s]
           again == [x EXCEPT !.pc = "status"]
           marked == [x EXCEPT !.pc = "status", !.spawnSent = TRUE]
<1>1. /\ x \in SessionType /\ RoundFine(x, faults) /\ faults \in Nat
      /\ x.rallied > 0 /\ faults = 0 => LastGoesTo(requests, x, s)
      /\ session \in [Sessions -> SessionType]
  BY SomeoneSends
<1>2. /\ UNCHANGED <<game, unread, last>> /\ running' \in BOOLEAN
  BY DEF CommitBlocked, SpawnRefused, window, IInv, TypeOK
<1>3. CASE CommitBlocked(s)
  <2>1. session' = [session EXCEPT ![s] = again]
    BY <1>1, <1>3 DEF CommitBlocked
  <2>2. again \in SessionType /\ SameRound(x, again) /\ again.pc = "status"
    BY <1>1 DEF SessionType, SameRound
  <2> HIDE DEF x, again
  <2>3. RoundFine(again, faults)
    BY <1>1, <2>2, SameRoundFine
  <2>4. again.rallied > 0 /\ faults = 0 => LastGoesTo(requests, again, s)
    BY <1>1, <2>2 DEF SameRound, LastGoesTo
  <2> QED
    BY <1>2, <2>1, <2>2, <2>3, <2>4, QuietMove
<1>4. CASE SpawnRefused(s)
  <2>1. session' = [session EXCEPT ![s] = marked]
    BY <1>1, <1>4 DEF SpawnRefused
  <2>2. /\ marked \in SessionType /\ marked.pc = "status" /\ marked.spawnSent
        /\ marked.summons = x.summons /\ marked.rallied = x.rallied
        /\ marked.locked = x.locked
    BY <1>1 DEF SessionType
  <2>3. marked.attempted <=> x.attempted
    BY <1>1 DEF SessionType
  <2> HIDE DEF x, marked
  <2>4. RoundFine(marked, faults)
    BY <1>1, <2>2, <2>3 DEF RoundFine
  <2>5. marked.rallied > 0 /\ faults = 0 => LastGoesTo(requests, marked, s)
    BY <1>1, <2>2 DEF LastGoesTo
  <2> QED
    BY <1>2, <2>1, <2>2, <2>4, <2>5, QuietMove
<1> QED
  BY <1>3, <1>4

LEMMA SendStepStep ==
  ASSUME IInv, NEW s \in Sessions, SendStep(s)
  PROVE  IInv'
<1>1. CASE CommitTargetChanged(s) \/ NothingToSend(s)
  BY <1>1, ExitsKeepsIInv DEF CommitTargetChanged, NothingToSend
<1> QED
  BY <1>1, CommitStep, SpawnSentStep, BlockedStep DEF SendStep

-----------------------------------------------------------------------------
(* The game and the window. *)

LEMMA GameStepStep ==
  ASSUME IInv, GameStep
  PROVE  IInv'
<1>1. /\ TypeOK /\ requests \in Requests
      /\ \A s \in Sessions : SessionOK(s)
  BY DEF IInv, TypeOK, Requests
<1>2. UNCHANGED <<faults, orderly, session, last, running>>
  BY DEF GameStep, SummonsAnswered, RallyAnswered, RallyEnds, BossLeaves,
         PlayerSummons, PlayerRallies, window
<1>3. Live' = Live /\ unread' \subseteq Live'
  <2>1. Live' = Live
    BY <1>2 DEF Live, Alive
  <2> QED
    BY <1>1, <2>1 DEF TypeOK, GameStep, SummonsAnswered, RallyAnswered, RallyEnds,
         BossLeaves, PlayerSummons, PlayerRallies, Changes
<1>4. /\ boss' \in Yetis \union {None} /\ rallies' \in Nat
      /\ items' \in 0..MaxItems /\ summoned' \in 0..MaxRequests
  <2>1. MaxItems \in Nat /\ MaxRequests \in Nat
    BY YetiAssumption
  <2>2. CASE SummonsAnswered
    BY <1>1, <2>1, <2>2 DEF SummonsAnswered, TypeOK
  <2>3. CASE RallyAnswered
    BY <1>1, <2>1, <2>3 DEF RallyAnswered, TypeOK
  <2>4. CASE RallyEnds
    BY <1>1, <2>1, <2>4 DEF RallyEnds, TypeOK, answers
  <2>5. CASE BossLeaves
    BY <1>1, <2>1, <2>5 DEF BossLeaves, TypeOK, answers
  <2>6. CASE PlayerSummons
    BY <1>1, <2>1, <2>6 DEF PlayerSummons, TypeOK
  <2>7. CASE PlayerRallies
    BY <1>1, <2>1, <2>7 DEF PlayerRallies, TypeOK, answers
  <2> QED
    BY <2>2, <2>3, <2>4, <2>5, <2>6, <2>7 DEF GameStep
<1>5. requests' = requests \/ (requests # <<>> /\ requests' = Tail(requests))
  BY DEF GameStep, SummonsAnswered, RallyAnswered, RallyEnds, BossLeaves,
         PlayerSummons, PlayerRallies, answers
<1>6. requests' \in Requests
  BY <1>1, <1>5 DEF Requests
<1>7. TypeOK'
  BY <1>1, <1>2, <1>3, <1>4, <1>6 DEF TypeOK, Requests
<1>8. ASSUME NEW s \in Sessions PROVE SessionOK(s)'
  <2>1. LastGoesTo(requests, session[s], s) => LastGoesTo(requests', session[s], s)
    BY <1>1, <1>5, TailKeepsLast
  <2> QED
    BY <1>1, <1>2, <2>1 DEF SessionOK
<1> QED
  BY <1>7, <1>8 DEF IInv

\* Sessions that go on with the round they are in.
LEMMA SessionsGoOn ==
  ASSUME IInv, UNCHANGED game,
         session' \in [Sessions -> SessionType],
         \A s \in Sessions : SameRound(session[s], session'[s]),
         unread' \subseteq Live', last' \in 0..MaxSessions, running' \in BOOLEAN
  PROVE  IInv'
<1>1. /\ TypeOK /\ \A s \in Sessions : SessionOK(s)
      /\ UNCHANGED <<boss, rallies, items, summoned, requests, faults, orderly>>
  BY DEF IInv, game
<1>2. TypeOK'
  BY <1>1 DEF TypeOK
<1>3. ASSUME NEW s \in Sessions PROVE SessionOK(s)'
  <2>1. RoundFine(session'[s], faults)
    BY <1>1, SameRoundFine DEF SessionOK
  <2>2. LastGoesTo(requests, session[s], s) => LastGoesTo(requests, session'[s], s)
    BY DEF SameRound, LastGoesTo
  <2>3. session'[s].rallied = session[s].rallied
    BY DEF SameRound
  <2> QED
    BY <1>1, <2>1, <2>2, <2>3 DEF SessionOK
<1> QED
  BY <1>2, <1>3 DEF IInv

LEMMA WindowStep ==
  ASSUME IInv, \/ StartYeti \/ StopYeti
               \/ \E s \in Sessions : YetiLoopFinished(s)
  PROVE  IInv'
<1>1. /\ TypeOK /\ session \in [Sessions -> SessionType] /\ unread \subseteq Live
      /\ last \in 0..MaxSessions /\ running \in BOOLEAN /\ MaxSessions \in Nat
  BY YetiAssumption DEF IInv, TypeOK
<1>2. CASE StartYeti
  <2>1. last' \in Sessions /\ last' \in 0..MaxSessions /\ running' \in BOOLEAN
        /\ UNCHANGED game
    BY <1>1, <1>2 DEF StartYeti, Sessions
  <2> DEFINE z(s) == IF s = last' THEN [session[s] EXCEPT !.pc = "status"]
                                  ELSE session[s]
  <2>2. session' = [s \in Sessions |-> z(s)]
    BY <1>1, <1>2, <2>1 DEF StartYeti
  <2>3. ASSUME NEW s \in Sessions
        PROVE  /\ z(s) \in SessionType /\ SameRound(session[s], z(s))
               /\ z(s).pc = IF s = last' THEN "status" ELSE session[s].pc
    BY <1>1 DEF SessionType, SameRound
  <2> HIDE DEF z
  <2>4. Live \subseteq Live' /\ last' \in Live'
    BY <2>1, <2>2, <2>3 DEF Live, Alive
  <2>5. unread' \subseteq Live'
    BY <1>1, <1>2, <2>4 DEF StartYeti
  <2> QED
    BY <2>1, <2>2, <2>3, <2>5, SessionsGoOn
<1>3. CASE StopYeti
  <2> DEFINE z(s) == [session[s] EXCEPT !.stop = @ \/ Alive(s)]
  <2>1. /\ session' = [s \in Sessions |-> z(s)]
        /\ UNCHANGED <<game, unread, last>> /\ running' \in BOOLEAN
    BY <1>3 DEF StopYeti
  <2>2. ASSUME NEW s \in Sessions
        PROVE  /\ z(s) \in SessionType /\ SameRound(session[s], z(s))
               /\ z(s).pc = session[s].pc
    <3>1. Alive(s) \in BOOLEAN
      BY DEF Alive
    <3>2. session[s].stop \in BOOLEAN /\ (session[s].stop \/ Alive(s)) \in BOOLEAN
      BY <1>1, <3>1 DEF SessionType
    <3> QED
      BY <1>1, <3>2 DEF SessionType, SameRound
  <2> HIDE DEF z
  <2>3. Live' = Live
    BY <2>1, <2>2 DEF Live, Alive
  <2> QED
    BY <1>1, <2>1, <2>2, <2>3, SessionsGoOn
<1>4. ASSUME NEW r \in Sessions, YetiLoopFinished(r) PROVE IInv'
  <2> DEFINE z(s) == IF s = r THEN [session[s] EXCEPT !.pc = "drained"]
                              ELSE session[s]
  <2>1. /\ session' = [s \in Sessions |-> z(s)] /\ session[r].pc = "over"
        /\ UNCHANGED <<game, unread, last>> /\ running' \in BOOLEAN
    BY <1>1, <1>4 DEF YetiLoopFinished, At
  <2>2. ASSUME NEW s \in Sessions
        PROVE  /\ z(s) \in SessionType /\ SameRound(session[s], z(s))
               /\ z(s).pc = IF s = r THEN "drained" ELSE session[s].pc
    BY <1>1 DEF SessionType, SameRound
  <2> HIDE DEF z
  <2>3. Live' = Live
    BY <2>1, <2>2 DEF Live, Alive
  <2> QED
    BY <1>1, <2>1, <2>2, <2>3, SessionsGoOn
<1> QED
  BY <1>2, <1>3, <1>4

-----------------------------------------------------------------------------
(* The theorems. *)

LEMMA InitIInv == Init => IInv
<1> SUFFICES ASSUME Init PROVE IInv
  OBVIOUS
<1>1. NewSession \in SessionType /\ Fresh(NewSession)
  BY NewSessionTyped DEF Fresh
<1>2. TypeOK
  <2>1. requests \in Seq([to : Yetis, by : Sessions]) /\ unread \subseteq Live
    BY DEF Init
  <2>2. session \in [Sessions -> SessionType]
    BY <1>1 DEF Init
  <2>3. /\ MaxItems \in Nat /\ MaxRequests \in Nat /\ MaxFaults \in Nat
        /\ MaxSessions \in Nat
    BY YetiAssumption
  <2>4. items \in 0..MaxItems /\ last \in 0..MaxSessions
        /\ summoned \in 0..MaxRequests /\ faults \in 0..MaxFaults
    BY <2>3 DEF Init
  <2> QED
    BY <2>1, <2>2, <2>4 DEF Init, TypeOK
<1>3. ASSUME NEW s \in Sessions PROVE SessionOK(s)
  <2>1. session[s] = NewSession /\ faults = 0
    BY DEF Init
  <2>2. RoundFine(NewSession, 0)
    BY <1>1, FreshIsFine
  <2> QED
    BY <1>1, <2>1, <2>2 DEF SessionOK, Fresh
<1> QED
  BY <1>2, <1>3 DEF IInv

LEMMA NextKeepsIInv == IInv /\ [Next]_vars => IInv'
<1> SUFFICES ASSUME IInv, [Next]_vars PROVE IInv'
  OBVIOUS
<1>1. CASE UNCHANGED vars
  <2>1. TypeOK'
    BY <1>1 DEF IInv, TypeOK, vars, Live, Alive
  <2>2. ASSUME NEW s \in Sessions PROVE SessionOK(s)'
    BY <1>1 DEF IInv, SessionOK, vars
  <2> QED
    BY <2>1, <2>2 DEF IInv
<1>2. CASE GameStep
  BY <1>2, GameStepStep
<1>3. CASE StartYeti \/ StopYeti
  BY <1>3, WindowStep
<1>4. ASSUME NEW s \in Sessions,
             ReadStatus(s) \/ SendStep(s) \/ CliFails(s) \/ Stopped(s)
               \/ YetiLoopFinished(s)
      PROVE  IInv'
  <2>1. CASE ReadStatus(s)
    BY <2>1, ReadStatusStep
  <2>2. CASE SendStep(s)
    BY <2>2, SendStepStep
  <2>3. CASE CliFails(s) \/ Stopped(s)
    BY <2>3, ExitsKeepsIInv DEF CliFails, Stopped
  <2>4. CASE YetiLoopFinished(s)
    BY <2>4, WindowStep
  <2> QED
    BY <1>4, <2>1, <2>2, <2>3, <2>4
<1> QED
  BY <1>1, <1>2, <1>3, <1>4 DEF Next

LEMMA Invariance == Spec => []IInv
BY InitIInv, NextKeepsIInv, PTL DEF Spec

\* Every reachable state has the types the code gives it.
THEOREM Types == Spec => []TypeOK
<1>1. IInv => TypeOK
  BY DEF IInv
<1> QED
  BY <1>1, Invariance, PTL

\* However the game, the player and a second session interleave with it, a
\* session of the loop pays for one summons and sends one rally a round, and
\* each fault of the bridge repeats one of them at most (cli.py 3997-4048).
THEOREM OneOfEachARound == Spec => []OncePerRound
<1>1. IInv => OncePerRound
  BY DEF IInv, SessionOK, RoundFine, OncePerRound
<1> QED
  BY <1>1, Invariance, PTL

\* The last rally that a session which goes on has sent in its round is for the
\* yeti it has locked, whatever was summoned meanwhile (cli.py 3950-3968).
THEOREM LastRallyIsForTheLock == Spec => []RalliesGoToTheLock
<1>1. IInv => RalliesGoToTheLock
  BY DEF IInv, SessionOK, LastGoesTo, RalliesGoToTheLock, Live
<1> QED
  BY <1>1, Invariance, PTL

=============================================================================
