---------------------------- MODULE WorldLoopProofs ----------------------------
(***************************************************************************)
(* Theorems of WorldLoop for every number of monsters, slots, marches,     *)
(* sessions and requests.                                                  *)
(*                                                                         *)
(* The first invariant is about one session and its game: what a session   *)
(* tracks never exceeds what it counts, and what it tracks on the road was *)
(* recorded by whichever request is the last.  The second is about the     *)
(* sessions and the window: a session that runs and was not stopped is the *)
(* one the window shows, unless it was stopped before it had a process or  *)
(* its queue was taken by one that was; a queue that was not taken ends    *)
(* with at most one error, and the window and that queue together hold     *)
(* what the session verified.                                              *)
(***************************************************************************)
EXTENDS WorldLoop, FiniteSetTheorems, TLAPS

SessionType ==
  [pc: Places, stop: BOOLEAN, active: SUBSET Marches, count: 0..Slots,
   aim: Monsters \union {None}, sent: SUBSET Marches, out: Sessions,
   missed: BOOLEAN, shared: BOOLEAN]

Searches ==
  [listens: BOOLEAN, at: Monsters \union {None}, before: SUBSET Marches,
   requested: BOOLEAN]

EventType == [event: {"dispatch", "error"}, march: 0..MaxMarches]

-----------------------------------------------------------------------------
(* The invariant of the slots. *)

\* A session y counts at least the marches it tracks, and searches for one
\* more only if there is a slot for it.
Fits(y) ==
  /\ y.active \subseteq DOMAIN march
  /\ y.sent \subseteq DOMAIN march
  /\ y.pc \in {"submitted", "starting"} => y.active = {}
  /\ Cardinality(y.active) <= y.count
  /\ y.pc \in {"searching", "found", "verifying"} => Cardinality(y.active) < Slots

NotNew(y) ==
  y.pc = "verifying" /\ search # None /\ search.requested
    => y.active \cap OnRoad \subseteq search.before

\* A session that was not started yet.
Blank(y) == y.pc = "none" /\ ~y.stop /\ y.active = {} /\ y.sent = {} /\ y.count = 0

Unborn(s) == s > last => Blank(session[s]) /\ events[s] = <<>>

\* A callback is used up by the answer that brought a monster.
Answered == Prepared => search.at # None

SlotInv ==
  /\ TypeOK
  /\ Answered
  /\ Cardinality(OnRoad) <= Slots
  /\ running => last \in Sessions
  /\ \A s \in Sessions : Unborn(s) /\ Fits(session[s]) /\ NotNew(session[s])

-----------------------------------------------------------------------------
(* The invariant of the window. *)

\* The marches of the dispatches in a queue, each of which is there once.
InQueue(q) == {q[i].march : i \in DOMAIN q} \ {0}

NoFailure(q) == \A i \in DOMAIN q : q[i] # Failure

\* An error is the last event of its session.
QueueOK(q) ==
  /\ \A i \in DOMAIN q : /\ q[i] = Failure \/ \E m \in Marches : q[i] = Dispatch(m)
                         /\ q[i] = Failure => i = Len(q)
  /\ \A i, j \in DOMAIN q : q[i].march = q[j].march => i = j

\* What is known of session s from where it is.  Its events go to its own
\* queue, to one that nobody reads, or to one that is marked as shared.
Placed(s) ==
  /\ At(s, {"submitted"}) =>
       session[s].sent = {} /\ (Current(s) \/ session[s].missed)
  /\ ~Current(s) => session[s].sent = {}
  /\ Alive(s) =>
       /\ session[s].out <= last /\ (s = last => session[s].out = s)
       /\ running /\ s # last /\ session[s].out = last => session[last].shared
       /\ ~session[s].stop => Current(s) \/ session[s].missed \/ session[s].shared
       /\ session[s].sent \cap OnRoad \subseteq session[s].active
  /\ Current(s) /\ ~session[s].shared =>
       /\ At(s, {"submitted"}) => events[s] = <<>>
       /\ Alive(s) => NoFailure(events[s])

\* What the window shows and what it has still to read.
Shown ==
  running =>
    /\ ~At(last, {"none", "drained"})
    /\ ~session[last].shared =>
         /\ QueueOK(events[last])
         /\ seen \union InQueue(events[last]) = session[last].sent
         /\ seen \cap InQueue(events[last]) = {}

WindowInv == Shown /\ \A s \in Sessions : Placed(s)

-----------------------------------------------------------------------------
(* Marches. *)

LEMMA Constants ==
  /\ Slots \in Nat /\ Slots > 0 /\ MaxMarches \in Nat /\ MaxRequests \in Nat
  /\ MaxSessions \in Nat /\ MaxSessions > 0
  /\ MaxFaults \in Nat /\ None \notin Monsters
  /\ Marches = 1..MaxMarches /\ Sessions = 1..MaxSessions
BY WorldAssumption DEF Marches, Sessions

LEMMA Road ==
  ASSUME TypeOK
  PROVE  /\ Len(march) \in Nat /\ DOMAIN march = 1..Len(march)
         /\ DOMAIN march \subseteq Marches
         /\ OnRoad \subseteq DOMAIN march
         /\ IsFiniteSet(OnRoad) /\ Cardinality(OnRoad) \in Nat
<1>1. /\ Len(march) \in Nat /\ DOMAIN march = 1..Len(march)
      /\ Len(march) <= MaxMarches
  BY DEF TypeOK
<1>2. DOMAIN march \subseteq Marches
  BY <1>1, Constants
<1>3. OnRoad \subseteq 1..Len(march)
  BY <1>1 DEF OnRoad
<1>4. IsFiniteSet(1..Len(march))
  BY <1>1, FS_Interval
<1>5. IsFiniteSet(OnRoad)
  BY <1>3, <1>4, FS_Subset
<1> QED
  BY <1>1, <1>2, <1>3, <1>5, FS_CardinalityType

\* A set of marches is finite.
LEMMA FewMarches ==
  ASSUME NEW S \in SUBSET Marches
  PROVE  IsFiniteSet(S) /\ Cardinality(S) \in Nat
<1>1. IsFiniteSet(1..MaxMarches)
  BY Constants, FS_Interval
<1>2. IsFiniteSet(S)
  BY <1>1, Constants, FS_Subset
<1> QED
  BY <1>2, FS_CardinalityType

\* What the game does to the marches: none leaves the sequence, and one that
\* is home stays there.
MarchesMove ==
  /\ march' \in Seq(Monsters \union {"own", "home"}) /\ Len(march') <= MaxMarches
  /\ DOMAIN march \subseteq DOMAIN march'
  /\ OnRoad' \cap DOMAIN march \subseteq OnRoad
  /\ Cardinality(OnRoad') <= Slots

LEMMA Creates ==
  ASSUME TypeOK, MayCreate, NEW x \in Monsters \union {"own"},
         march' = Append(march, x)
  PROVE  MarchesMove
<1> DEFINE n == Len(march)
<1>1. /\ n \in Nat /\ DOMAIN march = 1..n /\ n < MaxMarches
      /\ IsFiniteSet(OnRoad) /\ Cardinality(OnRoad) \in Nat
      /\ Cardinality(OnRoad) < Slots
      /\ march \in Seq(Monsters \union {"own", "home"})
  BY Road DEF MayCreate, TypeOK
<1>2. /\ march' \in Seq(Monsters \union {"own", "home"}) /\ Len(march') = n + 1
      /\ DOMAIN march' = 1..(n + 1)
      /\ \A i \in 1..n : march'[i] = march[i]
  BY <1>1
<1> HIDE DEF n
<1>3. OnRoad' \cap DOMAIN march \subseteq OnRoad
  BY <1>1, <1>2 DEF OnRoad
<1>4. OnRoad' \subseteq OnRoad \union {n + 1}
  BY <1>1, <1>2 DEF OnRoad
<1>5. /\ IsFiniteSet(OnRoad \union {n + 1})
      /\ Cardinality(OnRoad \union {n + 1}) <= Cardinality(OnRoad) + 1
      /\ Cardinality(OnRoad \union {n + 1}) \in Nat
  <2>1. /\ IsFiniteSet(OnRoad \union {n + 1})
        /\ \/ Cardinality(OnRoad \union {n + 1}) = Cardinality(OnRoad)
           \/ Cardinality(OnRoad \union {n + 1}) = Cardinality(OnRoad) + 1
    BY <1>1, FS_AddElement
  <2> QED
    BY <1>1, <2>1
<1>6. IsFiniteSet(OnRoad') /\ Cardinality(OnRoad') <= Cardinality(OnRoad \union {n + 1})
      /\ Cardinality(OnRoad') \in Nat
  BY <1>4, <1>5, FS_Subset, FS_CardinalityType
<1>7. Cardinality(OnRoad') <= Slots
  BY <1>1, <1>5, <1>6, Constants
<1> QED
  BY <1>1, <1>2, <1>3, <1>7, Constants DEF MarchesMove

LEMMA Returns ==
  ASSUME TypeOK, Cardinality(OnRoad) <= Slots, NEW m \in DOMAIN march, MarchReturns(m)
  PROVE  MarchesMove
<1>1. /\ march' = [march EXCEPT ![m] = "home"]
      /\ march \in Seq(Monsters \union {"own", "home"}) /\ Len(march) <= MaxMarches
      /\ IsFiniteSet(OnRoad) /\ Cardinality(OnRoad) \in Nat
      /\ Len(march) \in Nat /\ DOMAIN march = 1..Len(march)
  BY Road DEF MarchReturns, TypeOK
<1>2. /\ march' \in Seq(Monsters \union {"own", "home"})
      /\ Len(march') = Len(march) /\ DOMAIN march' = DOMAIN march
  BY <1>1
<1>3. OnRoad' \subseteq OnRoad
  BY <1>1, <1>2 DEF OnRoad
<1>4. Cardinality(OnRoad') <= Cardinality(OnRoad) /\ Cardinality(OnRoad') \in Nat
  BY <1>1, <1>3, FS_Subset, FS_CardinalityType
<1>5. Cardinality(OnRoad') <= Slots
  BY <1>1, <1>4, Constants
<1> QED
  BY <1>1, <1>2, <1>3, <1>5 DEF MarchesMove

LEMMA MarchesStep ==
  ASSUME TypeOK, Cardinality(OnRoad) <= Slots, Environment
  PROVE  MarchesMove
<1>1. CASE march' = march
  BY <1>1, Road DEF MarchesMove, OnRoad, TypeOK
<1>2. CASE ServerAnswersRequest /\ march' # march
  <2>1. Head(requests) \in Monsters
    BY <1>2 DEF ServerAnswersRequest, TypeOK
  <2> QED
    BY <1>2, <2>1, Creates DEF ServerAnswersRequest
<1>3. CASE PlayerMarches
  BY <1>3, Creates DEF PlayerMarches
<1>4. CASE \E m \in DOMAIN march : MarchReturns(m)
  BY <1>4, Returns
<1> QED
  BY <1>1, <1>2, <1>3, <1>4 DEF Environment, GameAnswersSearch, LuaReloads

-----------------------------------------------------------------------------
(* Queues of events. *)

Queues == Seq(EventType)

LEMMA EventsTyped ==
  /\ Failure \in EventType /\ Failure.march = 0
  /\ \A m \in Marches : /\ Dispatch(m) \in EventType /\ Dispatch(m).march = m
                        /\ Dispatch(m) # Failure
BY Constants DEF Failure, Dispatch, EventType

LEMMA EmptyQueue == QueueOK(<<>>) /\ InQueue(<<>>) = {} /\ NoFailure(<<>>)
BY DEF QueueOK, InQueue, NoFailure

\* A march that is not in the queue yet is added, or the error that ends it.
LEMMA AppendEvent ==
  ASSUME NEW q \in Queues, QueueOK(q), NoFailure(q), NEW e,
         e = Failure \/ \E m \in Marches \ InQueue(q) : e = Dispatch(m)
  PROVE  /\ Append(q, e) \in Queues /\ QueueOK(Append(q, e))
         /\ InQueue(Append(q, e)) = InQueue(q) \union ({e.march} \ {0})
         /\ e # Failure => NoFailure(Append(q, e))
<1> DEFINE p == Append(q, e)
           n == Len(q)
<1>1. e \in EventType /\ n \in Nat /\ DOMAIN q = 1..n
  BY EventsTyped DEF Queues
<1>2. /\ p \in Queues /\ DOMAIN p = 1..(n + 1) /\ Len(p) = n + 1
      /\ p[n + 1] = e /\ \A i \in 1..n : p[i] = q[i]
  BY <1>1 DEF Queues
<1> HIDE DEF p, n
<1>3. \A i \in 1..n : \E m \in Marches : q[i] = Dispatch(m) /\ q[i].march = m
  BY <1>1, EventsTyped DEF QueueOK, NoFailure
<1>4. \A i \in 1..n : q[i].march \in InQueue(q) /\ q[i].march # 0
  <2>1. 0 \notin Marches
    BY Constants
  <2>2. \A i \in 1..n : q[i].march # 0
    BY <1>3, <2>1
  <2> QED
    BY <1>1, <2>2 DEF InQueue
<1>5. \A i \in 1..n : q[i].march # e.march
  BY <1>4, EventsTyped
<1>6. \A i, j \in DOMAIN p : p[i].march = p[j].march => i = j
  <2> SUFFICES ASSUME NEW i \in 1..(n + 1), NEW j \in 1..(n + 1), p[i].march = p[j].march
               PROVE  i = j
    BY <1>2
  <2>1. CASE i \in 1..n /\ j \in 1..n
    BY <1>1, <1>2, <2>1 DEF QueueOK
  <2>2. CASE i = n + 1 \/ j = n + 1
    BY <1>1, <1>2, <1>5, <2>2
  <2> QED
    BY <1>1, <2>1, <2>2
<1>7. \A i \in DOMAIN p : /\ p[i] = Failure \/ \E m \in Marches : p[i] = Dispatch(m)
                          /\ p[i] = Failure => i = Len(p)
  <2> SUFFICES ASSUME NEW i \in 1..(n + 1)
               PROVE  /\ p[i] = Failure \/ \E m \in Marches : p[i] = Dispatch(m)
                      /\ p[i] = Failure => i = n + 1
    BY <1>2
  <2>1. CASE i \in 1..n
    BY <1>1, <1>2, <1>3, <2>1, EventsTyped
  <2>2. CASE i = n + 1
    BY <1>2, <2>2
  <2> QED
    BY <1>1, <2>1, <2>2
<1>8. InQueue(p) = InQueue(q) \union ({e.march} \ {0})
  BY <1>1, <1>2 DEF InQueue
<1>9. e # Failure => NoFailure(p)
  <2> SUFFICES ASSUME e # Failure, NEW i \in 1..(n + 1) PROVE p[i] # Failure
    BY <1>2 DEF NoFailure
  <2>1. CASE i \in 1..n
    BY <1>1, <1>2, <2>1 DEF NoFailure
  <2> QED
    BY <1>1, <1>2, <2>1
<1> QED
  BY <1>2, <1>6, <1>7, <1>8, <1>9 DEF QueueOK, p

\* The first event is read.
LEMMA ReadEvent ==
  ASSUME NEW q \in Queues, QueueOK(q), q # <<>>
  PROVE  /\ Tail(q) \in Queues /\ QueueOK(Tail(q)) /\ Head(q) \in EventType
         /\ InQueue(q) = InQueue(Tail(q)) \union ({Head(q).march} \ {0})
         /\ Head(q).march \notin InQueue(Tail(q))
         /\ NoFailure(q) => NoFailure(Tail(q)) /\ Head(q) # Failure
         /\ Head(q) = Failure => InQueue(q) = {}
<1> DEFINE p == Tail(q)
           n == Len(q)
<1>1. n \in Nat /\ n > 0 /\ DOMAIN q = 1..n /\ Head(q) = q[1] /\ q[1] \in EventType
  BY DEF Queues
<1>2. /\ p \in Queues /\ DOMAIN p = 1..(n - 1) /\ Len(p) = n - 1
      /\ \A i \in 1..(n - 1) : p[i] = q[i + 1]
  BY <1>1 DEF Queues
<1> HIDE DEF p, n
<1>3. QueueOK(p)
  <2>1. \A i, j \in 1..(n - 1) : p[i].march = p[j].march => i = j
    <3> SUFFICES ASSUME NEW i \in 1..(n - 1), NEW j \in 1..(n - 1),
                        p[i].march = p[j].march
                 PROVE  i = j
      OBVIOUS
    <3>1. i + 1 \in 1..n /\ j + 1 \in 1..n /\ q[i + 1].march = q[j + 1].march
      BY <1>1, <1>2
    <3>2. i + 1 = j + 1
      BY <1>1, <3>1 DEF QueueOK
    <3> QED
      BY <3>2
  <2>2. ASSUME NEW i \in 1..(n - 1)
        PROVE  /\ p[i] = Failure \/ \E m \in Marches : p[i] = Dispatch(m)
               /\ p[i] = Failure => i = n - 1
    <3>1. i + 1 \in DOMAIN q /\ p[i] = q[i + 1] /\ n = Len(q)
      BY <1>1, <1>2 DEF n
    <3>2. /\ q[i + 1] = Failure \/ \E m \in Marches : q[i + 1] = Dispatch(m)
          /\ q[i + 1] = Failure => i + 1 = n
      BY <3>1 DEF QueueOK
    <3>3. i + 1 = n => i = n - 1
      BY <1>1
    <3> QED
      BY <3>1, <3>2, <3>3
  <2> QED
    BY <1>2, <2>1, <2>2 DEF QueueOK
<1>4. InQueue(q) = InQueue(p) \union ({q[1].march} \ {0})
  <2>1. ASSUME NEW i \in 1..n PROVE i = 1 \/ (i - 1 \in 1..(n - 1) /\ p[i - 1] = q[i])
    BY <1>1, <1>2
  <2>2. ASSUME NEW i \in 1..(n - 1) PROVE i + 1 \in 1..n /\ p[i] = q[i + 1]
    BY <1>1, <1>2
  <2>3. {q[i].march : i \in 1..n} = {p[i].march : i \in 1..(n - 1)} \union {q[1].march}
    <3>1. ASSUME NEW i \in 1..n
          PROVE  q[i].march \in {p[j].march : j \in 1..(n - 1)} \union {q[1].march}
      BY <2>1
    <3>2. ASSUME NEW j \in 1..(n - 1)
          PROVE  p[j].march \in {q[i].march : i \in 1..n}
      BY <2>2
    <3>3. q[1].march \in {q[i].march : i \in 1..n}
      BY <1>1
    <3> QED
      BY <3>1, <3>2, <3>3
  <2> QED
    BY <1>1, <1>2, <2>3 DEF InQueue
<1>5. q[1].march \notin InQueue(p)
  <2> SUFFICES ASSUME NEW i \in 1..(n - 1), q[1].march = p[i].march PROVE FALSE
    BY <1>2 DEF InQueue
  <2>1. i + 1 \in DOMAIN q /\ 1 \in DOMAIN q /\ p[i] = q[i + 1] /\ i + 1 # 1
    BY <1>1, <1>2
  <2> QED
    BY <2>1 DEF QueueOK
<1>6. NoFailure(q) => NoFailure(p) /\ q[1] # Failure
  <2> SUFFICES ASSUME NoFailure(q) PROVE NoFailure(p) /\ q[1] # Failure
    OBVIOUS
  <2>1. ASSUME NEW i \in 1..(n - 1) PROVE p[i] # Failure
    <3>1. i + 1 \in DOMAIN q /\ p[i] = q[i + 1]
      BY <1>1, <1>2
    <3> QED
      BY <3>1 DEF NoFailure
  <2> QED
    BY <1>1, <1>2, <2>1 DEF NoFailure
<1>7. q[1] = Failure => InQueue(q) = {}
  <2> SUFFICES ASSUME q[1] = Failure PROVE InQueue(q) = {}
    OBVIOUS
  <2>1. n = 1
    BY <1>1 DEF QueueOK, n
  <2> QED
    BY <1>1, <2>1, EventsTyped DEF InQueue
<1> QED
  BY <1>1, <1>2, <1>3, <1>4, <1>5, <1>6, <1>7 DEF p

\* What is drained when the process has ended is all there is.
LEMMA DrainedAll ==
  ASSUME NEW q \in Queues, QueueOK(q)
  PROVE  Dispatches(q) = InQueue(q)
<1>1. \A i, j \in DOMAIN q : q[j] = Failure => i <= j
  BY DEF QueueOK, Queues
<1>2. Drained(q) = DOMAIN q
  BY <1>1 DEF Drained, Ends
<1>3. ASSUME NEW m \in Dispatches(q) PROVE m \in InQueue(q)
  BY <1>2, <1>3, EventsTyped, Constants DEF Dispatches, InQueue
<1>4. ASSUME NEW m \in InQueue(q) PROVE m \in Dispatches(q)
  <2>1. PICK i \in DOMAIN q : q[i].march = m /\ m # 0
    BY <1>4 DEF InQueue
  <2>2. PICK k \in Marches : q[i] = Dispatch(k)
    BY <2>1, EventsTyped DEF QueueOK
  <2> QED
    BY <1>2, <2>1, <2>2, EventsTyped DEF Dispatches
<1> QED
  BY <1>3, <1>4

-----------------------------------------------------------------------------
(* The slots: what a step does beside moving its session. *)

GameOK ==
  /\ march \in Seq(Monsters \union {"own", "home"}) /\ Len(march) <= MaxMarches
  /\ requests \in Seq(Monsters) /\ Len(requests) <= MaxRequests
  /\ searches \in 0..MaxRequests
  /\ search \in {None} \union Searches
  /\ known \subseteq Marches
  /\ faults \in 0..MaxFaults

WindowOK ==
  /\ events \in [Sessions -> Queues]
  /\ last \in 0..MaxSessions
  /\ running \in BOOLEAN
  /\ seen \subseteq Marches

LEMMA TypesSplit ==
  TypeOK <=> GameOK /\ WindowOK /\ session \in [Sessions -> SessionType]
BY DEF TypeOK, GameOK, WindowOK, Searches, SessionType, Queues, EventType

LEMMA TypesSplitNext ==
  TypeOK' <=> (GameOK' /\ WindowOK' /\ session' \in [Sessions -> SessionType])
BY DEF TypeOK, GameOK, WindowOK, Searches, SessionType, Queues, EventType

\* A request that is recorded is the last one, or records what is on the road.
SearchKeeps ==
  search' # None /\ search'.requested =>
    \/ search # None /\ search.requested /\ search'.before = search.before
    \/ OnRoad \subseteq search'.before

LEMMA RecordsRequestTyped ==
  ASSUME TypeOK, search # None, RecordsRequest
  PROVE  /\ search' \in Searches /\ SearchKeeps /\ search'.at = search.at
         /\ search'.listens <=> search.listens
<1>1. search \in Searches /\ OnRoad \in SUBSET Marches
  BY Road, TypesSplit DEF GameOK
<1>2. search' = [search EXCEPT !.before = OnRoad, !.requested = TRUE]
  BY DEF RecordsRequest
<1>3. /\ search' \in Searches /\ search'.before = OnRoad
      /\ search'.at = search.at
      /\ search'.listens <=> search.listens
  BY <1>1, <1>2 DEF Searches
<1> QED
  BY <1>3 DEF SearchKeeps

LEMMA CliStepGame ==
  ASSUME SlotInv, NEW s \in Sessions, CliStep(s)
  PROVE  GameOK' /\ Answered' /\ SearchKeeps /\ UNCHANGED <<march, window>>
<1>1. /\ Answered /\ (search' = search => Answered')
      /\ TypeOK /\ GameOK /\ OnRoad \subseteq Marches
      /\ session[s] \in SessionType
      /\ SearchKeeps \/ search' # search
  BY TypesSplit, Road DEF SlotInv, SearchKeeps, Answered, Prepared
<1>2. CASE RefreshCapacity(s) \/ CommitBlocked(s)
  BY <1>1, <1>2 DEF RefreshCapacity, CommitBlocked, GameOK, game
<1>3. CASE SearchSent(s)
  <2>1. NewSearch \in Searches /\ ~NewSearch.requested /\ NewSearch.listens
    BY DEF NewSearch, Searches
  <2>2. searches' \in 0..MaxRequests /\ faults' \in 0..MaxFaults
    BY <1>1, <1>3, Constants DEF SearchSent, GameOK, Fault
  <2>3. search' = NewSearch /\ UNCHANGED <<march, requests, known, window>>
    BY <1>3 DEF SearchSent
  <2>4. SearchKeeps
    BY <2>1, <2>3 DEF SearchKeeps
  <2>5. GameOK' /\ Answered'
    BY <1>1, <2>1, <2>2, <2>3 DEF GameOK, Answered, Prepared
  <2> QED
    BY <2>3, <2>4, <2>5
<1>4. CASE SearchResult(s)
  <2>1. /\ search' = [search EXCEPT !.listens = FALSE]
        /\ search # None /\ search.at # None
        /\ UNCHANGED <<march, requests, searches, known, faults, window>>
    BY <1>4 DEF SearchResult
  <2>2. /\ search' \in Searches /\ search'.before = search.before
        /\ search'.at = search.at
        /\ search'.requested <=> search.requested
    BY <1>1, <2>1 DEF GameOK, Searches
  <2> QED
    BY <1>1, <2>1, <2>2 DEF SearchKeeps, GameOK, Answered
<1>5. CASE SearchRecovers(s)
  <2>1. /\ UNCHANGED <<march, requests, searches, search, known, window>>
        /\ faults' \in 0..MaxFaults
    BY <1>1, <1>5, Constants DEF SearchRecovers, Fault, GameOK
  <2> QED
    BY <1>1, <2>1 DEF GameOK
<1>6. CASE Commit(s)
  <2>1. /\ search # None /\ RecordsRequest
        /\ UNCHANGED <<march, searches, known, window>>
        /\ Len(requests) < MaxRequests /\ requests' = Append(requests, search.at)
        /\ search.at \in Monsters /\ search.at # None
    BY <1>1, <1>6, Constants DEF Commit, Prepared, GameOK, Searches, Answered
  <2>2. search' \in Searches /\ SearchKeeps /\ search'.at = search.at
    BY <1>1, <2>1, RecordsRequestTyped
  <2>3. faults' \in 0..MaxFaults
    BY <1>1, <1>6, Constants DEF Commit, Fault, GameOK
  <2>4. requests' \in Seq(Monsters) /\ Len(requests') <= MaxRequests
    BY <1>1, <2>1, Constants DEF GameOK
  <2> QED
    BY <1>1, <2>1, <2>2, <2>3, <2>4 DEF GameOK, Answered
<1>7. CASE Verify(s)
  <2>1. /\ known' \subseteq Marches
        /\ UNCHANGED <<march, requests, searches, search, faults, window>>
    BY <1>1, <1>7 DEF Verify, Registers, Created, GameOK
  <2> QED
    BY <1>1, <2>1 DEF GameOK
<1>8. CASE PollStatus(s)
  <2>1. /\ known' \subseteq Marches
        /\ UNCHANGED <<march, requests, searches, search, faults, window>>
    BY <1>1, <1>8 DEF PollStatus, GameOK
  <2> QED
    BY <1>1, <2>1 DEF GameOK
<1> QED
  BY <1>2, <1>3, <1>4, <1>5, <1>6, <1>7, <1>8 DEF CliStep

-----------------------------------------------------------------------------
(* The slots: one session moves. *)

LEMMA Born ==
  ASSUME SlotInv, NEW s \in Sessions, session[s].pc # "none"
  PROVE  s <= last /\ last \in Sessions /\ s \in Nat
<1>1. s \in Nat /\ s >= 1 /\ last \in 0..MaxSessions
  BY Constants DEF SlotInv, TypeOK
<1>2. ~(s > last)
  BY DEF SlotInv, Unborn, Blank
<1> QED
  BY <1>1, <1>2, Constants

\* Events are only put in the queue of the last start.
LEMMA Emits ==
  ASSUME TypeOK, NEW s \in Sessions, NEW e \in EventType,
         Emit(s, e) \/ UNCHANGED events
  PROVE  /\ events' \in [Sessions -> Queues]
         /\ \A r \in Sessions : r # last => events'[r] = events[r]
<1>1. events \in [Sessions -> Queues]
  BY TypesSplit DEF WindowOK
<1>2. events' = events \/ events' = [events EXCEPT ![last] = Append(@, e)]
  BY DEF Emit
<1>3. last \in Sessions => Append(events[last], e) \in Queues
  BY <1>1 DEF Queues
<1> QED
  BY <1>1, <1>2, <1>3

LEMMA SessionMoves ==
  ASSUME SlotInv, NEW s \in Sessions, NEW y \in SessionType, session[s].pc # "none",
         session' = [session EXCEPT ![s] = y],
         GameOK', Answered', SearchKeeps, UNCHANGED <<march, window>>,
         NEW e \in EventType, Emit(s, e) \/ UNCHANGED events,
         Fits(y), NotNew(y)'
  PROVE  SlotInv'
<1>1. /\ TypeOK /\ WindowOK /\ session \in [Sessions -> SessionType]
      /\ UNCHANGED <<march, last, running, seen>>
      /\ events' \in [Sessions -> Queues]
      /\ \A r \in Sessions : r # last => events'[r] = events[r]
  BY TypesSplit, Emits DEF SlotInv, window
<1>2. /\ session' \in [Sessions -> SessionType] /\ session'[s] = y
      /\ \A r \in Sessions \ {s} : session'[r] = session[r]
  BY <1>1
<1>3. WindowOK' /\ TypeOK'
  BY <1>1, <1>2, TypesSplitNext DEF WindowOK
<1>4. OnRoad' = OnRoad
  BY <1>1 DEF OnRoad
<1>5. ASSUME NEW r \in Sessions PROVE Unborn(r)'
  <2>1. r > last => r # s /\ r # last
    BY <1>1, Born, Constants DEF WindowOK
  <2> QED
    BY <1>1, <1>2, <2>1 DEF SlotInv, Unborn
<1>6. ASSUME NEW r \in Sessions, r # s
      PROVE  Fits(session[r])' /\ NotNew(session[r])'
  <2>1. session'[r] = session[r] /\ Fits(session[r]) /\ NotNew(session[r])
    BY <1>2, <1>6 DEF SlotInv
  <2>2. Fits(session[r])'
    BY <1>1, <2>1 DEF Fits
  <2>3. NotNew(session[r])'
    BY <1>4, <2>1 DEF NotNew, SearchKeeps
  <2> QED
    BY <2>2, <2>3
<1>7. Fits(session[s])' /\ NotNew(session[s])'
  BY <1>1, <1>2 DEF Fits, NotNew
<1>8. Cardinality(OnRoad') <= Slots /\ (running' => last' \in Sessions)
  BY <1>1, <1>4 DEF SlotInv
<1> QED
  BY <1>3, <1>5, <1>6, <1>7, <1>8 DEF SlotInv

Gone(s) == [NoSession EXCEPT !.pc = "over", !.sent = session[s].sent,
                             !.shared = session[s].shared]

LEMMA GoneTyped ==
  ASSUME SlotInv, NEW s \in Sessions
  PROVE  /\ Gone(s) \in SessionType /\ Gone(s).pc = "over"
         /\ Gone(s).sent = session[s].sent
         /\ Gone(s).shared <=> session[s].shared
         /\ Fits(Gone(s))
<1>1. session[s] \in SessionType /\ 1 \in Sessions /\ 0 \in 0..Slots
  BY TypesSplit, Constants DEF SlotInv
<1>2. /\ Gone(s) \in SessionType /\ Gone(s).pc = "over" /\ Gone(s).active = {}
      /\ Gone(s).sent = session[s].sent /\ Gone(s).count = 0
      /\ Gone(s).shared <=> session[s].shared
  BY <1>1 DEF Gone, NoSession, SessionType, Places
<1>3. session[s].sent \subseteq DOMAIN march
  BY DEF SlotInv, Fits
<1> QED
  BY <1>2, <1>3, FS_EmptySet DEF Fits

LEMMA ExitStep ==
  ASSUME SlotInv, NEW s \in Sessions, session[s].pc # "none", Exits(s),
         GameOK', Answered', SearchKeeps, UNCHANGED <<march, window>>,
         Emit(s, Failure) \/ UNCHANGED events
  PROVE  SlotInv'
<1> DEFINE y == Gone(s)
<1>1. session' = [session EXCEPT ![s] = y]
  BY DEF Exits, Gone
<1>2. y \in SessionType /\ y.pc = "over" /\ Fits(y)
  BY GoneTyped
<1> HIDE DEF y
<1> QED
  BY <1>1, <1>2, EventsTyped, SessionMoves DEF NotNew

\* A session that goes on without waiting for a march.
LEMMA GoesOn ==
  ASSUME SlotInv, NEW s \in Sessions, NEW y \in SessionType, session[s].pc # "none",
         session' = [session EXCEPT ![s] = y],
         GameOK', Answered', SearchKeeps, UNCHANGED <<march, window, events>>,
         Fits(y), y.pc # "verifying"
  PROVE  SlotInv'
BY EventsTyped, SessionMoves DEF NotNew

LEMMA Counts ==
  ASSUME SlotInv, NEW s \in Sessions
  PROVE  /\ session[s] \in SessionType /\ Fits(session[s])
         /\ session \in [Sessions -> SessionType]
         /\ Cardinality(session[s].active) \in Nat
         /\ Cardinality(session[s].active) <= Slots
         /\ Cardinality(OnRoad) \in 0..Slots
         /\ Occupied(s) \in 0..Slots /\ Cardinality(session[s].active) <= Occupied(s)
<1>1. /\ session[s] \in SessionType /\ Fits(session[s])
      /\ session \in [Sessions -> SessionType]
      /\ Cardinality(OnRoad) \in Nat /\ Cardinality(OnRoad) <= Slots
  BY TypesSplit, Road DEF SlotInv
<1>2. session[s].active \in SUBSET Marches /\ session[s].count \in 0..Slots
  BY <1>1 DEF SessionType
<1>3. /\ Cardinality(session[s].active) \in Nat
      /\ Cardinality(session[s].active) <= Slots
  BY <1>1, <1>2, FewMarches, Constants DEF Fits
<1> QED
  BY <1>1, <1>3, Constants DEF Occupied

\* A session gets its process, and the last start may have to share its queue.
LEMMA StartProcessMoves ==
  ASSUME SlotInv, NEW s \in Sessions, StartProcess(s)
  PROVE  /\ session' \in [Sessions -> SessionType] /\ last \in Sessions
         /\ UNCHANGED <<march, events, last, running, seen>>
         /\ session[s].pc = "submitted" /\ session'[s].pc = "starting"
         /\ session'[s].out = last
         /\ \A r \in Sessions :
              /\ r # s => session'[r].pc = session[r].pc
              /\ r # s => session'[r].out = session[r].out
              /\ session'[r].active = session[r].active
              /\ session'[r].sent = session[r].sent
              /\ session'[r].count = session[r].count
              /\ session'[r].stop <=> session[r].stop
              /\ session'[r].missed <=> session[r].missed
              /\ session'[r].shared <=> session[r].shared \/ (r = last /\ s # last)
<1>1. /\ session \in [Sessions -> SessionType] /\ session[s].pc = "submitted"
      /\ UNCHANGED <<march, events, last, running, seen>>
  BY TypesSplit DEF SlotInv, StartProcess, At, game, window
<1>2. last \in Sessions
  BY <1>1, Born
<1>3. session' = [session EXCEPT ![s].pc = "starting", ![s].out = last,
                                 ![last].shared = @ \/ s # last]
  BY DEF StartProcess
<1>4. ASSUME NEW r \in Sessions, r # s
      PROVE  session'[r] = [session[r] EXCEPT
                !.shared = IF r = last THEN @ \/ s # last ELSE @]
  <2>1. session[r] \in SessionType
    BY <1>1
  <2>2. CASE r = last
    BY <1>1, <1>3, <1>4, <2>2
  <2>3. CASE r # last
    <3>1. session'[r] = session[r]
      BY <1>1, <1>3, <1>4, <2>3
    <3> QED
      BY <2>1, <2>3, <3>1 DEF SessionType
  <2> QED
    BY <2>2, <2>3
<1>5. session'[s] = [session[s] EXCEPT !.pc = "starting", !.out = last]
  <2>1. session[s] \in SessionType
    BY <1>1
  <2>2. CASE s = last
    BY <1>1, <1>3, <2>1, <2>2 DEF SessionType
  <2>3. CASE s # last
    BY <1>1, <1>2, <1>3, <2>3
  <2> QED
    BY <2>2, <2>3
<1>6. ASSUME NEW r \in Sessions, r # s
      PROVE  /\ session'[r] \in SessionType
             /\ session'[r].pc = session[r].pc
             /\ session'[r].out = session[r].out
             /\ session'[r].active = session[r].active
             /\ session'[r].sent = session[r].sent
             /\ session'[r].count = session[r].count
             /\ session'[r].stop <=> session[r].stop
             /\ session'[r].missed <=> session[r].missed
             /\ session'[r].shared <=> session[r].shared \/ (r = last /\ s # last)
  <2>1. session[r] \in SessionType
    BY <1>1
  <2> DEFINE b == IF r = last THEN session[r].shared \/ s # last
                  ELSE session[r].shared
  <2>2. b \in BOOLEAN /\ session'[r] = [session[r] EXCEPT !.shared = b]
    BY <1>4, <1>6, <2>1 DEF SessionType
  <2>3. b <=> session[r].shared \/ (r = last /\ s # last)
    OBVIOUS
  <2> HIDE DEF b
  <2> QED
    BY <2>1, <2>2, <2>3 DEF SessionType
<1>7. /\ session'[s] \in SessionType
      /\ session'[s].pc = "starting" /\ session'[s].out = last
      /\ session'[s].active = session[s].active
      /\ session'[s].sent = session[s].sent
      /\ session'[s].count = session[s].count
      /\ session'[s].stop <=> session[s].stop
      /\ session'[s].missed <=> session[s].missed
      /\ session'[s].shared <=> session[s].shared
  BY <1>1, <1>2, <1>5 DEF SessionType, Places
<1>8. session' \in [Sessions -> SessionType]
  <2>1. \A r \in Sessions : session'[r] \in SessionType
    BY <1>6, <1>7
  <2>2. session' = [r \in Sessions |-> session'[r]]
    BY <1>1, <1>3
  <2> QED
    BY <2>1, <2>2
<1> QED
  BY <1>1, <1>2, <1>6, <1>7, <1>8

LEMMA StartProcessSlots ==
  ASSUME SlotInv, NEW s \in Sessions, StartProcess(s)
  PROVE  SlotInv'
<1>1. /\ session' \in [Sessions -> SessionType] /\ last \in Sessions
      /\ UNCHANGED <<march, events, last, running, seen>>
      /\ session[s].pc = "submitted" /\ session'[s].pc = "starting"
      /\ \A r \in Sessions :
           /\ r # s => session'[r].pc = session[r].pc
           /\ session'[r].active = session[r].active
           /\ session'[r].sent = session[r].sent
           /\ session'[r].count = session[r].count
           /\ session'[r].stop <=> session[r].stop
  BY StartProcessMoves
<1>2. GameOK' /\ Answered' /\ OnRoad' = OnRoad /\ search' = search
  BY TypesSplit DEF StartProcess, game, SlotInv, GameOK, Answered, Prepared, OnRoad
<1>3. WindowOK' /\ TypeOK'
  BY <1>1, <1>2, TypesSplit, TypesSplitNext DEF SlotInv, WindowOK
<1>4. ASSUME NEW r \in Sessions
      PROVE  Unborn(r)' /\ Fits(session[r])' /\ NotNew(session[r])'
  <2>1. Unborn(r) /\ Fits(session[r]) /\ NotNew(session[r])
    BY DEF SlotInv
  <2>2. r > last => r # s
    BY <1>1, Born, Constants
  <2>3. Unborn(r)'
    BY <1>1, <2>1, <2>2 DEF Unborn, Blank
  <2>4. Fits(session[r])'
    BY <1>1, <2>1 DEF Fits
  <2>5. NotNew(session[r])'
    BY <1>1, <1>2, <2>1 DEF NotNew
  <2> QED
    BY <2>3, <2>4, <2>5
<1> QED
  BY <1>1, <1>2, <1>3, <1>4 DEF SlotInv

LEMMA RefreshCapacitySlots ==
  ASSUME SlotInv, NEW s \in Sessions, RefreshCapacity(s)
  PROVE  SlotInv'
<1> DEFINE x == session[s]
           y == [x EXCEPT !.pc = "filling", !.count = Cardinality(OnRoad)]
<1>1. /\ x \in SessionType /\ Fits(x) /\ session \in [Sessions -> SessionType]
      /\ Cardinality(OnRoad) \in 0..Slots
  BY Counts
<1>2. x.active = {} /\ x.pc # "none"
  BY <1>1 DEF RefreshCapacity, At, Fits
<1>3. session' = [session EXCEPT ![s] = y] /\ UNCHANGED events
  BY <1>1 DEF RefreshCapacity
<1>4. y \in SessionType /\ y.pc = "filling" /\ y.active = x.active
      /\ y.sent = x.sent /\ y.count = Cardinality(OnRoad)
  BY <1>1 DEF SessionType, Places
<1>5. UNCHANGED <<march, window>> /\ GameOK' /\ Answered' /\ SearchKeeps
  BY CliStepGame DEF CliStep
<1> HIDE DEF x, y
<1>6. Fits(y)
  BY <1>1, <1>2, <1>4, FS_EmptySet DEF Fits
<1> QED
  BY <1>2, <1>3, <1>4, <1>5, <1>6, GoesOn DEF x

LEMMA SearchSlots ==
  ASSUME SlotInv, NEW s \in Sessions,
         SearchSent(s) \/ SearchResult(s) \/ SearchRecovers(s)
  PROVE  SlotInv'
<1> DEFINE x == session[s]
<1>1. /\ x \in SessionType /\ Fits(x) /\ session \in [Sessions -> SessionType]
      /\ x.pc \in {"filling", "searching"} /\ UNCHANGED events
      /\ Cardinality(x.active) \in Nat /\ x.count \in 0..Slots
  BY Counts DEF SearchSent, SearchResult, SearchRecovers, At, SessionType
<1>2. UNCHANGED <<march, window>> /\ GameOK' /\ Answered' /\ SearchKeeps
  BY CliStepGame DEF CliStep
<1>3. ASSUME NEW y \in SessionType, session' = [session EXCEPT ![s] = y],
             y.pc \in {"filling", "searching", "found"}, y.active = x.active,
             y.sent = x.sent, y.count = x.count,
             y.pc # "filling" => Cardinality(x.active) < Slots
      PROVE  SlotInv'
  <2>1. Fits(y)
    BY <1>1, <1>3 DEF Fits
  <2> QED
    BY <1>1, <1>2, <1>3, <2>1, GoesOn
<1>4. CASE SearchSent(s)
  <2> DEFINE y == [x EXCEPT !.pc = "searching"]
  <2>1. Cardinality(x.active) < Slots
    BY <1>1, <1>4, Constants DEF SearchSent, Fits
  <2>2. y \in SessionType /\ y.pc = "searching" /\ y.active = x.active
        /\ y.sent = x.sent /\ y.count = x.count
    BY <1>1 DEF SessionType, Places
  <2>3. session' = [session EXCEPT ![s] = y] \/ session' = [session EXCEPT ![s] = x]
    BY <1>1, <1>4 DEF SearchSent, Goes
  <2> HIDE DEF x, y
  <2> QED
    BY <1>1, <1>3, <2>1, <2>2, <2>3
<1>5. CASE SearchResult(s)
  <2> DEFINE y == [x EXCEPT !.pc = "found", !.aim = search.at]
  <2>1. search.at \in Monsters \union {None}
    BY <1>5, TypesSplit DEF SearchResult, SlotInv, GameOK, Searches
  <2>2. y \in SessionType /\ y.pc = "found" /\ y.active = x.active
        /\ y.sent = x.sent /\ y.count = x.count
    BY <1>1, <2>1 DEF SessionType, Places
  <2>3. session' = [session EXCEPT ![s] = y] /\ x.pc = "searching"
    BY <1>1, <1>5 DEF SearchResult, At
  <2> HIDE DEF x, y
  <2> QED
    BY <1>1, <1>3, <2>2, <2>3 DEF Fits
<1>6. CASE SearchRecovers(s)
  <2> DEFINE y == [x EXCEPT !.pc = "filling"]
  <2>1. y \in SessionType /\ y.pc = "filling" /\ y.active = x.active
        /\ y.sent = x.sent /\ y.count = x.count
    BY <1>1 DEF SessionType, Places
  <2>2. session' = [session EXCEPT ![s] = y]
    BY <1>1, <1>6 DEF SearchRecovers, Goes
  <2> HIDE DEF x, y
  <2> QED
    BY <1>3, <2>1, <2>2
<1> QED
  BY <1>4, <1>5, <1>6

LEMMA CommitSlots ==
  ASSUME SlotInv, NEW s \in Sessions, Commit(s) \/ CommitBlocked(s)
  PROVE  SlotInv'
<1> DEFINE x == session[s]
           n == Occupied(s)
<1>1. /\ x \in SessionType /\ Fits(x) /\ session \in [Sessions -> SessionType]
      /\ x.pc = "found" /\ n \in 0..Slots /\ Cardinality(x.active) <= n
  BY Counts DEF Commit, CommitBlocked, At
<1>2. UNCHANGED <<march, window>> /\ GameOK' /\ Answered' /\ SearchKeeps
  BY CliStepGame DEF CliStep
<1> HIDE DEF n
<1>3. CASE CommitBlocked(s)
  <2> DEFINE y == [x EXCEPT !.pc = "filling", !.aim = None, !.count = n]
  <2>1. y \in SessionType /\ y.pc = "filling" /\ y.active = x.active
        /\ y.sent = x.sent /\ y.count = n
    BY <1>1 DEF SessionType, Places
  <2>2. session' = [session EXCEPT ![s] = y] /\ UNCHANGED events
    BY <1>1, <1>3 DEF CommitBlocked, n
  <2> HIDE DEF x, y
  <2>3. Fits(y)
    BY <1>1, <2>1 DEF Fits
  <2> QED
    BY <1>1, <1>2, <2>1, <2>2, <2>3, GoesOn DEF x
<1>4. CASE Commit(s)
  <2> DEFINE y == [x EXCEPT !.pc = "verifying", !.count = n]
  <2>1. y \in SessionType /\ y.pc = "verifying" /\ y.active = x.active
        /\ y.sent = x.sent /\ y.count = n
    BY <1>1 DEF SessionType, Places
  <2>2. \/ session' = [session EXCEPT ![s] = y] /\ UNCHANGED events
        \/ Exits(s) /\ Emit(s, Failure)
        \/ session' = [session EXCEPT ![s] = x] /\ UNCHANGED events
    BY <1>1, <1>4 DEF Commit, n
  <2>3. search # None /\ RecordsRequest /\ search \in Searches
    BY <1>4, TypesSplit DEF Commit, Prepared, SlotInv, GameOK
  <2> HIDE DEF x, y
  <2>4. CASE session' = [session EXCEPT ![s] = y] /\ UNCHANGED events
    <3>1. Fits(y)
      BY <1>1, <2>1 DEF Fits
    <3>2. search'.before = OnRoad /\ OnRoad' = OnRoad
      BY <1>2, <2>3 DEF RecordsRequest, OnRoad, Searches
    <3> QED
      BY <1>1, <1>2, <2>1, <2>4, <3>1, <3>2, EventsTyped, SessionMoves DEF x, NotNew
  <2>5. CASE Exits(s) /\ Emit(s, Failure)
    BY <1>1, <1>2, <2>5, ExitStep DEF x
  <2>6. CASE session' = [session EXCEPT ![s] = x] /\ UNCHANGED events
    BY <1>1, <1>2, <2>6, GoesOn DEF x
  <2> QED
    BY <2>2, <2>4, <2>5, <2>6
<1> QED
  BY <1>3, <1>4

Tracks(s, m) ==
  [session[s] EXCEPT !.pc = "filling", !.aim = None, !.active = @ \union {m},
                     !.sent = IF Current(s) THEN @ \union {m} ELSE @,
                     !.count = Lower(Slots, @ + 1)]

\* A march is verified, and nothing is wrong with it.
Verified(s, m) ==
  /\ Created = {m}
  /\ m \notin session[s].active
  /\ session' = [session EXCEPT ![s] = Tracks(s, m)]
  /\ Emit(s, Dispatch(m))

LEMMA VerifyCases ==
  ASSUME SlotInv, NEW s \in Sessions, Verify(s)
  PROVE  \/ \E m \in OnRoad : Verified(s, m)
         \/ Exits(s) /\ Emit(s, Failure)
<1>1. session \in [Sessions -> SessionType]
  BY TypesSplit DEF SlotInv
<1>2. IsFiniteSet(Created) /\ Created \subseteq OnRoad /\ Cardinality(Created) = 1
  BY Road, FS_Subset DEF SlotInv, Created, Verify
<1>3. PICK m : Created = {m}
  BY <1>2, FS_Singleton
<1>4. CASE search.at = session[s].aim /\ Created \cap session[s].active = {}
  BY <1>1, <1>2, <1>3, <1>4 DEF Verify, Verified, Tracks
<1>5. CASE ~(search.at = session[s].aim /\ Created \cap session[s].active = {})
  BY <1>5 DEF Verify
<1> QED
  BY <1>4, <1>5

\* What a session that verified the march m is.
LEMMA VerifiedSession ==
  ASSUME SlotInv, NEW s \in Sessions, session[s].pc = "verifying",
         NEW m \in OnRoad, m \notin session[s].active,
         NEW y, y = Tracks(s, m)
  PROVE  /\ y \in SessionType /\ y.pc = "filling"
         /\ y.active = session[s].active \union {m}
         /\ y.sent = IF Current(s) THEN session[s].sent \union {m}
                     ELSE session[s].sent
         /\ y.out = session[s].out
         /\ y.stop <=> session[s].stop
         /\ y.missed <=> session[s].missed
         /\ y.shared <=> session[s].shared
         /\ Fits(y)
<1> DEFINE x == session[s]
           n == Lower(Slots, x.count + 1)
           sent == IF Current(s) THEN x.sent \union {m} ELSE x.sent
<1>1. /\ x \in SessionType /\ Fits(x) /\ x.active \in SUBSET Marches
      /\ x.count \in 0..Slots /\ Cardinality(x.active) \in Nat
  BY Counts DEF SessionType
<1>2. m \in Marches /\ m \in DOMAIN march
  BY Road DEF SlotInv
<1>3. /\ n \in 0..Slots
      /\ \A k \in Nat : k <= x.count /\ k < Slots => k + 1 <= n
  BY <1>1, Constants DEF Lower
<1> HIDE DEF n
<1>4. y = [x EXCEPT !.pc = "filling", !.aim = None, !.active = @ \union {m},
                    !.sent = sent, !.count = n]
  BY DEF n, Tracks
<1>9. x.sent \subseteq DOMAIN march /\ sent \subseteq DOMAIN march
      /\ sent \in SUBSET Marches
  BY <1>1, <1>2, Road DEF Fits, SlotInv
<1>10. sent = IF Current(s) THEN x.sent \union {m} ELSE x.sent
  OBVIOUS
<1> HIDE DEF x, sent
<1>5. /\ y \in SessionType /\ y.pc = "filling" /\ y.active = x.active \union {m}
      /\ y.sent = sent /\ y.count = n /\ y.out = x.out
      /\ y.stop <=> x.stop
      /\ y.missed <=> x.missed
      /\ y.shared <=> x.shared
  <2>1. x.active \union {m} \in SUBSET Marches
    BY <1>1, <1>2 DEF SessionType
  <2> QED
    BY <1>1, <1>3, <1>4, <1>9, <2>1 DEF SessionType, Places
<1>6. Cardinality(y.active) = Cardinality(x.active) + 1
  BY <1>1, <1>5, FewMarches, FS_AddElement DEF x
<1>7. Cardinality(y.active) <= y.count
  BY <1>1, <1>3, <1>5, <1>6 DEF Fits, x
<1>8. Fits(y)
  BY <1>1, <1>2, <1>5, <1>7, <1>9 DEF Fits
<1> QED
  BY <1>5, <1>8, <1>10 DEF x

LEMMA VerifySlots ==
  ASSUME SlotInv, NEW s \in Sessions, Verify(s)
  PROVE  SlotInv'
<1>1. UNCHANGED <<march, window>> /\ GameOK' /\ Answered' /\ SearchKeeps
  BY CliStepGame DEF CliStep
<1>2. session[s].pc = "verifying"
  BY DEF Verify, At
<1>3. CASE Exits(s) /\ Emit(s, Failure)
  BY <1>1, <1>2, <1>3, ExitStep
<1>4. ASSUME NEW m \in OnRoad, Verified(s, m) PROVE SlotInv'
  <2> DEFINE y == Tracks(s, m)
  <2>1. m \notin session[s].active /\ session' = [session EXCEPT ![s] = y]
    BY <1>4 DEF Verified
  <2>2. y \in SessionType /\ y.pc = "filling" /\ Fits(y)
    BY <1>2, <2>1, VerifiedSession
  <2> HIDE DEF y
  <2>3. Dispatch(m) \in EventType /\ Emit(s, Dispatch(m))
    BY <1>4, EventsTyped, Road DEF SlotInv, Verified
  <2> QED
    BY <1>1, <1>2, <2>1, <2>2, <2>3, SessionMoves DEF NotNew
<1> QED
  BY <1>3, <1>4, VerifyCases

LEMMA PollStatusSlots ==
  ASSUME SlotInv, NEW s \in Sessions, PollStatus(s)
  PROVE  SlotInv'
<1> DEFINE x == session[s]
           y == [x EXCEPT !.active = @ \cap OnRoad, !.count = Cardinality(OnRoad)]
<1>1. /\ x \in SessionType /\ Fits(x) /\ session \in [Sessions -> SessionType]
      /\ x.pc = "filling" /\ Cardinality(OnRoad) \in 0..Slots
  BY Counts DEF PollStatus, At
<1>2. UNCHANGED <<march, window>> /\ GameOK' /\ Answered' /\ SearchKeeps
  BY CliStepGame DEF CliStep
<1>3. CASE Exits(s) /\ Emit(s, Failure)
  BY <1>1, <1>2, <1>3, ExitStep DEF x
<1>4. CASE AppliesStatus(s) /\ UNCHANGED events
  <2>1. session' = [session EXCEPT ![s] = y] /\ UNCHANGED events
    BY <1>1, <1>4 DEF AppliesStatus
  <2>2. x.active \in SUBSET Marches
    BY <1>1 DEF SessionType
  <2>3. /\ y \in SessionType /\ y.pc = "filling" /\ y.active = x.active \cap OnRoad
        /\ y.sent = x.sent /\ y.count = Cardinality(OnRoad)
    BY <1>1, <2>2 DEF SessionType
  <2> HIDE DEF x, y
  <2>4. Cardinality(y.active) <= y.count
    BY <2>3, Road, FS_Subset DEF SlotInv
  <2>5. Fits(y)
    BY <1>1, <2>3, <2>4 DEF Fits
  <2> QED
    BY <1>1, <1>2, <2>1, <2>3, <2>5, GoesOn DEF x
<1> QED
  BY <1>3, <1>4 DEF PollStatus

LEMMA SessionSlots ==
  ASSUME SlotInv, NEW s \in Sessions, Session(s)
  PROVE  SlotInv'
<1>1. CASE StartProcess(s)
  BY <1>1, StartProcessSlots
<1>2. CASE CliStep(s)
  BY <1>2, RefreshCapacitySlots, SearchSlots, CommitSlots, VerifySlots,
     PollStatusSlots DEF CliStep
<1>3. CASE CliFails(s) \/ Stopped(s)
  <2>1. /\ session[s].pc # "none" /\ Exits(s) /\ UNCHANGED <<march, window>>
        /\ Emit(s, Failure) \/ UNCHANGED events
    BY <1>3 DEF CliFails, Stopped, At, Alive, game
  <2>2. GameOK' /\ Answered' /\ SearchKeeps
    BY <1>3, TypesSplit DEF CliFails, Stopped, game, SlotInv, GameOK, Answered,
                            Prepared, SearchKeeps
  <2> QED
    BY <2>1, <2>2, ExitStep
<1> QED
  BY <1>1, <1>2, <1>3 DEF Session

-----------------------------------------------------------------------------
(* The slots: the game and the window. *)

LEMMA EnvironmentGame ==
  ASSUME SlotInv, Environment
  PROVE  /\ GameOK' /\ Answered' /\ MarchesMove /\ UNCHANGED <<session, events, window>>
         /\ search' # None /\ search'.requested =>
              search # None /\ search.requested /\ search'.before = search.before
<1>1. /\ GameOK /\ WindowOK /\ Answered /\ MarchesMove
      /\ search # None => search \in Searches
  BY TypesSplit, MarchesStep DEF SlotInv, GameOK
<1>2. CASE GameAnswersSearch
  <2>1. UNCHANGED <<march, requests, known, faults, session, events, window>>
        /\ searches' \in 0..MaxRequests
    BY <1>1, <1>2, Constants DEF GameAnswersSearch, GameOK
  <2>2. CASE search' = search
    BY <1>1, <2>1, <2>2 DEF GameOK, Answered, Prepared
  <2>3. CASE Listening /\ \E monster \in Monsters : search' = [search EXCEPT !.at = monster]
    <3>1. /\ search # None /\ search.listens /\ search' \in Searches
          /\ search'.listens <=> search.listens
          /\ search'.requested <=> search.requested
      BY <1>1, <2>3 DEF Listening, Searches
    <3>2. search'.before = search.before
      BY <1>1, <2>3, <3>1 DEF Searches
    <3> QED
      BY <1>1, <2>1, <3>1, <3>2 DEF GameOK, Answered, Prepared
  <2> QED
    BY <1>2, <2>2, <2>3 DEF GameAnswersSearch
<1>3. CASE ServerAnswersRequest
  <2>1. /\ UNCHANGED <<searches, search, known, faults, session, events, window>>
        /\ requests' \in Seq(Monsters) /\ Len(requests') <= MaxRequests
    BY <1>1, <1>3, Constants DEF ServerAnswersRequest, GameOK
  <2> QED
    BY <1>1, <2>1 DEF GameOK, Answered, Prepared, MarchesMove
<1>4. CASE PlayerMarches \/ \E m \in DOMAIN march : MarchReturns(m)
  <2>1. UNCHANGED <<requests, searches, search, known, faults, session,
                    events, window>>
    BY <1>4 DEF PlayerMarches, MarchReturns
  <2> QED
    BY <1>1, <2>1 DEF GameOK, Answered, Prepared, MarchesMove
<1>5. CASE LuaReloads
  <2>1. /\ UNCHANGED <<march, requests, session, events, window>>
        /\ search' = None /\ known' = {} /\ searches' = 0
        /\ faults' \in 0..MaxFaults
    BY <1>1, <1>5, Constants DEF LuaReloads, Fault, GameOK
  <2> QED
    BY <1>1, <2>1, Constants DEF GameOK, Answered, Prepared
<1> QED
  BY <1>2, <1>3, <1>4, <1>5 DEF Environment

LEMMA EnvironmentSlots ==
  ASSUME SlotInv, Environment
  PROVE  SlotInv'
<1>1. /\ GameOK' /\ Answered' /\ MarchesMove
      /\ UNCHANGED <<session, events, last, running, seen>>
  BY EnvironmentGame DEF window
<1>2. TypeOK'
  BY <1>1, TypesSplit, TypesSplitNext DEF SlotInv, WindowOK
<1>3. ASSUME NEW s \in Sessions
      PROVE  Unborn(s)' /\ Fits(session[s])' /\ NotNew(session[s])'
  <2>1. Unborn(s) /\ Fits(session[s]) /\ NotNew(session[s])
    BY DEF SlotInv
  <2>2. Unborn(s)' /\ Fits(session[s])'
    BY <1>1, <2>1 DEF Unborn, Fits, MarchesMove
  <2>3. session[s].active \cap OnRoad' \subseteq session[s].active \cap OnRoad
    BY <1>1, <2>1 DEF Fits, MarchesMove
  <2>4. NotNew(session[s])'
    BY <1>1, <2>1, <2>3, EnvironmentGame DEF NotNew
  <2> QED
    BY <2>2, <2>4
<1> QED
  BY <1>1, <1>2, <1>3 DEF SlotInv, MarchesMove

LEMMA WithStop ==
  ASSUME NEW x \in SessionType, NEW b \in BOOLEAN
  PROVE  /\ [x EXCEPT !.stop = b] \in SessionType
         /\ [x EXCEPT !.stop = b].pc = x.pc
         /\ [x EXCEPT !.stop = b].active = x.active
         /\ [x EXCEPT !.stop = b].sent = x.sent
         /\ [x EXCEPT !.stop = b].count = x.count
         /\ [x EXCEPT !.stop = b].out = x.out
         /\ [x EXCEPT !.stop = b].stop <=> b
         /\ [x EXCEPT !.stop = b].missed <=> x.missed
         /\ [x EXCEPT !.stop = b].shared <=> x.shared
BY DEF SessionType

\* The start that the window leaves.
LEMMA LeftTyped ==
  ASSUME SlotInv, last \in Sessions
  PROVE  /\ Left \in SessionType /\ Left.pc = session[last].pc
         /\ Left.active = session[last].active /\ Left.sent = {}
         /\ Left.count = session[last].count /\ Left.out = session[last].out
         /\ Left.stop <=> session[last].stop
         /\ Left.shared <=> session[last].shared
         /\ Left.missed <=> At(last, {"submitted"})
<1> DEFINE b == At(last, {"submitted"})
<1>1. session[last] \in SessionType /\ b \in BOOLEAN
  BY TypesSplit DEF SlotInv, At
<1>2. Left = [session[last] EXCEPT !.missed = b, !.sent = {}]
  BY DEF Left
<1>3. b <=> At(last, {"submitted"})
  OBVIOUS
<1> HIDE DEF b
<1> QED
  BY <1>1, <1>2, <1>3 DEF SessionType

\* Every session after a stop.
LEMMA StopMoves ==
  ASSUME SlotInv, StopWorldHunt
  PROVE  /\ session' \in [Sessions -> SessionType] /\ last \in Sessions
         /\ \A s \in Sessions :
              /\ session'[s].pc = session[s].pc
              /\ session'[s].active = session[s].active
              /\ session'[s].count = session[s].count
              /\ session'[s].out = session[s].out
              /\ session'[s].sent = IF s = last THEN {} ELSE session[s].sent
              /\ session'[s].stop <=> session[s].stop \/ Alive(s)
              /\ session'[s].shared <=> session[s].shared
              /\ session'[s].missed <=>
                   IF s = last THEN At(last, {"submitted"}) ELSE session[s].missed
<1>1. /\ session \in [Sessions -> SessionType] /\ last \in Sessions
      /\ session' = [s \in Sessions |->
           [(IF s = last THEN Left ELSE session[s]) EXCEPT !.stop = @ \/ Alive(s)]]
  BY TypesSplit DEF SlotInv, StopWorldHunt
<1>2. ASSUME NEW s \in Sessions
      PROVE  /\ session'[s] \in SessionType
             /\ session'[s].pc = session[s].pc
             /\ session'[s].active = session[s].active
             /\ session'[s].count = session[s].count
             /\ session'[s].out = session[s].out
             /\ session'[s].sent = IF s = last THEN {} ELSE session[s].sent
             /\ session'[s].stop <=> session[s].stop \/ Alive(s)
             /\ session'[s].shared <=> session[s].shared
             /\ session'[s].missed <=>
                  IF s = last THEN At(last, {"submitted"}) ELSE session[s].missed
  <2> DEFINE x == IF s = last THEN Left ELSE session[s]
             b == x.stop \/ Alive(s)
  <2>1. /\ x \in SessionType /\ x.pc = session[s].pc
        /\ x.active = session[s].active /\ x.count = session[s].count
        /\ x.out = session[s].out
        /\ x.sent = IF s = last THEN {} ELSE session[s].sent
        /\ x.stop <=> session[s].stop
        /\ x.shared <=> session[s].shared
        /\ x.missed <=>
             IF s = last THEN At(last, {"submitted"}) ELSE session[s].missed
    <3>1. CASE s = last
      BY <1>1, <3>1, LeftTyped
    <3>2. CASE s # last
      BY <1>1, <3>2
    <3> QED
      BY <3>1, <3>2
  <2>2. b \in BOOLEAN /\ session'[s] = [x EXCEPT !.stop = b]
    BY <1>1
  <2>3. b <=> x.stop \/ Alive(s)
    OBVIOUS
  <2> HIDE DEF x, b
  <2> QED
    BY <2>1, <2>2, <2>3, WithStop
<1>3. session' \in [Sessions -> SessionType]
  BY <1>1, <1>2
<1> QED
  BY <1>1, <1>2, <1>3

\* The window starts a session, asks sessions to stop, or forgets one.
LEMMA WindowSlots ==
  ASSUME SlotInv, Window
  PROVE  SlotInv'
<1>1. /\ GameOK /\ WindowOK /\ session \in [Sessions -> SessionType] /\ TypeOK
      /\ Answered
      /\ running => last \in Sessions
  BY TypesSplit DEF SlotInv
<1>2. /\ UNCHANGED <<march, requests, searches, search, known, faults>>
      /\ GameOK' /\ Answered' /\ OnRoad' = OnRoad
  <2>1. UNCHANGED <<march, requests, searches, search, known, faults>>
    BY DEF Window, StartWorldHunt, StopWorldHunt, DrainWorldHuntEvents,
           WorldHuntLoopFinished, game
  <2> QED
    BY <1>1, <2>1 DEF GameOK, Answered, Prepared, OnRoad
<1>3. NoSession \in SessionType /\ NoSession.active = {} /\ NoSession.sent = {}
      /\ NoSession.count = 0
  BY Constants DEF NoSession, SessionType, Places
<1>4. SUFFICES /\ session' \in [Sessions -> SessionType] /\ WindowOK'
               /\ running' => last' \in Sessions
               /\ \A s \in Sessions : Unborn(s)'
               /\ \A s \in Sessions :
                    /\ session'[s].active = session[s].active \/ session'[s].active = {}
                    /\ session'[s].sent = session[s].sent \/ session'[s].sent = {}
                    /\ \/ /\ session'[s].count = session[s].count
                          /\ session'[s].active = session[s].active
                          /\ \/ session'[s].pc = session[s].pc
                             \/ session'[s].pc = "submitted" /\ session[s].active = {}
                       \/ /\ session'[s].active = {} /\ session'[s].count = 0
                          /\ session'[s].pc = "drained"
  <2>1. ASSUME NEW s \in Sessions PROVE Fits(session[s])'
    <3>1. Fits(session[s])
      BY DEF SlotInv
    <3>2. /\ \/ /\ session'[s].active = session[s].active
                /\ session'[s].count = session[s].count
                /\ \/ session'[s].pc = session[s].pc
                   \/ session'[s].pc = "submitted" /\ session[s].active = {}
             \/ /\ session'[s].active = {} /\ session'[s].count = 0
                /\ session'[s].pc = "drained"
          /\ session'[s].sent = session[s].sent \/ session'[s].sent = {}
      BY <1>4
    <3>3. march' = march /\ Cardinality({}) = 0
      BY <1>2, FS_EmptySet
    <3>4. CASE session'[s].active = session[s].active
               /\ session'[s].count = session[s].count
      BY <3>1, <3>2, <3>3, <3>4 DEF Fits
    <3>5. CASE session'[s].active = {} /\ session'[s].count = 0
               /\ session'[s].pc = "drained"
      <4>1. Cardinality(session'[s].active) = session'[s].count
        BY <3>3, <3>5
      <4> QED
        BY <3>1, <3>2, <3>3, <3>5, <4>1 DEF Fits
    <3> QED
      BY <3>2, <3>4, <3>5
  <2>2. ASSUME NEW s \in Sessions PROVE NotNew(session[s])'
    BY <1>2, <1>4 DEF NotNew, SlotInv
  <2> QED
    BY <1>2, <1>4, <2>1, <2>2, TypesSplitNext DEF SlotInv
<1>5. CASE StartWorldHunt
  <2> DEFINE y == [session[last'] EXCEPT !.pc = "submitted"]
  <2>1. /\ last' \in Sessions /\ last' = last + 1 /\ running' = TRUE /\ seen' = {}
        /\ events' = events /\ session' = [session EXCEPT ![last'] = y]
    BY <1>1, <1>5, Constants DEF StartWorldHunt, WindowOK
  <2>2. Blank(session[last']) /\ session[last'] \in SessionType
    BY <1>1, <2>1, Constants DEF SlotInv, Unborn, WindowOK
  <2>3. /\ y \in SessionType /\ y.pc = "submitted" /\ y.active = {} /\ y.sent = {}
        /\ y.count = 0
    BY <2>2 DEF SessionType, Places, Blank
  <2> HIDE DEF y
  <2>4. session' \in [Sessions -> SessionType] /\ WindowOK'
    BY <1>1, <2>1, <2>3, Constants DEF WindowOK
  <2>5. ASSUME NEW s \in Sessions PROVE Unborn(s)'
    <3>1. s > last' => s > last /\ s # last'
      BY <1>1, <2>1, Constants DEF WindowOK
    <3> QED
      BY <1>1, <2>1, <3>1 DEF Unborn, SlotInv
  <2> QED
    BY <1>1, <2>1, <2>2, <2>3, <2>4, <2>5 DEF Blank
<1>6. CASE StopWorldHunt
  <2>1. /\ running' = FALSE /\ UNCHANGED <<last, seen>> /\ last \in Sessions
        /\ events' = [events EXCEPT ![last] = <<>>]
    BY <1>1, <1>6 DEF StopWorldHunt
  <2>2. /\ session' \in [Sessions -> SessionType]
        /\ \A s \in Sessions :
             /\ session'[s].pc = session[s].pc
             /\ session'[s].active = session[s].active
             /\ session'[s].count = session[s].count
             /\ session'[s].sent = IF s = last THEN {} ELSE session[s].sent
             /\ session'[s].stop <=> session[s].stop \/ Alive(s)
    BY <1>6, StopMoves
  <2>3. ASSUME NEW s \in Sessions, s > last PROVE Blank(session[s])'
    <3>1. Blank(session[s]) /\ ~Alive(s) /\ s # last
      BY <2>1, <2>3, Constants DEF SlotInv, Unborn, Blank, Alive, At
    <3> QED
      BY <2>2, <3>1 DEF Blank
  <2>4. WindowOK'
    <3>1. <<>> \in Queues
      BY DEF Queues
    <3> QED
      BY <1>1, <2>1, <3>1 DEF WindowOK
  <2>5. \A s \in Sessions : Unborn(s)'
    BY <1>1, <2>1, <2>3, Constants DEF Unborn, SlotInv, WindowOK
  <2> QED
    BY <2>1, <2>2, <2>4, <2>5
<1>7. CASE DrainWorldHuntEvents
  <2>1. /\ last \in Sessions /\ running' \in BOOLEAN /\ last' = last
        /\ events[last] \in Queues /\ events[last] # <<>>
    BY <1>1, <1>7 DEF DrainWorldHuntEvents, WindowOK
  <2>2. Tail(events[last]) \in Queues /\ <<>> \in Queues /\ Head(events[last]) \in EventType
    BY <2>1 DEF Queues
  <2>3. events' \in [Sessions -> Queues]
        /\ \A s \in Sessions : s # last => events'[s] = events[s]
    BY <1>1, <1>7, <2>1, <2>2 DEF DrainWorldHuntEvents, WindowOK
  <2>4. seen' \subseteq Marches
    <3>1. seen' = seen \union ({Head(events[last]).march} \ {0})
      BY <1>7 DEF DrainWorldHuntEvents
    <3>2. Head(events[last]).march \in 0..MaxMarches
      BY <2>2 DEF EventType
    <3>3. {Head(events[last]).march} \ {0} \subseteq Marches
      BY <3>2, Constants
    <3> QED
      BY <1>1, <3>1, <3>3 DEF WindowOK
  <2>5. WindowOK'
    BY <1>1, <2>1, <2>3, <2>4 DEF WindowOK
  <2>6. /\ session' \in [Sessions -> SessionType]
        /\ \A s \in Sessions :
             /\ s # last => session'[s] = session[s]
             /\ session'[s].pc = session[s].pc
             /\ session'[s].active = session[s].active
             /\ session'[s].count = session[s].count
             /\ session'[s].sent = session[s].sent \/ session'[s].sent = {}
    <3>1. session' = session \/ session' = [session EXCEPT ![last] = Left]
      BY <1>7 DEF DrainWorldHuntEvents
    <3>2. CASE session' = session
      BY <1>1, <3>2
    <3>3. CASE session' = [session EXCEPT ![last] = Left]
      BY <1>1, <2>1, <3>3, LeftTyped
    <3> QED
      BY <3>1, <3>2, <3>3
  <2>7. \A s \in Sessions : Unborn(s)'
    BY <1>1, <2>1, <2>3, <2>6, Constants DEF Unborn, SlotInv, WindowOK
  <2> QED
    BY <1>1, <2>1, <2>5, <2>6, <2>7
<1>8. ASSUME NEW r \in Sessions, WorldHuntLoopFinished(r)
      PROVE  /\ session' \in [Sessions -> SessionType] /\ WindowOK'
             /\ running' => last' \in Sessions
             /\ \A s \in Sessions : Unborn(s)'
             /\ \A s \in Sessions \ {r} : session'[s] = session[s]
             /\ session'[r].active = {} /\ session'[r].sent = {}
             /\ session'[r].count = 0 /\ session'[r].pc = "drained"
  <2> DEFINE y == [NoSession EXCEPT !.pc = "drained"]
  <2>1. /\ session' = [session EXCEPT ![r] = y] /\ last' = last
        /\ session[r].pc = "over"
    BY <1>8 DEF WorldHuntLoopFinished, At
  <2>2. y \in SessionType /\ y.pc = "drained" /\ y.active = {} /\ y.sent = {}
        /\ y.count = 0
    BY <1>3 DEF SessionType, Places, NoSession
  <2> HIDE DEF y
  <2>3. ~(r > last)
    BY <2>1 DEF SlotInv, Unborn, Blank
  <2>4. /\ WindowOK'
        /\ running' => running
        /\ \A s \in Sessions \ {r} : events'[s] = events[s]
    <3>1. CASE Current(r)
      <4>1. /\ seen' = seen \union Dispatches(events[r]) /\ running' = FALSE
            /\ events' = [events EXCEPT ![r] = <<>>]
        BY <1>8, <3>1 DEF WorldHuntLoopFinished
      <4>2. Dispatches(events[r]) \subseteq Marches /\ <<>> \in Queues
        BY DEF Dispatches, Queues
      <4> QED
        BY <1>1, <2>1, <4>1, <4>2 DEF WindowOK
    <3>2. CASE ~Current(r)
      BY <1>1, <1>8, <2>1, <3>2 DEF WorldHuntLoopFinished, WindowOK
    <3> QED
      BY <3>1, <3>2
  <2>5. session' \in [Sessions -> SessionType]
        /\ \A s \in Sessions \ {r} : session'[s] = session[s]
    BY <1>1, <2>1, <2>2
  <2>6. \A s \in Sessions : Unborn(s)'
    BY <2>1, <2>3, <2>4, <2>5 DEF Unborn, SlotInv
  <2> QED
    BY <1>1, <2>1, <2>2, <2>4, <2>5, <2>6
<1>9. CASE \E r \in Sessions : WorldHuntLoopFinished(r)
  BY <1>8, <1>9
<1> QED
  BY <1>5, <1>6, <1>7, <1>9 DEF Window

LEMMA InitSlots == Init => SlotInv
<1> SUFFICES ASSUME Init PROVE SlotInv
  OBVIOUS
<1>1. NoSession \in SessionType /\ NoSession.active = {} /\ NoSession.sent = {}
      /\ NoSession.count = 0 /\ NoSession.pc = "none" /\ ~NoSession.stop
  BY Constants DEF NoSession, SessionType, Places
<1>2. GameOK /\ Answered
  <2>1. march = <<>> /\ requests = <<>> /\ Len(<<>>) = 0
    BY DEF Init
  <2>2. /\ searches = 0 /\ search = None /\ known = {} /\ faults = 0
    BY DEF Init
  <2> QED
    BY <2>1, <2>2, Constants DEF GameOK, Answered, Prepared
<1>3. WindowOK
  <2>1. <<>> \in Queues /\ 0 \in 0..MaxSessions
    BY Constants DEF Queues
  <2> QED
    BY <2>1 DEF Init, WindowOK
<1>4. session \in [Sessions -> SessionType]
  BY <1>1 DEF Init
<1>5. TypeOK
  BY <1>2, <1>3, <1>4, TypesSplit
<1>6. OnRoad = {}
  BY DEF Init, OnRoad
<1>7. ASSUME NEW s \in Sessions
      PROVE  Unborn(s) /\ Fits(session[s]) /\ NotNew(session[s])
  <2>1. session[s] = NoSession /\ events[s] = <<>>
    BY DEF Init
  <2>2. Cardinality({}) = 0
    BY FS_EmptySet
  <2>3. Fits(NoSession)
    BY <1>1, <2>2 DEF Fits
  <2> QED
    BY <1>1, <2>1, <2>3 DEF Unborn, Blank, NotNew
<1> QED
  BY <1>2, <1>5, <1>6, <1>7, FS_EmptySet, Constants DEF SlotInv, Init

LEMMA NextSlots == SlotInv /\ [Next]_vars => SlotInv'
<1> SUFFICES ASSUME SlotInv, [Next]_vars PROVE SlotInv'
  OBVIOUS
<1>1. CASE UNCHANGED vars
  <2>1. TypeOK'
    BY <1>1 DEF SlotInv, TypeOK, vars
  <2>2. OnRoad' = OnRoad /\ Answered' /\ (running' => last' \in Sessions)
    BY <1>1 DEF OnRoad, vars, Answered, Prepared, SlotInv
  <2>3. ASSUME NEW s \in Sessions
        PROVE  Unborn(s)' /\ Fits(session[s])' /\ NotNew(session[s])'
    BY <1>1, <2>2 DEF SlotInv, vars, Unborn, Fits, NotNew
  <2> QED
    BY <2>1, <2>2, <2>3 DEF SlotInv
<1> QED
  BY <1>1, SessionSlots, EnvironmentSlots, WindowSlots DEF Next

LEMMA SlotsInvariance == Spec => []SlotInv
BY InitSlots, NextSlots, PTL DEF Spec

-----------------------------------------------------------------------------
(* The window: one session moves. *)

\* A session puts its events in its own queue, while the window shows it, or
\* in one that is marked as shared.
LEMMA OwnQueue ==
  ASSUME WindowInv, NEW s \in Sessions, Alive(s), NEW e, Emit(s, e)
  PROVE  \/ Current(s) /\ events' = [events EXCEPT ![s] = Append(events[s], e)]
         \/ ~Current(s) /\ UNCHANGED events
         \/ /\ running /\ s # last /\ session[last].shared
            /\ events' = [events EXCEPT ![last] = Append(events[last], e)]
BY DEF WindowInv, Placed, Emit, Current

\* What other sessions are is not touched.
LEMMA OthersPlaced ==
  ASSUME WindowInv, NEW s \in Sessions, NEW r \in Sessions, r # s,
         session'[r] = session[r], UNCHANGED <<march, window>>,
         session[last].shared => session'[last].shared,
         events'[r] = events[r] \/ (r = last /\ session[r].shared)
  PROVE  Placed(r)'
<1>1. /\ Placed(r) /\ (Current(r)' <=> Current(r)) /\ OnRoad' = OnRoad
      /\ UNCHANGED <<last, running>>
  BY DEF WindowInv, Current, OnRoad, window
<1> QED
  BY <1>1 DEF Placed, At, Alive, Current

\* A session goes on that had nothing to report.
LEMMA Works ==
  ASSUME SlotInv, WindowInv, NEW s \in Sessions, NEW y, Alive(s),
         session' = [session EXCEPT ![s] = y], UNCHANGED <<march, events, window>>,
         y.pc \in {"starting", "filling", "searching", "found", "verifying"},
         y.out = session[s].out, y.stop <=> session[s].stop,
         y.missed <=> session[s].missed, y.shared <=> session[s].shared,
         y.sent = session[s].sent,
         session[s].active \cap OnRoad \subseteq y.active
  PROVE  WindowInv'
<1>1. /\ session'[s] = y /\ OnRoad' = OnRoad
      /\ \A r \in Sessions \ {s} : session'[r] = session[r]
      /\ UNCHANGED <<last, running, seen, events>>
  BY DEF OnRoad, window, SlotInv, TypeOK
<1>2. running => last \in Sessions
  BY DEF SlotInv
<1>6. last \in Sessions => (session'[last].shared <=> session[last].shared)
  BY <1>1
<1>7. last \in Sessions
  BY Born DEF Alive, At
<1>3. ASSUME NEW r \in Sessions \ {s} PROVE Placed(r)'
  BY <1>1, <1>6, <1>7, OthersPlaced
<1>4. Placed(s)'
  <2>1. Placed(s) /\ (Current(s)' <=> Current(s)) /\ Alive(s)' /\ ~At(s, {"submitted"})'
    BY <1>1 DEF WindowInv, Current, Alive, At
  <2> QED
    BY <1>1, <1>6, <1>7, <2>1 DEF Placed
<1>5. Shown'
  <2>1. running => session'[last].sent = session[last].sent
    BY <1>1, <1>2
  <2>2. running => ~At(last, {"none", "drained"})'
    BY <1>1, <1>2 DEF WindowInv, Shown, At
  <2> QED
    BY <1>1, <1>6, <1>7, <2>1, <2>2 DEF WindowInv, Shown
<1> QED
  BY <1>3, <1>4, <1>5 DEF WindowInv

\* A session ends, with an error or without.
LEMMA SessionEnds ==
  ASSUME SlotInv, WindowInv, NEW s \in Sessions, Exits(s), UNCHANGED <<march, window>>,
         \/ Alive(s) /\ (Emit(s, Failure) \/ UNCHANGED events)
         \/ At(s, {"submitted"}) /\ UNCHANGED events
  PROVE  WindowInv'
<1> DEFINE y == Gone(s)
<1>1. /\ session'[s] = y /\ y.pc = "over" /\ y.sent = session[s].sent
      /\ y.shared <=> session[s].shared
      /\ \A r \in Sessions \ {s} : session'[r] = session[r]
      /\ UNCHANGED <<last, running, seen>>
  BY GoneTyped DEF Exits, Gone, window, SlotInv, TypeOK
<1>2. \/ UNCHANGED events
      \/ /\ Alive(s) /\ Current(s)
         /\ events' = [events EXCEPT ![s] = Append(events[s], Failure)]
      \/ /\ running /\ s # last /\ session[last].shared
         /\ events' = [events EXCEPT ![last] = Append(events[last], Failure)]
  BY OwnQueue
<1>3. events \in [Sessions -> Queues] /\ last \in Sessions
  BY TypesSplit, Born DEF SlotInv, WindowOK, Alive, At
<1> HIDE DEF y
<1>8. session'[last].shared <=> session[last].shared
  BY <1>1, <1>3
<1>4. ASSUME NEW r \in Sessions \ {s} PROVE Placed(r)'
  <2>1. events'[r] = events[r] \/ (r = last /\ session[r].shared)
    BY <1>2, <1>3
  <2> QED
    BY <1>1, <1>8, <2>1, OthersPlaced
<1>5. Placed(s)'
  <2>1. Placed(s) /\ (Current(s)' <=> Current(s)) /\ ~Alive(s)' /\ ~At(s, {"submitted"})'
    BY <1>1 DEF WindowInv, Current, Alive, At
  <2> QED
    BY <1>1, <2>1 DEF Placed
<1>6. ASSUME running, ~session[last].shared PROVE Shown'
  <2>1. /\ events[last] \in Queues /\ ~At(last, {"none", "drained"})
        /\ QueueOK(events[last])
        /\ seen \union InQueue(events[last]) = session[last].sent
        /\ seen \cap InQueue(events[last]) = {}
    BY <1>3, <1>6 DEF WindowInv, Shown
  <2>2. session'[last].sent = session[last].sent /\ ~At(last, {"none", "drained"})'
    BY <1>1, <1>3, <2>1 DEF At
  <2>3. QueueOK(events'[last]) /\ InQueue(events'[last]) = InQueue(events[last])
    <3>1. CASE UNCHANGED events
      BY <2>1, <3>1
    <3>2. CASE /\ Alive(s) /\ Current(s)
               /\ events' = [events EXCEPT ![s] = Append(events[s], Failure)]
      <4>1. s = last /\ NoFailure(events[last])
            /\ events'[last] = Append(events[last], Failure)
        BY <1>3, <1>6, <3>2 DEF WindowInv, Placed, Current
      <4>2. /\ QueueOK(events'[last])
            /\ InQueue(events'[last]) = InQueue(events[last]) \union ({Failure.march} \ {0})
        BY <2>1, <4>1, AppendEvent
      <4>3. {Failure.march} \ {0} = {}
        BY EventsTyped
      <4> QED
        BY <4>2, <4>3
    <3> QED
      BY <1>2, <1>6, <3>1, <3>2
  <2> QED
    BY <1>1, <2>1, <2>2, <2>3 DEF Shown
<1>9. ASSUME running, session[last].shared PROVE Shown'
  <2>1. ~At(last, {"none", "drained"})'
    BY <1>1, <1>3, <1>9 DEF WindowInv, Shown, At
  <2> QED
    BY <1>1, <1>8, <1>9, <2>1 DEF Shown
<1>7. Shown'
  BY <1>1, <1>6, <1>9 DEF Shown
<1> QED
  BY <1>4, <1>5, <1>7 DEF WindowInv

\* A march is verified, which the session had not verified before.
LEMMA VerifiedWindow ==
  ASSUME SlotInv, WindowInv, NEW s \in Sessions, At(s, {"verifying"}),
         NEW m \in OnRoad, Verified(s, m), UNCHANGED <<march, window>>
  PROVE  WindowInv'
<1> DEFINE x == session[s]
           y == Tracks(s, m)
<1>1. /\ m \notin x.active /\ session' = [session EXCEPT ![s] = y]
      /\ Emit(s, Dispatch(m)) /\ Alive(s) /\ x.pc = "verifying"
  BY DEF Verified, Alive, At
<1>2. /\ y.pc = "filling" /\ y.active = x.active \union {m}
      /\ y.sent = IF Current(s) THEN x.sent \union {m} ELSE x.sent
      /\ y.out = x.out
      /\ y.stop <=> x.stop
      /\ y.missed <=> x.missed
      /\ y.shared <=> x.shared
  BY <1>1, VerifiedSession
<1> HIDE DEF y
<1>3. /\ session'[s] = y /\ OnRoad' = OnRoad
      /\ \A r \in Sessions \ {s} : session'[r] = session[r]
      /\ UNCHANGED <<last, running, seen>>
      /\ events \in [Sessions -> Queues] /\ m \in Marches /\ last \in Sessions
  BY <1>1, TypesSplit, Road, Born DEF OnRoad, window, SlotInv, WindowOK
<1>4. Placed(s) /\ x.sent \cap OnRoad \subseteq x.active
  BY <1>1 DEF WindowInv, Placed
<1>5. m \notin x.sent
  BY <1>1, <1>4
<1>6. \/ Current(s) /\ events' = [events EXCEPT ![s] = Append(events[s], Dispatch(m))]
      \/ ~Current(s) /\ UNCHANGED events
      \/ /\ running /\ s # last /\ session[last].shared
         /\ events' = [events EXCEPT ![last] = Append(events[last], Dispatch(m))]
  BY <1>1, OwnQueue
<1>12. session'[last].shared <=> session[last].shared
  BY <1>2, <1>3
<1>7. \A r \in Sessions \ {s} :
        events'[r] = events[r] \/ (r = last /\ session[r].shared)
  BY <1>3, <1>6 DEF Current
<1>8. ASSUME NEW r \in Sessions \ {s} PROVE Placed(r)'
  BY <1>3, <1>7, <1>12, OthersPlaced
<1>9. Current(s) /\ ~x.shared =>
        /\ events'[s] = Append(events[s], Dispatch(m))
        /\ QueueOK(events'[s]) /\ NoFailure(events'[s])
        /\ InQueue(events'[s]) = InQueue(events[s]) \union {m}
        /\ seen \union InQueue(events[s]) = x.sent
        /\ seen \cap InQueue(events[s]) = {}
  <2> SUFFICES ASSUME Current(s), ~x.shared
               PROVE  /\ events'[s] = Append(events[s], Dispatch(m))
                      /\ QueueOK(events'[s]) /\ NoFailure(events'[s])
                      /\ InQueue(events'[s]) = InQueue(events[s]) \union {m}
                      /\ seen \union InQueue(events[s]) = x.sent
                      /\ seen \cap InQueue(events[s]) = {}
    OBVIOUS
  <2>1. /\ running /\ s = last /\ QueueOK(events[s]) /\ events[s] \in Queues
        /\ seen \union InQueue(events[s]) = x.sent
        /\ seen \cap InQueue(events[s]) = {}
        /\ NoFailure(events[s])
    BY <1>1, <1>3, <1>4 DEF Current, WindowInv, Shown, Placed
  <2>2. events'[s] = Append(events[s], Dispatch(m))
    BY <1>3, <1>6, <2>1 DEF Current
  <2>3. m \in Marches \ InQueue(events[s]) /\ Dispatch(m).march = m
        /\ Dispatch(m) # Failure /\ m # 0
    BY <1>3, <1>5, <2>1, EventsTyped, Constants
  <2> QED
    BY <2>1, <2>2, <2>3, AppendEvent
<1>10. Placed(s)'
  <2>1. /\ Current(s)' <=> Current(s)
        /\ ~At(s, {"submitted"})'
    BY <1>2, <1>3 DEF Current, At
  <2>2. y.sent \cap OnRoad \subseteq y.active
    BY <1>2, <1>4
  <2> QED
    BY <1>1, <1>2, <1>3, <1>4, <1>9, <1>12, <2>1, <2>2 DEF Placed
<1>11. Shown'
  <2>1. CASE ~running
    BY <1>3, <2>1 DEF Shown
  <2>2. CASE running /\ s = last /\ ~session[last].shared
    <3>1. /\ QueueOK(events'[s]) /\ InQueue(events'[s]) = InQueue(events[s]) \union {m}
          /\ seen \union InQueue(events[s]) = x.sent
          /\ seen \cap InQueue(events[s]) = {}
      BY <1>9, <2>2 DEF Current
    <3>2. /\ seen \union InQueue(events'[s]) = y.sent
          /\ seen \cap InQueue(events'[s]) = {}
      BY <1>2, <1>5, <2>2, <3>1 DEF Current
    <3> QED
      BY <1>2, <1>3, <2>2, <3>1, <3>2 DEF Shown, At
  <2>3. CASE running /\ s # last /\ ~session[last].shared
    <3>1. session'[last] = session[last] /\ events'[last] = events[last]
      BY <1>3, <1>7, <2>3
    <3> QED
      BY <1>3, <2>3, <3>1 DEF WindowInv, Shown, At
  <2>4. CASE running /\ session[last].shared
    <3>1. ~At(last, {"none", "drained"})'
      BY <1>2, <1>3, <2>4 DEF WindowInv, Shown, At
    <3> QED
      BY <1>3, <1>12, <2>4, <3>1 DEF Shown
  <2> QED
    BY <2>1, <2>2, <2>3, <2>4
<1> QED
  BY <1>8, <1>10, <1>11 DEF WindowInv

LEMMA StartProcessWindow ==
  ASSUME SlotInv, WindowInv, NEW s \in Sessions, StartProcess(s)
  PROVE  WindowInv'
<1>1. /\ session' \in [Sessions -> SessionType] /\ last \in Sessions
      /\ UNCHANGED <<march, events, last, running, seen>>
      /\ session[s].pc = "submitted" /\ session'[s].pc = "starting"
      /\ session'[s].out = last
      /\ \A r \in Sessions :
           /\ r # s => session'[r].pc = session[r].pc
           /\ r # s => session'[r].out = session[r].out
           /\ session'[r].active = session[r].active
           /\ session'[r].sent = session[r].sent
           /\ session'[r].stop <=> session[r].stop
           /\ session'[r].missed <=> session[r].missed
           /\ session'[r].shared <=> session[r].shared \/ (r = last /\ s # last)
  BY StartProcessMoves
<1>2. /\ OnRoad' = OnRoad
      /\ \A r \in Sessions : Placed(r) /\ (Current(r)' <=> Current(r))
      /\ last \in Nat
  BY <1>1, Constants DEF WindowInv, Current, OnRoad
<1>3. Placed(s)'
  <2>1. /\ session[s].sent = {} /\ (Current(s) \/ session[s].missed)
        /\ Current(s) /\ ~session[s].shared => events[s] = <<>>
    BY <1>1, <1>2 DEF Placed, At
  <2>2. s # last => session'[last].shared
    BY <1>1
  <2> QED
    BY <1>1, <1>2, <2>1, <2>2, EmptyQueue DEF Placed, At, Current
<1>4. ASSUME NEW r \in Sessions, r # s PROVE Placed(r)'
  <2>1. /\ Alive(r)' <=> Alive(r)
        /\ At(r, {"submitted"})' <=> At(r, {"submitted"})
        /\ session[last].shared => session'[last].shared
    BY <1>1, <1>4 DEF Alive, At
  <2>2. Placed(r)
    BY <1>2
  <2> QED
    BY <1>1, <1>2, <1>4, <2>1, <2>2 DEF Placed
<1>5. Shown'
  <2>1. running => ~At(last, {"none", "drained"})'
    BY <1>1 DEF WindowInv, Shown, At
  <2> QED
    BY <1>1, <2>1 DEF WindowInv, Shown
<1> QED
  BY <1>3, <1>4, <1>5 DEF WindowInv

LEMMA CliStepWindow ==
  ASSUME SlotInv, WindowInv, NEW s \in Sessions, CliStep(s)
  PROVE  WindowInv'
<1> DEFINE x == session[s]
<1>1. /\ x \in SessionType /\ session \in [Sessions -> SessionType]
      /\ Cardinality(OnRoad) \in 0..Slots /\ Occupied(s) \in 0..Slots
      /\ session = [session EXCEPT ![s] = x]
  BY Counts
<1>2. Alive(s) /\ UNCHANGED <<march, window>>
  BY CliStepGame DEF CliStep, RefreshCapacity, SearchSent, SearchResult,
     SearchRecovers, Commit, CommitBlocked, Verify, PollStatus, At, Alive
<1>3. ASSUME NEW p \in {"filling", "searching", "found", "verifying"}, NEW n \in 0..Slots,
             NEW a \in Monsters \union {None}, UNCHANGED events,
             session' = [session EXCEPT ![s] = [x EXCEPT !.pc = p, !.count = n, !.aim = a]]
      PROVE  WindowInv'
  <2> DEFINE y == [x EXCEPT !.pc = p, !.count = n, !.aim = a]
  <2>1. /\ y.pc = p /\ y.active = x.active /\ y.out = x.out /\ y.sent = x.sent
        /\ y.stop <=> x.stop
        /\ y.missed <=> x.missed
        /\ y.shared <=> x.shared
    BY <1>1 DEF SessionType
  <2>2. session' = [session EXCEPT ![s] = y]
    BY <1>3
  <2> HIDE DEF y
  <2>3. /\ UNCHANGED <<march, events, window>>
        /\ y.pc \in {"starting", "filling", "searching", "found", "verifying"}
    BY <1>2, <1>3, <2>1
  <2> QED
    BY <1>2, <2>1, <2>2, <2>3, Works
<1>4. CASE Exits(s) /\ (Emit(s, Failure) \/ UNCHANGED events)
  BY <1>2, <1>4, SessionEnds
<1>5. CASE RefreshCapacity(s)
  <2>1. session' = [session EXCEPT ![s] = [x EXCEPT !.pc = "filling",
                          !.count = Cardinality(OnRoad), !.aim = x.aim]]
    BY <1>1, <1>5 DEF RefreshCapacity, SessionType
  <2> QED
    BY <1>1, <1>3, <1>5, <2>1 DEF RefreshCapacity, SessionType
<1>6. CASE UNCHANGED <<session, events>>
  <2>1. x.pc \in {"starting", "filling", "searching", "found", "verifying"}
    BY <1>2 DEF Alive, At
  <2> QED
    BY <1>1, <1>2, <1>6, <2>1, Works
<1>7. CASE SearchSent(s) /\ session' # session
  <2>1. session' = [session EXCEPT ![s] = [x EXCEPT !.pc = "searching",
                          !.count = x.count, !.aim = x.aim]]
    BY <1>1, <1>7 DEF SearchSent, Goes, SessionType
  <2> QED
    BY <1>1, <1>3, <1>7, <2>1 DEF SearchSent, SessionType
<1>8. CASE SearchResult(s)
  <2>1. session' = [session EXCEPT ![s] = [x EXCEPT !.pc = "found",
                          !.count = x.count, !.aim = search.at]]
    BY <1>1, <1>8 DEF SearchResult, SessionType
  <2>2. search.at \in Monsters \union {None}
    BY <1>8, TypesSplit DEF SearchResult, SlotInv, GameOK, Searches
  <2> QED
    BY <1>1, <1>3, <1>8, <2>1, <2>2 DEF SearchResult, SessionType
<1>9. CASE SearchRecovers(s)
  <2>1. session' = [session EXCEPT ![s] = [x EXCEPT !.pc = "filling",
                          !.count = x.count, !.aim = x.aim]]
    BY <1>1, <1>9 DEF SearchRecovers, Goes, SessionType
  <2> QED
    BY <1>1, <1>3, <1>9, <2>1 DEF SearchRecovers, SessionType
<1>10. CASE CommitBlocked(s)
  <2>1. session' = [session EXCEPT ![s] = [x EXCEPT !.pc = "filling",
                          !.count = Occupied(s), !.aim = None]]
    BY <1>1, <1>10 DEF CommitBlocked, SessionType
  <2> QED
    BY <1>1, <1>3, <1>10, <2>1 DEF CommitBlocked, SessionType
<1>11. CASE Commit(s)
  <2>1. \/ /\ UNCHANGED events
           /\ session' = [session EXCEPT ![s] = [x EXCEPT !.pc = "verifying",
                                 !.count = Occupied(s), !.aim = x.aim]]
        \/ Exits(s) /\ Emit(s, Failure)
        \/ UNCHANGED <<session, events>>
    BY <1>1, <1>11 DEF Commit, SessionType
  <2> QED
    BY <1>1, <1>3, <1>4, <1>6, <2>1 DEF SessionType
<1>12. CASE Verify(s)
  <2>1. At(s, {"verifying"})
    BY <1>12 DEF Verify
  <2> QED
    BY <1>2, <1>4, <1>12, <2>1, VerifyCases, VerifiedWindow
<1>13. CASE PollStatus(s)
  <2> DEFINE y == [x EXCEPT !.active = @ \cap OnRoad, !.count = Cardinality(OnRoad)]
  <2>1. CASE AppliesStatus(s) /\ UNCHANGED events
    <3>1. session' = [session EXCEPT ![s] = y]
      BY <1>1, <2>1 DEF AppliesStatus
    <3>2. x.active \in SUBSET Marches /\ x.pc = "filling"
      BY <1>1, <1>13 DEF PollStatus, SessionType, At
    <3>3. /\ y.pc = "filling" /\ y.active = x.active \cap OnRoad
          /\ y.sent = x.sent /\ y.out = x.out
          /\ y.stop <=> x.stop
          /\ y.missed <=> x.missed
          /\ y.shared <=> x.shared
      BY <1>1, <3>2 DEF SessionType
    <3> HIDE DEF y
    <3> QED
      BY <1>2, <2>1, <3>1, <3>3, Works
  <2> QED
    BY <1>4, <1>13, <2>1 DEF PollStatus
<1> QED
  BY <1>5, <1>6, <1>7, <1>8, <1>9, <1>10, <1>11, <1>12, <1>13 DEF CliStep, SearchSent

LEMMA SessionWindow ==
  ASSUME SlotInv, WindowInv, NEW s \in Sessions, Session(s)
  PROVE  WindowInv'
<1>1. CASE CliFails(s) \/ Stopped(s)
  <2>1. /\ Exits(s) /\ UNCHANGED <<march, window>>
        /\ \/ Alive(s) /\ (Emit(s, Failure) \/ UNCHANGED events)
           \/ At(s, {"submitted"}) /\ UNCHANGED events
    BY <1>1 DEF CliFails, Stopped, game
  <2> QED
    BY <2>1, SessionEnds
<1> QED
  BY <1>1, StartProcessWindow, CliStepWindow DEF Session

LEMMA EnvironmentWindow ==
  ASSUME SlotInv, WindowInv, Environment
  PROVE  WindowInv'
<1>1. MarchesMove /\ UNCHANGED <<session, events, last, running, seen>>
  BY EnvironmentGame DEF window
<1>2. ASSUME NEW s \in Sessions PROVE Placed(s)'
  <2>1. Placed(s) /\ session[s].sent \subseteq DOMAIN march
    BY DEF WindowInv, SlotInv, Fits
  <2>2. session[s].sent \cap OnRoad' \subseteq session[s].sent \cap OnRoad
    BY <1>1, <2>1 DEF MarchesMove
  <2>3. Alive(s)' <=> Alive(s)
    BY <1>1 DEF Alive, At
  <2>4. Current(s)' <=> Current(s)
    BY <1>1 DEF Current
  <2> QED
    BY <1>1, <2>1, <2>2, <2>3, <2>4 DEF Placed, At
<1>3. Shown'
  BY <1>1 DEF WindowInv, Shown, At
<1> QED
  BY <1>2, <1>3 DEF WindowInv

-----------------------------------------------------------------------------
(* The window: its own steps. *)

LEMMA StartWindow ==
  ASSUME SlotInv, WindowInv, StartWorldHunt
  PROVE  WindowInv'
<1> DEFINE y == [session[last'] EXCEPT !.pc = "submitted"]
<1>1. /\ last' \in Sessions /\ last' = last + 1 /\ ~running /\ running' = TRUE
      /\ seen' = {} /\ events' = events /\ march' = march
      /\ session' = [session EXCEPT ![last'] = y]
      /\ session \in [Sessions -> SessionType] /\ last \in 0..MaxSessions
  BY TypesSplit, Constants DEF StartWorldHunt, SlotInv, WindowOK, game
<1>2. Blank(session[last']) /\ events[last'] = <<>> /\ session[last'] \in SessionType
  BY <1>1, Constants DEF SlotInv, Unborn
<1>3. /\ session'[last'] = y /\ y.pc = "submitted" /\ y.sent = {}
      /\ ~y.stop
      /\ \A r \in Sessions : r # last' => session'[r] = session[r]
  BY <1>1, <1>2 DEF SessionType, Blank
<1> HIDE DEF y
<1>4. ASSUME NEW n \in Sessions, n = last' PROVE Placed(n)' /\ Shown'
  <2>1. /\ session'[n].pc = "submitted" /\ session'[n].sent = {}
        /\ ~session'[n].stop
        /\ events'[n] = <<>> /\ Current(n)' /\ seen' = {}
    BY <1>1, <1>2, <1>3, <1>4 DEF Current
  <2>2. Placed(n)'
    BY <1>1, <2>1 DEF Placed, At, Alive
  <2>3. /\ QueueOK(events'[n]) /\ seen' \union InQueue(events'[n]) = session'[n].sent
        /\ seen' \cap InQueue(events'[n]) = {}
    BY <2>1, EmptyQueue
  <2>4. Shown'
    BY <1>4, <2>1, <2>3 DEF Shown, At
  <2> QED
    BY <2>2, <2>4
<1>5. ASSUME NEW r \in Sessions, r # last' PROVE Placed(r)'
  <2>1. /\ Placed(r) /\ ~Current(r) /\ session'[r] = session[r]
        /\ OnRoad' = OnRoad
    BY <1>1, <1>3, <1>5 DEF WindowInv, Current, OnRoad
  <2>2. ~Current(r)'
    BY <1>5 DEF Current
  <2>3. /\ session[r].sent = {}
        /\ At(r, {"submitted"}) => session[r].missed
        /\ Alive(r) => /\ session[r].out <= last /\ session[r].out \in Nat
                       /\ ~session[r].stop => session[r].missed \/ session[r].shared
    <3>1. session[r].out \in Sessions
      BY <1>1 DEF SessionType
    <3>2. session[r].out \in Nat
      BY <3>1, Constants
    <3> QED
      BY <2>1, <3>2 DEF Placed
  <2>4. Alive(r) => session[r].out <= last' /\ session[r].out # last'
    BY <1>1, <2>3, Constants
  <2> QED
    BY <1>5, <2>1, <2>2, <2>3, <2>4 DEF Placed, At, Alive
<1> QED
  BY <1>1, <1>4, <1>5 DEF WindowInv

LEMMA StopWindow ==
  ASSUME SlotInv, WindowInv, StopWorldHunt
  PROVE  WindowInv'
<1>1. /\ running' = FALSE /\ running /\ last' = last /\ OnRoad' = OnRoad
  BY DEF StopWorldHunt, game, OnRoad
<1>2. \A s \in Sessions :
        /\ session'[s].pc = session[s].pc
        /\ session'[s].active = session[s].active
        /\ session'[s].out = session[s].out
        /\ session'[s].sent = IF s = last THEN {} ELSE session[s].sent
        /\ session'[s].stop <=> session[s].stop \/ Alive(s)
        /\ session'[s].missed <=>
             IF s = last THEN At(last, {"submitted"}) ELSE session[s].missed
  BY StopMoves
<1>3. ASSUME NEW s \in Sessions PROVE Placed(s)'
  <2>1. Placed(s) /\ ~Current(s)' /\ (Current(s) => s = last)
    BY <1>1 DEF WindowInv, Current
  <2>2. session'[s].sent = {}
    BY <1>2, <2>1 DEF Placed
  <2>3. At(s, {"submitted"}) => session'[s].missed
    BY <1>2, <2>1 DEF Placed
  <2>4. /\ Alive(s)' <=> Alive(s)
        /\ At(s, {"submitted"})' <=> At(s, {"submitted"})
    BY <1>2 DEF Alive, At
  <2> QED
    BY <1>1, <1>2, <2>1, <2>2, <2>3, <2>4 DEF Placed
<1>4. Shown'
  BY <1>1 DEF Shown
<1> QED
  BY <1>3, <1>4 DEF WindowInv

LEMMA DrainWindow ==
  ASSUME SlotInv, WindowInv, DrainWorldHuntEvents
  PROVE  WindowInv'
<1> DEFINE q == events[last]
<1>1. /\ running /\ last \in Sessions /\ q # <<>> /\ q \in Queues
      /\ events \in [Sessions -> Queues] /\ session \in [Sessions -> SessionType]
      /\ UNCHANGED <<march, last>> /\ OnRoad' = OnRoad
  BY TypesSplit DEF DrainWorldHuntEvents, SlotInv, WindowOK, game, OnRoad
<1>2. /\ running' <=> Head(q) # Failure
      /\ running' => events'[last] = Tail(q) /\ session' = session
      /\ ~running' => session' = [session EXCEPT ![last] = Left]
      /\ seen' = seen \union ({Head(q).march} \ {0})
      /\ \A r \in Sessions : r # last => events'[r] = events[r]
  BY <1>1 DEF DrainWorldHuntEvents
<1>3. /\ ~At(last, {"none", "drained"}) /\ Placed(last) /\ Current(last)
      /\ ~session[last].shared =>
           /\ QueueOK(q) /\ seen \union InQueue(q) = session[last].sent
           /\ seen \cap InQueue(q) = {}
           /\ ~At(last, {"submitted"})
           /\ Alive(last) => NoFailure(q)
  BY <1>1 DEF WindowInv, Shown, Placed, Current
<1> HIDE DEF q
<1>4. ~session[last].shared =>
        /\ QueueOK(Tail(q))
        /\ InQueue(q) = InQueue(Tail(q)) \union ({Head(q).march} \ {0})
        /\ Head(q).march \notin InQueue(Tail(q))
        /\ NoFailure(q) => NoFailure(Tail(q)) /\ Head(q) # Failure
  BY <1>1, <1>3, ReadEvent
<1>5. CASE running'
  <2>1. ASSUME NEW r \in Sessions PROVE Placed(r)'
    <3>1. Placed(r) /\ (Current(r)' <=> Current(r)) /\ session' = session
      BY <1>1, <1>2, <1>5 DEF WindowInv, Current
    <3>2. Alive(r)' <=> Alive(r)
      BY <3>1 DEF Alive, At
    <3>3. CASE r = last
      BY <1>1, <1>2, <1>3, <1>4, <1>5, <3>1, <3>2, <3>3 DEF Placed, At
    <3>4. CASE r # last
      BY <1>1, <1>2, <3>1, <3>2, <3>4 DEF Placed, At
    <3> QED
      BY <3>3, <3>4
  <2>2. Shown'
    BY <1>1, <1>2, <1>3, <1>4, <1>5 DEF Shown, At
  <2> QED
    BY <2>1, <2>2 DEF WindowInv
<1>6. CASE ~running'
  <2>1. /\ session'[last].sent = {} /\ session'[last].pc = session[last].pc
        /\ session'[last].active = session[last].active
        /\ session'[last].out = session[last].out
        /\ session'[last].stop <=> session[last].stop
        /\ session'[last].shared <=> session[last].shared
        /\ session'[last].missed <=> At(last, {"submitted"})
        /\ \A r \in Sessions : r # last => session'[r] = session[r]
    BY <1>1, <1>2, <1>6, LeftTyped
  <2>2. Placed(last)'
    <3>1. ~Current(last)' /\ (Alive(last)' <=> Alive(last))
          /\ (At(last, {"submitted"})' <=> At(last, {"submitted"}))
      BY <1>1, <1>6, <2>1 DEF Current, Alive, At
    <3>2. Alive(last) => session[last].shared
      BY <1>2, <1>3, <1>4, <1>6
    <3> QED
      BY <1>1, <1>3, <1>6, <2>1, <3>1, <3>2 DEF Placed
  <2>3. ASSUME NEW r \in Sessions, r # last PROVE Placed(r)'
    <3>1. Placed(r) /\ ~Current(r) /\ ~Current(r)' /\ session'[r] = session[r]
      BY <1>1, <2>1, <2>3 DEF WindowInv, Current
    <3> QED
      BY <1>1, <1>6, <2>3, <3>1 DEF Placed, At, Alive
  <2>4. Shown'
    BY <1>6 DEF Shown
  <2> QED
    BY <1>1, <2>2, <2>3, <2>4 DEF WindowInv
<1> QED
  BY <1>5, <1>6

LEMMA FinishedWindow ==
  ASSUME SlotInv, WindowInv, NEW s \in Sessions, WorldHuntLoopFinished(s)
  PROVE  WindowInv'
<1>1. /\ session[s].pc = "over" /\ session \in [Sessions -> SessionType]
      /\ events \in [Sessions -> Queues]
      /\ UNCHANGED <<march, last>> /\ OnRoad' = OnRoad
  BY TypesSplit DEF WorldHuntLoopFinished, At, SlotInv, WindowOK, game, OnRoad
<1>2. session' = [session EXCEPT ![s] = [NoSession EXCEPT !.pc = "drained"]]
  BY DEF WorldHuntLoopFinished
<1>3. /\ session'[s].pc = "drained"
      /\ \A r \in Sessions \ {s} : session'[r] = session[r]
  BY <1>1, <1>2 DEF NoSession
<1>4. Placed(s)'
  <2>1. session'[s].sent = {}
    BY <1>1, <1>2 DEF NoSession
  <2>2. ~Alive(s)' /\ ~At(s, {"submitted"})'
    BY <1>3 DEF Alive, At
  <2> QED
    BY <2>1, <2>2 DEF Placed
<1>5. CASE Current(s)
  <2>1. running' = FALSE /\ running /\ s = last
        /\ \A r \in Sessions \ {s} : events'[r] = events[r]
    BY <1>1, <1>5 DEF WorldHuntLoopFinished, Current
  <2>2. ASSUME NEW r \in Sessions \ {s} PROVE Placed(r)'
    <3>1. Placed(r) /\ ~Current(r) /\ ~Current(r)'
      BY <2>1 DEF WindowInv, Current
    <3> QED
      BY <1>1, <1>3, <2>1, <3>1 DEF Placed, At, Alive
  <2>3. Shown'
    BY <2>1 DEF Shown
  <2> QED
    BY <1>4, <2>2, <2>3 DEF WindowInv
<1>6. CASE ~Current(s)
  <2>1. UNCHANGED <<running, seen, events>>
    BY <1>6 DEF WorldHuntLoopFinished
  <2>3. running => last \in Sessions \ {s}
    BY <1>6 DEF Current, SlotInv
  <2>2. ASSUME NEW r \in Sessions \ {s} PROVE Placed(r)'
    <3>1. Placed(r) /\ (Current(r)' <=> Current(r)) /\ (Alive(r)' <=> Alive(r))
          /\ session'[r] = session[r]
      BY <1>1, <1>3, <2>1 DEF WindowInv, Current, Alive, At
    <3> QED
      BY <1>1, <1>3, <2>1, <2>3, <3>1 DEF Placed, At
  <2>4. Shown'
    BY <1>1, <1>3, <2>1, <2>3 DEF WindowInv, Shown, At
  <2> QED
    BY <1>4, <2>2, <2>4 DEF WindowInv
<1> QED
  BY <1>5, <1>6

-----------------------------------------------------------------------------
(* The theorems. *)

LEMMA WindowInvariance == Spec => [](SlotInv /\ WindowInv)
<1>1. Init => WindowInv
  BY DEF Init, WindowInv, Shown, Placed, At, Alive, NoSession, Current
<1>2. SlotInv /\ WindowInv /\ [Next]_vars => WindowInv'
  <2> SUFFICES ASSUME SlotInv, WindowInv, [Next]_vars PROVE WindowInv'
    OBVIOUS
  <2>1. CASE UNCHANGED vars
    <3>1. OnRoad' = OnRoad
      BY <2>1 DEF OnRoad, vars
    <3>2. Shown'
      BY <2>1 DEF WindowInv, Shown, At, vars
    <3>3. ASSUME NEW s \in Sessions PROVE Placed(s)'
      BY <2>1, <3>1 DEF WindowInv, Placed, At, Alive, Current, vars
    <3> QED
      BY <3>2, <3>3 DEF WindowInv
  <2>2. CASE Window
    BY <2>2, StartWindow, StopWindow, DrainWindow, FinishedWindow DEF Window
  <2> QED
    BY <2>1, <2>2, EnvironmentWindow, SessionWindow DEF Next
<1> QED
  BY <1>1, <1>2, SlotsInvariance, PTL DEF Spec

\* Every reachable state has the types the code gives it: a session never
\* counts more marches than there are slots.
THEOREM WorldTypes == Spec => []TypeOK
<1>1. SlotInv => TypeOK
  BY DEF SlotInv
<1> QED
  BY <1>1, SlotsInvariance, PTL

\* A march the loop tracks was on the road when the last request was recorded,
\* whichever session made it, so that verifying never takes it for a new one.
THEOREM TrackedStayOld == Spec => []TrackedAreNotNew
<1>1. SlotInv => TrackedAreNotNew
  BY DEF SlotInv, NotNew, TrackedAreNotNew, At
<1> QED
  BY <1>1, SlotsInvariance, PTL

\* What the window shows and what is still in the queue of its session are what
\* that session verified, each once (_apply_world_hunt_loop_event), unless an
\* earlier start took the queue.
THEOREM ShownIsExact == Spec => []CountsAreExact
<1>1. SlotInv /\ WindowInv => CountsAreExact
  <2> SUFFICES ASSUME SlotInv, WindowInv, running, ~session[last].shared
               PROVE  /\ At(last, {"submitted"}) =>
                           seen \union InQueue(events[last]) = {}
                      /\ seen \union InQueue(events[last]) = session[last].sent
                      /\ seen \cap InQueue(events[last]) = {}
    BY DEF CountsAreExact, InQueue
  <2>1. last \in Sessions
    BY DEF SlotInv
  <2> QED
    BY <2>1 DEF WindowInv, Shown, Placed
<1> QED
  BY <1>1, WindowInvariance, PTL

\* A loop that the window does not show has been asked to stop, unless its own
\* stop came before it had a process, or it was given up with a shared queue.
THEOREM UnseenAreStopped == Spec => []NoLoopRunsUnseen
<1>1. WindowInv => NoLoopRunsUnseen
  BY DEF WindowInv, Placed, NoLoopRunsUnseen
<1> QED
  BY <1>1, WindowInvariance, PTL

\* A loop that ends by itself, and whose queue no other took, has shown every
\* march it dispatched: an error is the last of its events, and the end of its
\* process drains what is left.
THEOREM NothingIsDropped == Spec => EndShowsAll
<1>1. SlotInv /\ WindowInv /\ [Next]_vars
        => [EndsByItself /\ ~session[last].shared => seen' = session[last].sent]_vars
  <2> SUFFICES ASSUME SlotInv, WindowInv, Next, EndsByItself, ~session[last].shared
               PROVE  seen' = session[last].sent
    OBVIOUS
  <2> DEFINE q == events[last]
  <2>1. /\ running /\ ~running'
        /\ last \in Sessions /\ q \in Queues /\ QueueOK(q)
        /\ seen \union InQueue(q) = session[last].sent
        /\ session[last].pc \notin {"none", "drained"}
        /\ session \in [Sessions -> SessionType]
    BY TypesSplit DEF EndsByItself, SlotInv, WindowOK, WindowInv, Shown, At
  <2> HIDE DEF q
  <2>2. q # <<>> /\ Head(q) = Failure => seen = session[last].sent
    BY <2>1, ReadEvent
  <2>3. ASSUME NEW s \in Sessions, WorldHuntLoopFinished(s)
        PROVE  seen' = session[last].sent
    <3>1. s = last /\ seen' = seen \union Dispatches(q)
      BY <2>1, <2>3 DEF WorldHuntLoopFinished, Current, q
    <3> QED
      BY <2>1, <3>1, DrainedAll
  <2>4. CASE StopWorldHunt
    <3>1. session'[last].pc = session[last].pc /\ seen' = seen
      BY <2>4, StopMoves DEF StopWorldHunt
    <3> QED
      BY <2>1, <2>2, <3>1 DEF EndsByItself, q
  <2>5. CASE DrainWorldHuntEvents
    <3>1. q # <<>> /\ Head(q) = Failure /\ seen' = seen \union ({Head(q).march} \ {0})
      BY <2>1, <2>5 DEF DrainWorldHuntEvents, q
    <3>2. {Head(q).march} \ {0} = {}
      BY <3>1, EventsTyped
    <3> QED
      BY <2>2, <3>1, <3>2
  <2>6. CASE Environment
    BY <2>1, <2>6, EnvironmentGame DEF window
  <2>7. ASSUME NEW s \in Sessions, Session(s) PROVE FALSE
    <3>1. running' = running
      BY <2>7, CliStepGame DEF Session, StartProcess, CliFails, Stopped, window
    <3> QED
      BY <2>1, <3>1
  <2>8. ~StartWorldHunt
    BY <2>1 DEF StartWorldHunt
  <2> QED
    BY <2>3, <2>4, <2>5, <2>6, <2>7, <2>8 DEF Next, Window
<1> QED
  BY <1>1, WindowInvariance, PTL DEF Spec, EndShowsAll

=============================================================================
