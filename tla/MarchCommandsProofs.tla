------------------------- MODULE MarchCommandsProofs -------------------------
(***************************************************************************)
(* What holds of MarchCommands for any quests, teams, commands and target  *)
(* lists, and any number of faults: what a command reports is true, and    *)
(* how often it may ask the server.                                        *)
(*                                                                         *)
(* A command only remembers where it is in its list.  The invariant says   *)
(* what that place tells of the requests it has made (InOrder), counts     *)
(* prepared and committed marches against the commands that made them      *)
(* (Budget), follows the queue of requests (Queued, Explained), and keeps  *)
(* the snapshot of marches that the commands share ahead of each of them   *)
(* (SnapshotCovers).                                                       *)
(***************************************************************************)
EXTENDS MarchCommands, FiniteSetTheorems, TLAPS

\* The place of a command in its list agrees with what it has sent.
InOrder(cc) ==
  /\ IsInjective(cc.left)
  /\ \A t \in Targets : cc.result[t] # "none" => t \notin Range(cc.left)
  /\ \A t \in Targets : cc.sent[t] > 0 =>
       cc.result[t] # "none" \/ (cc.left # <<>> /\ t = Head(cc.left))
  /\ \A t \in Targets : cc.result[t] = "dispatched" => cc.sent[t] > 0
  /\ cc.pc \in {"none", "inspecting"} =>
       \A t \in Targets : cc.sent[t] = 0 /\ cc.result[t] = "none"
  /\ cc.pc \notin {"none", "over"} => cc.left # <<>>
  /\ cc.pc = "preparing" => Head(cc.left) \in Monsters /\ cc.sent[Head(cc.left)] = 0
  /\ cc.pc = "verifying" => cc.sent[Head(cc.left)] > 0

\* A quest that is not a monster's is asked for again only after a fault.
Repeats(cc, n) ==
  \A t \in Targets \ Monsters :
    /\ cc.sent[t] <= 1 + n
    /\ cc.pc = "committing" /\ t = Head(cc.left) => cc.sent[t] <= n

\* What one command alone may have sent: nothing while its march is prepared.
OnceAlone ==
  \A c \in Commands, t \in Targets : Alone(c, t) =>
    /\ t \in Monsters => command[c].sent[t] <= 1
    /\ CacheIsFor(t) => command[c].sent[t] = 0
    /\ command[c].result[t] = "blocked" => command[c].sent[t] = 0

\* The commands that have prepared a march for t for the last time, and those
\* that have committed one for the last time.
HasPrepared(cc, t) ==
  \/ cc.result[t] # "none"
  \/ cc.left # <<>> /\ t = Head(cc.left) /\ cc.pc \in {"committing", "verifying", "over"}
HasCommitted(cc, t) ==
  \/ cc.result[t] # "none"
  \/ cc.left # <<>> /\ t = Head(cc.left) /\ cc.pc \in {"verifying", "over"}

PreparedBy(t)  == {c \in Commands : HasPrepared(command[c], t)}
CommittedBy(t) == {c \in Commands : HasCommitted(command[c], t)}

\* Each request took a prepared march, each preparation and each commit was
\* either the last of its command or repeated by a fault.
Budget ==
  \A t \in Monsters :
    2 * Cardinality(Requested(t)) + (IF CacheIsFor(t) THEN 1 ELSE 0)
      <= Cardinality(PreparedBy(t)) + Cardinality(CommittedBy(t)) + faults

\* The server's queue: requests are counted by their command, and a command
\* comes to its next target only with a result for the one before.
Queued ==
  /\ \A i \in DOMAIN requests :
       LET r == requests[i]
       IN  /\ command[r.by].sent[r.target] > 0
           /\ r.team # None => r.target \in Monsters
  /\ \A i, j \in DOMAIN requests :
       LET r == requests[i]
           s == requests[j]
       IN  i < j /\ r.by = s.by /\ r.target # s.target
             => command[r.by].result[r.target] # "none"

\* A monster or rescue quest is on its way or over only by a march, and so is
\* a monster that was dispatched.
Explained ==
  /\ \A t \in Targets \ Heroes : quest[t] \in {"marching", "completed"} =>
       \E k \in Marches : march[k].target = t
  /\ \A c \in Commands, t \in Monsters : command[c].result[t] = "dispatched" =>
       \E k \in Marches : march[k].target = t

\* A march that was on the map when a command made its request is in the
\* snapshot, whoever has taken it since.
SnapshotCovers ==
  \A c \in Commands :
    /\ command[c].before <= Len(march)
    /\ AtTarget(c, "verifying", Monsters) =>
         \A i \in 1..command[c].before : OnMap(i) => i \in snapshot

MarchInv ==
  /\ TypeOK
  /\ \A c \in Commands : InOrder(command[c]) /\ Repeats(command[c], faults)
  /\ OnceAlone
  /\ Budget
  /\ Queued
  /\ Explained
  /\ SnapshotCovers

-----------------------------------------------------------------------------
(* Lists and records *)

LEMMA FirstOfList ==
  ASSUME NEW q \in Seq(Targets), q # <<>>
  PROVE  /\ Head(q) \in Targets /\ Head(q) \in Range(q)
         /\ Tail(q) \in Seq(Targets)
         /\ Range(Tail(q)) \subseteq Range(q)
         /\ \A t \in Range(q) : t = Head(q) \/ t \in Range(Tail(q))
         /\ IsInjective(q) => IsInjective(Tail(q)) /\ Head(q) \notin Range(Tail(q))
<1>1. /\ Len(q) \in Nat /\ Len(q) > 0 /\ DOMAIN q = 1..Len(q)
      /\ DOMAIN Tail(q) = 1..(Len(q) - 1)
      /\ \A i \in 1..(Len(q) - 1) : Tail(q)[i] = q[i + 1]
      /\ Head(q) = q[1] /\ Head(q) \in Targets /\ Tail(q) \in Seq(Targets)
  OBVIOUS
<1>2. Range(q) = {q[i] : i \in 1..Len(q)} /\ Range(Tail(q)) = {Tail(q)[i] : i \in 1..(Len(q) - 1)}
  BY <1>1 DEF Range
<1>3. Head(q) \in Range(q)
  BY <1>1, <1>2
<1>4. Range(Tail(q)) \subseteq Range(q)
  <2> SUFFICES ASSUME NEW i \in 1..(Len(q) - 1)
               PROVE  Tail(q)[i] \in Range(q)
    BY <1>2
  <2>1. i + 1 \in 1..Len(q)
    BY <1>1
  <2> QED
    BY <1>1, <1>2, <2>1
<1>5. \A t \in Range(q) : t = Head(q) \/ t \in Range(Tail(q))
  <2> SUFFICES ASSUME NEW i \in 1..Len(q), i # 1
               PROVE  q[i] \in Range(Tail(q))
    BY <1>1, <1>2
  <2>1. i - 1 \in 1..(Len(q) - 1) /\ Tail(q)[i - 1] = q[i]
    BY <1>1
  <2> QED
    BY <1>2, <2>1
<1>6. ASSUME IsInjective(q)
      PROVE  IsInjective(Tail(q)) /\ Head(q) \notin Range(Tail(q))
  <2>1. \A i, j \in 1..Len(q) : q[i] = q[j] => i = j
    BY <1>1, <1>6 DEF IsInjective
  <2>2. ASSUME NEW i \in 1..(Len(q) - 1), NEW j \in 1..(Len(q) - 1),
               Tail(q)[i] = Tail(q)[j]
        PROVE  i = j
    <3>1. i + 1 \in 1..Len(q) /\ j + 1 \in 1..Len(q) /\ q[i + 1] = q[j + 1]
      BY <1>1, <2>2
    <3>2. i + 1 = j + 1
      BY <2>1, <3>1
    <3> QED
      BY <3>2
  <2>3. ASSUME NEW i \in 1..(Len(q) - 1) PROVE Tail(q)[i] # Head(q)
    <3>1. 1 \in 1..Len(q) /\ i + 1 \in 1..Len(q) /\ i + 1 # 1
      BY <1>1
    <3>2. q[i + 1] # q[1]
      BY <2>1, <3>1
    <3> QED
      BY <1>1, <3>2
  <2> QED
    BY <1>1, <1>2, <2>2, <2>3 DEF IsInjective
<1> QED
  BY <1>1, <1>3, <1>4, <1>5, <1>6

LEMMA SeqElements ==
  ASSUME NEW S, NEW q \in Seq(S)
  PROVE  /\ Len(q) \in Nat /\ DOMAIN q = 1..Len(q) /\ q \in [1..Len(q) -> S]
         /\ \A i \in 1..Len(q) : q[i] \in S
         /\ q # <<>> => Head(q) \in S
OBVIOUS

LEMMA TargetsApart ==
  /\ Monsters \subseteq Targets /\ Heroes \subseteq Targets /\ Rescues \subseteq Targets
  /\ Monsters \cap Heroes = {} /\ Monsters \cap Rescues = {}
BY MarchAssumption DEF Targets

LEMMA FirstStageIs ==
  ASSUME NEW q \in Seq(Targets)
  PROVE  /\ FirstStage(q) \in {"over", "preparing", "committing"}
         /\ FirstStage(q) = "over" <=> q = <<>>
         /\ FirstStage(q) = "preparing" => Head(q) \in Monsters
         /\ FirstStage(q) = "committing" => Head(q) \notin Monsters
BY DEF FirstStage

LEMMA MoveFields ==
  ASSUME NEW cc \in CommandType, NEW stage \in Stages
  PROVE  LET g == [cc EXCEPT !.pc = stage]
         IN  /\ g \in CommandType /\ g.pc = stage /\ g.left = cc.left
             /\ g.result = cc.result /\ g.sent = cc.sent /\ g.before = cc.before
BY DEF CommandType

LEMMA ReportFields ==
  ASSUME NEW cc \in CommandType, cc.left # <<>>,
         NEW res \in {"dispatched", "blocked", "error"}
  PROVE  LET t == Head(cc.left)
             r == Reports(cc, res)
         IN  /\ r \in CommandType
             /\ r.pc = FirstStage(Tail(cc.left)) /\ r.left = Tail(cc.left)
             /\ r.result[t] = res
             /\ \A u \in Targets \ {t} : r.result[u] = cc.result[u]
             /\ r.sent = cc.sent /\ r.before = cc.before
<1> DEFINE t == Head(cc.left)
           rest == Tail(cc.left)
           results == [cc.result EXCEPT ![t] = res]
           first == FirstStage(rest)
<1>1. /\ cc.left \in Seq(Targets) /\ cc.sent \in [Targets -> Nat]
      /\ cc.result \in [Targets -> {"none", "dispatched", "blocked", "error"}]
  BY DEF CommandType
<1>2. t \in Targets /\ rest \in Seq(Targets)
  BY <1>1, FirstOfList
<1>3. first \in Stages
  BY <1>2, FirstStageIs DEF Stages
<1>4. /\ results \in [Targets -> {"none", "dispatched", "blocked", "error"}]
      /\ results[t] = res /\ \A u \in Targets \ {t} : results[u] = cc.result[u]
  BY <1>1, <1>2
<1>5. Reports(cc, res) = [cc EXCEPT !.result = results, !.left = rest, !.pc = first]
  BY <1>1 DEF Reports, CommandType
<1> HIDE DEF rest, results, first
<1>6. /\ Reports(cc, res) \in CommandType
      /\ Reports(cc, res).pc = first /\ Reports(cc, res).left = rest
      /\ Reports(cc, res).result = results
      /\ Reports(cc, res).sent = cc.sent /\ Reports(cc, res).before = cc.before
  BY <1>2, <1>3, <1>4, <1>5 DEF CommandType
<1> QED
  BY <1>4, <1>6 DEF rest, first

LEMMA SendFields ==
  ASSUME NEW cc \in CommandType, NEW r, r.target \in Targets,
         Len(march) \in 0..MaxMarches
  PROVE  LET s == Sends(cc, r)
         IN  /\ s \in CommandType
             /\ s.pc = cc.pc /\ s.left = cc.left /\ s.result = cc.result
             /\ s.sent[r.target] = cc.sent[r.target] + 1
             /\ \A u \in Targets \ {r.target} : s.sent[u] = cc.sent[u]
             /\ s.before = Len(march)
<1> DEFINE sents == [cc.sent EXCEPT ![r.target] = @ + 1]
           n == Len(march)
<1>1. cc.sent \in [Targets -> Nat]
  BY DEF CommandType
<1>2. /\ sents \in [Targets -> Nat]
      /\ sents[r.target] = cc.sent[r.target] + 1
      /\ \A u \in Targets \ {r.target} : sents[u] = cc.sent[u]
  BY <1>1
<1>3. Sends(cc, r) = [cc EXCEPT !.sent = sents, !.before = n]
  BY <1>1 DEF Sends, CommandType
<1> HIDE DEF sents, n
<1>4. /\ Sends(cc, r) \in CommandType
      /\ Sends(cc, r).pc = cc.pc /\ Sends(cc, r).left = cc.left
      /\ Sends(cc, r).result = cc.result
      /\ Sends(cc, r).sent = sents /\ Sends(cc, r).before = n
  BY <1>2, <1>3 DEF CommandType, n
<1> QED
  BY <1>2, <1>4 DEF n

\* A script that has run, or not, and runs again.
LEMMA AgainFields ==
  ASSUME NEW cc \in CommandType, NEW s \in CommandType
  PROVE  /\ s.sent = cc.sent /\ s.before = cc.before
              => [cc EXCEPT !.sent = s.sent, !.before = s.before] = cc
         /\ s.pc = cc.pc /\ s.left = cc.left /\ s.result = cc.result
              => [cc EXCEPT !.sent = s.sent, !.before = s.before] = s
<1> DEFINE again == [cc EXCEPT !.sent = s.sent, !.before = s.before]
<1>1. \A x \in CommandType :
        x = [pc |-> x.pc, left |-> x.left, result |-> x.result,
             sent |-> x.sent, before |-> x.before]
  BY DEF CommandType
<1>2. /\ again \in CommandType /\ again.pc = cc.pc /\ again.left = cc.left
      /\ again.result = cc.result /\ again.sent = s.sent
      /\ again.before = s.before
  BY DEF CommandType
<1>3. again = [cc EXCEPT !.sent = s.sent, !.before = s.before]
  OBVIOUS
<1> HIDE DEF again
<1> QED
  BY <1>1, <1>2, <1>3

-----------------------------------------------------------------------------
(* Kinds of steps: a command goes on without a request, a command makes one, *)
(* or the game, its server and its player do something.                     *)

Becomes(c, s, n) ==
  /\ command' = [command EXCEPT ![c] = s]
  /\ faults' = n /\ n <= MaxFaults

\* Where a command may go without a request.
Onward(c, s) ==
  LET cc == command[c]
  IN  \/ cc.pc # "none" /\ s = [cc EXCEPT !.pc = "over"]
      \/ cc.pc = "none" /\ cc.left # <<>> /\ s = [cc EXCEPT !.pc = "inspecting"]
      \/ /\ cc.pc \in {"none", "inspecting"} /\ cc.left # <<>>
         /\ s = [cc EXCEPT !.pc = FirstStage(cc.left)]
      \/ cc.pc = "preparing" /\ s = [cc EXCEPT !.pc = "committing"]
      \/ /\ cc.pc \in {"preparing", "committing", "verifying"}
         /\ s = Reports(cc, "error")
      \/ /\ cc.pc = "preparing" \/ (cc.pc = "committing" /\ CacheIsFor(Target(c)))
         /\ s = Reports(cc, "blocked")
      \/ /\ cc.pc = "verifying" /\ (Target(c) \in Monsters => Accepted(Target(c)))
         /\ s = Reports(cc, "dispatched")

GoesOn(c) ==
  /\ UNCHANGED <<server, snapshot>>
  /\ \E s : /\ \/ Onward(c, s) /\ Becomes(c, s, faults)
               \/ Onward(c, s) /\ Becomes(c, s, faults + 1)
               \/ s = command[c] /\ Becomes(c, s, faults + 1)
            /\ \/ cache' \in {cache, None}
               \/ /\ At(c, "preparing")
                  /\ cache' \in [target : {Target(c)}, team : Teams]
                  /\ \/ s = [command[c] EXCEPT !.pc = "committing"]
                     \/ faults' = faults + 1

\* What becomes of a command that has made request r.
Asked(c, r, s) ==
  LET sent == Sends(command[c], r)
  IN  \/ s = [sent EXCEPT !.pc = "verifying"]
      \/ s = Reports(sent, "error")
      \/ Target(c) \notin Monsters /\ s = Reports(sent, "dispatched")

MakesRequest(c) ==
  /\ At(c, "committing")
  /\ \E r \in [target : Targets, team : Teams \cup {None}, by : Commands] :
       /\ r.target = Target(c) /\ r.by = c
       /\ requests' = Append(requests, r)
       /\ \/ /\ Target(c) \in Monsters /\ CacheIsFor(Target(c)) /\ cache' = None
             /\ snapshot' = {i \in Marches : OnMap(i)}
          \/ /\ Target(c) \notin Monsters /\ r.team = None
             /\ UNCHANGED <<cache, snapshot>>
       /\ \E s : \/ Asked(c, r, s) /\ Becomes(c, s, faults)
                 \/ s = Sends(command[c], r) /\ Becomes(c, s, faults + 1)
       /\ r.target \in Heroes => r.target \notin starting
       /\ starting' = starting \cup ({r.target} \cap Heroes)
  /\ UNCHANGED <<quest, march>>

\* Marches stay in the list and leave the map; quests end by marches.
GameMoves ==
  /\ UNCHANGED <<cache, snapshot, command, faults>>
  /\ \/ UNCHANGED <<requests, starting>>
     \/ /\ requests # <<>> /\ requests' = Tail(requests)
        /\ starting' = starting \ {Head(requests).target}
  /\ quest' \in [Targets -> {"available", "marching", "completed", "missing"}]
  /\ march' \in Seq([target : Targets, team : Teams \cup {None},
                     state : {"going", "returning", "home"}])
  /\ Len(march) <= Len(march') /\ Len(march') <= MaxMarches
  /\ \A i \in Marches :
       /\ march'[i].target = march[i].target
       /\ march[i].state = "home" => march'[i].state = "home"
  /\ \A t \in Targets \ Heroes : quest'[t] \in {"marching", "completed"} =>
       \/ quest[t] \in {"marching", "completed"}
       \/ \E k \in 1..Len(march') : march'[k].target = t

-----------------------------------------------------------------------------
(* Every step is of one of the kinds.                                       *)

LEMMA FaultsCounted == faults \in 0..MaxFaults => faults \in Nat /\ MaxFaults \in Nat
BY MarchAssumption

\* The answer to a script that made no request.
LEMMA AnswersPlain ==
  ASSUME TypeOK, NEW c \in Commands, NEW after \in CommandType,
         Answers(c, after),
         after.sent = command[c].sent, after.before = command[c].before
  PROVE  \/ Becomes(c, after, faults)
         \/ Becomes(c, command[c], faults + 1)
<1>1. command[c] \in CommandType /\ faults \in 0..MaxFaults /\ MaxFaults \in Nat
  BY MarchAssumption DEF TypeOK
<1>2. [command[c] EXCEPT !.sent = after.sent, !.before = after.before] = command[c]
  BY <1>1, AgainFields
<1>3. CASE command' = [command EXCEPT ![c] = after] /\ UNCHANGED faults
  BY <1>1, <1>3 DEF Becomes
<1>4. CASE /\ faults < MaxFaults /\ faults' = faults + 1
           /\ command' = [command EXCEPT ![c] =
                [@ EXCEPT !.sent = after.sent, !.before = after.before]]
  <2>1. command' = [command EXCEPT ![c] = command[c]]
    BY <1>2, <1>4
  <2>2. faults' = faults + 1 /\ faults + 1 <= MaxFaults
    BY <1>1, <1>4
  <2> QED
    BY <2>1, <2>2 DEF Becomes
<1> QED
  BY <1>3, <1>4 DEF Answers

\* The answer to a script that made a request.
LEMMA AnswersSent ==
  ASSUME TypeOK, NEW c \in Commands, NEW after, NEW s \in CommandType,
         Answers(c, after), after.sent = s.sent, after.before = s.before,
         s.pc = command[c].pc, s.left = command[c].left,
         s.result = command[c].result
  PROVE  \/ Becomes(c, after, faults)
         \/ Becomes(c, s, faults + 1)
<1>1. command[c] \in CommandType /\ faults \in 0..MaxFaults /\ MaxFaults \in Nat
  BY MarchAssumption DEF TypeOK
<1>2. [command[c] EXCEPT !.sent = after.sent, !.before = after.before] = s
  BY <1>1, AgainFields
<1>3. CASE command' = [command EXCEPT ![c] = after] /\ UNCHANGED faults
  BY <1>1, <1>3 DEF Becomes
<1>4. CASE /\ faults < MaxFaults /\ faults' = faults + 1
           /\ command' = [command EXCEPT ![c] =
                [@ EXCEPT !.sent = after.sent, !.before = after.before]]
  <2>1. command' = [command EXCEPT ![c] = s]
    BY <1>2, <1>4
  <2>2. faults' = faults + 1 /\ faults + 1 <= MaxFaults
    BY <1>1, <1>4
  <2> QED
    BY <2>1, <2>2 DEF Becomes
<1> QED
  BY <1>3, <1>4 DEF Answers

\* Onward, or not, without a request.
LEMMA AnswersOnward ==
  ASSUME TypeOK, NEW c \in Commands, NEW after, Onward(c, after),
         command[c].left # <<>>, Answers(c, after)
  PROVE  \/ Becomes(c, after, faults)
         \/ Becomes(c, command[c], faults + 1)
<1>1. command[c] \in CommandType /\ command[c].left \in Seq(Targets)
  BY DEF TypeOK, CommandType
<1>2. FirstStage(command[c].left) \in Stages /\ {"over", "inspecting", "committing"} \subseteq Stages
  BY <1>1, FirstStageIs DEF Stages
<1>3. /\ after \in CommandType
      /\ after.sent = command[c].sent /\ after.before = command[c].before
  <2>1. \A stage \in Stages :
          /\ [command[c] EXCEPT !.pc = stage] \in CommandType
          /\ [command[c] EXCEPT !.pc = stage].sent = command[c].sent
          /\ [command[c] EXCEPT !.pc = stage].before = command[c].before
    BY <1>1, MoveFields
  <2>2. \A res \in {"dispatched", "blocked", "error"} :
          /\ Reports(command[c], res) \in CommandType
          /\ Reports(command[c], res).sent = command[c].sent
          /\ Reports(command[c], res).before = command[c].before
    BY <1>1, ReportFields
  <2> QED
    BY <1>2, <2>1, <2>2 DEF Onward
<1> QED
  BY <1>3, AnswersPlain

LEMMA AtWork ==
  ASSUME TypeOK, NEW c \in Commands, ~At(c, "none"), ~At(c, "over")
  PROVE  /\ command[c].left # <<>> /\ command[c].left \in Seq(Targets)
         /\ Target(c) \in Targets
<1>1. command[c].left # <<>> /\ command[c].left \in Seq(Targets)
  BY DEF TypeOK, CommandType
<1> QED
  BY <1>1, FirstOfList DEF Target

LEMMA ScriptsWithoutRequest ==
  ASSUME TypeOK, NEW c \in Commands,
         \/ Begins(c) \/ Inspects(c) \/ ScriptFails(c) \/ Killed(c)
         \/ CommitHeld(c) \/ CommitRefused(c)
         \/ Verifies(c) \/ VerifyTimesOut(c)
         \/ BattleRefused(c) \/ VerifiesBattle(c) \/ BattleTimesOut(c)
  PROVE  GoesOn(c)
<1> USE DEF At, AtTarget, Goes, server
<1>0. faults \in 0..MaxFaults /\ MaxFaults \in Nat
  BY MarchAssumption DEF TypeOK
<1>1. CASE Begins(c)
  <2>1. PICK stage \in {"inspecting", FirstStage(command[c].left)} :
          command' = [command EXCEPT ![c] = [command[c] EXCEPT !.pc = stage]]
    BY <1>1 DEF Begins
  <2>2. Onward(c, [command[c] EXCEPT !.pc = stage])
    BY <1>1 DEF Begins, Onward
  <2>3. Becomes(c, [command[c] EXCEPT !.pc = stage], faults)
    <3>1. faults' = faults /\ faults <= MaxFaults
      BY <1>0, <1>1 DEF Begins
    <3> QED
      BY <2>1, <3>1 DEF Becomes
  <2> QED
    BY <1>1, <2>2, <2>3 DEF Begins, GoesOn
<1>2. CASE Inspects(c)
  <2>1. command[c].left # <<>>
    BY <1>2, AtWork DEF Inspects
  <2>2. \E s : Onward(c, s) /\ Answers(c, s)
    BY <1>2, <2>1 DEF Inspects, Onward
  <2>3. \E s : \/ Onward(c, s) /\ Becomes(c, s, faults)
               \/ s = command[c] /\ Becomes(c, s, faults + 1)
    BY <2>1, <2>2, AnswersOnward
  <2> QED
    BY <1>2, <2>3 DEF Inspects, GoesOn
<1>3. CASE ScriptFails(c) \/ Killed(c)
  <2>1. command[c].pc \in Stages
    BY DEF TypeOK, CommandType
  <2>2. \E s : Onward(c, s) /\ Becomes(c, s, faults + 1)
    <3>0. ASSUME NEW s, Onward(c, s), command' = [command EXCEPT ![c] = s]
          PROVE  \E z : Onward(c, z) /\ Becomes(c, z, faults + 1)
      <4>1. faults' = faults + 1 /\ faults + 1 <= MaxFaults
        BY <1>0, <1>3 DEF ScriptFails, Killed
      <4> QED
        BY <3>0, <4>1 DEF Becomes
    <3>1. CASE (ScriptFails(c) /\ At(c, "inspecting")) \/ Killed(c)
      <4>1. command[c].pc # "none"
            /\ command' = [command EXCEPT ![c] = [command[c] EXCEPT !.pc = "over"]]
        BY <3>1 DEF ScriptFails, Killed
      <4>2. Onward(c, [command[c] EXCEPT !.pc = "over"])
        BY <4>1 DEF Onward
      <4> QED
        BY <3>0, <4>1, <4>2
    <3>2. CASE ScriptFails(c) /\ ~At(c, "inspecting")
      <4>1. command[c].pc \in {"preparing", "committing", "verifying"}
        BY <2>1, <3>2 DEF ScriptFails, Stages
      <4>2. command' = [command EXCEPT ![c] = Reports(command[c], "error")]
        BY <3>2 DEF ScriptFails
      <4>3. Onward(c, Reports(command[c], "error"))
        BY <4>1 DEF Onward
      <4> QED
        BY <3>0, <4>2, <4>3
    <3> QED
      BY <1>3, <3>1, <3>2
  <2> QED
    BY <1>3, <2>2 DEF ScriptFails, Killed, GoesOn
<1>4. CASE CommitHeld(c) \/ CommitRefused(c) \/ BattleRefused(c)
  <2>1. command[c].left # <<>>
    BY <1>4, AtWork DEF CommitHeld, CommitRefused, BattleRefused
  <2>2. \E s : Onward(c, s) /\ Answers(c, s)
    BY <1>4, <2>1 DEF CommitHeld, CommitRefused, BattleRefused, Onward, MayCommit
  <2>3. \E s : \/ Onward(c, s) /\ Becomes(c, s, faults)
               \/ s = command[c] /\ Becomes(c, s, faults + 1)
    BY <2>1, <2>2, AnswersOnward
  <2>4. UNCHANGED <<server, snapshot>> /\ cache' \in {cache, None}
    BY <1>4 DEF CommitHeld, CommitRefused, BattleRefused
  <2> QED
    BY <2>3, <2>4 DEF GoesOn
<1>5. CASE Verifies(c) \/ VerifiesBattle(c)
  <2>1. command[c].left # <<>>
    BY <1>5, AtWork DEF Verifies, VerifiesBattle
  <2>2. Target(c) \in Monsters => Accepted(Target(c))
    BY <1>5, TargetsApart DEF Verifies, VerifiesBattle
  <2>3. \E s : Onward(c, s) /\ Answers(c, s)
    BY <1>5, <2>2 DEF Verifies, VerifiesBattle, Onward
  <2>4. \E s : \/ Onward(c, s) /\ Becomes(c, s, faults)
               \/ s = command[c] /\ Becomes(c, s, faults + 1)
    BY <2>1, <2>3, AnswersOnward
  <2>5. UNCHANGED <<server, snapshot>> /\ cache' = cache
    BY <1>5 DEF Verifies, VerifiesBattle
  <2> QED
    BY <2>4, <2>5 DEF GoesOn
<1>6. CASE VerifyTimesOut(c) \/ BattleTimesOut(c)
  <2>1. command[c].pc = "verifying"
    BY <1>6 DEF VerifyTimesOut, BattleTimesOut
  <2>2. command' = [command EXCEPT ![c] = Reports(command[c], "error")]
        /\ UNCHANGED <<server, cache, snapshot, faults>>
    BY <1>6 DEF VerifyTimesOut, BattleTimesOut
  <2>3. Onward(c, Reports(command[c], "error"))
    BY <2>1 DEF Onward
  <2>4. Becomes(c, Reports(command[c], "error"), faults)
    BY <1>0, <2>2 DEF Becomes
  <2> QED
    BY <2>2, <2>3, <2>4 DEF GoesOn
<1> QED
  BY <1>1, <1>2, <1>3, <1>4, <1>5, <1>6

LEMMA Preparations ==
  ASSUME TypeOK, NEW c \in Commands, Prepares(c) \/ PrepareRefused(c)
  PROVE  GoesOn(c)
<1> USE DEF At, AtTarget, Goes, server
<1>1. command[c].left # <<>> /\ command[c].pc = "preparing"
      /\ UNCHANGED <<server, snapshot>>
  BY AtWork DEF Prepares, PrepareRefused
<1>2. CASE cache' = None /\ \E s : Onward(c, s) /\ Answers(c, s)
  <2>1. \E s : \/ Onward(c, s) /\ Becomes(c, s, faults)
               \/ s = command[c] /\ Becomes(c, s, faults + 1)
    BY <1>1, <1>2, AnswersOnward
  <2> QED
    BY <1>1, <1>2, <2>1 DEF GoesOn
<1>3. ASSUME NEW team \in Teams, cache' = [target |-> Target(c), team |-> team],
             Answers(c, [command[c] EXCEPT !.pc = "committing"])
      PROVE  GoesOn(c)
  <2> DEFINE s == [command[c] EXCEPT !.pc = "committing"]
  <2>1. Onward(c, s)
    BY <1>1 DEF Onward
  <2>2. Becomes(c, s, faults) \/ Becomes(c, command[c], faults + 1)
    BY <1>1, <1>3, <2>1, AnswersOnward
  <2>3. cache' \in [target : {Target(c)}, team : Teams]
    BY <1>3
  <2>4. CASE Becomes(c, s, faults)
    BY <1>1, <2>1, <2>3, <2>4 DEF GoesOn
  <2>5. CASE Becomes(c, command[c], faults + 1)
    <3>1. faults' = faults + 1
      BY <2>5 DEF Becomes
    <3> QED
      BY <1>1, <2>3, <2>5, <3>1 DEF GoesOn
  <2> QED
    BY <2>2, <2>4, <2>5
<1>4. Onward(c, Reports(command[c], "blocked")) /\ Onward(c, Reports(command[c], "error"))
  BY <1>1 DEF Onward
<1>5. CASE PrepareRefused(c)
  BY <1>2, <1>4, <1>5 DEF PrepareRefused
<1>6. CASE Prepares(c)
  <2>1. \/ /\ cache' = None /\ Answers(c, Reports(command[c], "blocked"))
        \/ \E team \in Teams :
             /\ cache' = [target |-> Target(c), team |-> team]
             /\ Answers(c, [command[c] EXCEPT !.pc = "committing"])
    BY <1>6 DEF Prepares, FreeTeams
  <2> QED
    BY <1>2, <1>3, <1>4, <2>1
<1> QED
  BY <1>5, <1>6

LEMMA Requesting ==
  ASSUME TypeOK, NEW c \in Commands, Commits(c) \/ StartsBattle(c) \/ StartsRescue(c)
  PROVE  MakesRequest(c)
<1> USE DEF At, AtTarget
<1> DEFINE cc == command[c]
           t  == Target(c)
<1>1. /\ cc \in CommandType /\ cc.pc = "committing" /\ cc.left # <<>>
      /\ t \in Targets /\ t = Head(cc.left)
  <2>1. cc.pc = "committing"
    BY DEF Commits, StartsBattle, StartsRescue
  <2>2. cc \in CommandType
    BY DEF TypeOK
  <2>3. cc.left # <<>> /\ t \in Targets
    BY <2>1, AtWork
  <2> QED
    BY <2>1, <2>2, <2>3 DEF Target
<1>2. Len(march) \in 0..MaxMarches
  BY DEF TypeOK, Marches
<1>3. ASSUME NEW r \in [target : Targets, team : Teams \cup {None}, by : Commands],
             r.target = t, NEW after, Asked(c, r, after), Answers(c, after)
      PROVE  \/ Asked(c, r, after) /\ Becomes(c, after, faults)
             \/ Becomes(c, Sends(cc, r), faults + 1)
  <2> DEFINE s == Sends(cc, r)
  <2>1. /\ s \in CommandType /\ s.pc = cc.pc /\ s.left = cc.left
        /\ s.result = cc.result
    BY <1>1, <1>2, <1>3, SendFields
  <2>2. after.sent = s.sent /\ after.before = s.before
    <3>1. "verifying" \in Stages
      BY DEF Stages
    <3> HIDE DEF s
    <3>2. /\ [s EXCEPT !.pc = "verifying"].sent = s.sent
          /\ [s EXCEPT !.pc = "verifying"].before = s.before
      BY <2>1, <3>1, MoveFields
    <3>3. \A res \in {"dispatched", "blocked", "error"} :
            Reports(s, res).sent = s.sent /\ Reports(s, res).before = s.before
      BY <1>1, <2>1, ReportFields
    <3>4. \/ after = [s EXCEPT !.pc = "verifying"]
          \/ \E res \in {"dispatched", "blocked", "error"} : after = Reports(s, res)
      BY <1>3 DEF Asked, s
    <3> QED
      BY <3>2, <3>3, <3>4
  <2> HIDE DEF s
  <2>3. Becomes(c, after, faults) \/ Becomes(c, s, faults + 1)
    BY <1>3, <2>1, <2>2, AnswersSent
  <2> QED
    BY <1>3, <2>3 DEF s
<1>4. ASSUME NEW r \in [target : Targets, team : Teams \cup {None}, by : Commands]
      PROVE  Sends([cc EXCEPT !.pc = "verifying"], r) = [Sends(cc, r) EXCEPT !.pc = "verifying"]
  BY <1>1 DEF Sends, CommandType
<1>5. CASE Commits(c)
  <2> DEFINE r == [target |-> t, team |-> cache.team, by |-> c]
  <2>1. t \in Monsters /\ CacheIsFor(t)
    BY <1>5 DEF Commits, MayCommit
  <2>2. r \in [target : Targets, team : Teams \cup {None}, by : Commands]
    BY <1>1, <2>1 DEF TypeOK, CacheIsFor
  <2>3. r.target = t /\ r.by = c
    OBVIOUS
  <2>4. /\ requests' = Append(requests, r) /\ cache' = None
        /\ snapshot' = {i \in Marches : OnMap(i)}
        /\ UNCHANGED <<quest, march, starting>>
        /\ \/ Answers(c, Sends([cc EXCEPT !.pc = "verifying"], r))
           \/ Answers(c, Reports(Sends(cc, r), "error"))
    BY <1>5 DEF Commits, Goes
  <2> HIDE DEF r
  <2>5. \E after : Asked(c, r, after) /\ Answers(c, after)
    BY <1>4, <2>2, <2>4 DEF Asked
  <2>6. \E s : \/ Asked(c, r, s) /\ Becomes(c, s, faults)
               \/ s = Sends(cc, r) /\ Becomes(c, s, faults + 1)
    BY <1>3, <2>2, <2>3, <2>5
  <2>7. t \notin Heroes /\ starting' = starting
    BY <2>1, <2>4, TargetsApart
  <2> QED
    BY <1>1, <2>1, <2>2, <2>3, <2>4, <2>6, <2>7 DEF MakesRequest
<1>6. CASE StartsBattle(c) \/ StartsRescue(c)
  <2> DEFINE r == [target |-> t, team |-> None, by |-> c]
  <2>1. t \notin Monsters
    BY <1>6, TargetsApart DEF StartsBattle, StartsRescue
  <2>2. r \in [target : Targets, team : Teams \cup {None}, by : Commands]
    BY <1>1
  <2>3. r.target = t /\ r.by = c /\ r.team = None
    OBVIOUS
  <2>4. /\ requests' = Append(requests, r) /\ UNCHANGED <<quest, march, cache, snapshot>>
        /\ \/ Answers(c, AfterRequest(c, r))
           \/ Answers(c, Reports(Sends(cc, r), "error"))
    BY <1>6 DEF StartsBattle, StartsRescue
  <2>5. /\ t \in Heroes => t \notin starting
        /\ starting' = starting \cup ({t} \cap Heroes)
    BY <1>6, MarchAssumption DEF StartsBattle, StartsRescue
  <2> HIDE DEF r
  <2>6. \E after : Asked(c, r, after) /\ Answers(c, after)
    BY <1>4, <2>1, <2>2, <2>4 DEF Asked, AfterRequest, Goes
  <2>7. \E s : \/ Asked(c, r, s) /\ Becomes(c, s, faults)
               \/ s = Sends(cc, r) /\ Becomes(c, s, faults + 1)
    BY <1>3, <2>2, <2>3, <2>6
  <2> QED
    BY <1>1, <2>1, <2>2, <2>3, <2>4, <2>5, <2>7 DEF MakesRequest
<1> QED
  BY <1>5, <1>6

LEMMA GameStepMoves ==
  ASSUME TypeOK, GameStep
  PROVE  GameMoves
<1> DEFINE Trip == [target : Targets, team : Teams \cup {None},
                    state : {"going", "returning", "home"}]
           States == {"available", "marching", "completed", "missing"}
<1>1. /\ march \in Seq(Trip) /\ Len(march) \in Nat /\ Len(march) <= MaxMarches
      /\ quest \in [Targets -> States] /\ starting \subseteq Heroes
      /\ Marches = 1..Len(march) /\ MaxMarches \in Nat
  BY MarchAssumption DEF TypeOK, Marches
<1>2. UNCHANGED <<cache, snapshot, command, faults>>
  BY DEF GameStep
<1>3. ASSUME requests # <<>>
      PROVE  /\ Head(requests).target \in Targets
             /\ Head(requests).team \in Teams \cup {None}
  <2>1. Head(requests) \in [target : Targets, team : Teams \cup {None}, by : Commands]
    BY <1>3, SeqElements DEF TypeOK
  <2> QED
    BY <2>1
<1>4. ASSUME NEW t \in Targets, NEW team \in Teams \cup {None}, SetsOut(t, team)
      PROVE  /\ quest' \in [Targets -> States] /\ march' \in Seq(Trip)
             /\ Len(march) <= Len(march') /\ Len(march') <= MaxMarches
             /\ \A i \in Marches : march'[i] = march[i]
             /\ \A u \in Targets : quest'[u] = quest[u]
                  \/ \E k \in 1..Len(march') : march'[k].target = u
  <2> DEFINE m == [target |-> t, team |-> team, state |-> "going"]
  <2>1. m \in Trip /\ m.target = t
    OBVIOUS
  <2>2. march' = Append(march, m) /\ Len(march) < MaxMarches
        /\ quest' = [quest EXCEPT ![t] = "marching"]
    BY <1>4 DEF SetsOut
  <2> HIDE DEF m, Trip
  <2>3. /\ march' \in Seq(Trip) /\ Len(march') = Len(march) + 1
        /\ \A i \in 1..Len(march) : march'[i] = march[i]
        /\ march'[Len(march) + 1] = m
    BY <1>1, <2>1, <2>2
  <2>4. Len(march) <= Len(march') /\ Len(march') <= MaxMarches
        /\ Len(march) + 1 \in 1..Len(march')
    BY <1>1, <2>2, <2>3
  <2>5. quest' \in [Targets -> States] /\ \A u \in Targets \ {t} : quest'[u] = quest[u]
    BY <1>1, <2>2
  <2> QED
    BY <1>1, <2>1, <2>3, <2>4, <2>5
<1>5. ASSUME NEW i \in Marches, NEW away \in {"returning", "home"},
             march' = [march EXCEPT ![i].state = away]
      PROVE  /\ march' \in Seq(Trip) /\ Len(march') = Len(march)
             /\ \A k \in Marches : march'[k].target = march[k].target
             /\ march'[i].state = away
             /\ \A k \in Marches \ {i} : march'[k] = march[k]
  <2>1. march \in [1..Len(march) -> Trip]
    BY <1>1, SeqElements
  <2>2. [march[i] EXCEPT !.state = away] \in Trip
        /\ [march[i] EXCEPT !.state = away].target = march[i].target
        /\ [march[i] EXCEPT !.state = away].state = away
    BY <1>1, <2>1
  <2> HIDE DEF Trip
  <2>3. march' = [march EXCEPT ![i] = [march[i] EXCEPT !.state = away]]
    BY <1>5
  <2>4. march' \in [1..Len(march) -> Trip]
    BY <2>1, <2>2, <2>3
  <2>5. march' \in Seq(Trip) /\ Len(march') = Len(march)
    BY <1>1, <2>4
  <2> QED
    BY <1>1, <1>5, <2>1, <2>2, <2>3, <2>5
<1>6. ASSUME UNCHANGED march
      PROVE  /\ march' \in Seq(Trip)
             /\ Len(march) <= Len(march') /\ Len(march') <= MaxMarches
             /\ \A i \in Marches : march'[i] = march[i]
  BY <1>1, <1>6
<1>7. CASE Grants
  <2> DEFINE r == Head(requests)
  <2>1. requests # <<>> /\ requests' = Tail(requests)
        /\ starting' = starting \ {r.target}
    BY <1>7 DEF Grants
  <2>2. CASE r.target \in Heroes
    <3>1. quest' = [quest EXCEPT ![r.target] = "completed"] /\ UNCHANGED march
      BY <1>7, <2>2 DEF Grants
    <3>2. quest' \in [Targets -> States]
          /\ \A u \in Targets \ Heroes : quest'[u] = quest[u]
      BY <1>1, <2>2, <3>1
    <3> HIDE DEF Trip, States
    <3>3. GameMoves
      BY <1>1, <1>2, <1>6, <2>1, <3>1, <3>2 DEF GameMoves, Trip, States
    <3> QED
      BY <3>3
  <2>3. CASE r.target \notin Heroes
    <3>1. SetsOut(r.target, r.team)
      BY <1>7, <2>3 DEF Grants
    <3>2. r.target \in Targets /\ r.team \in Teams \cup {None}
      BY <1>3, <2>1
    <3>3. /\ requests # <<>> /\ requests' = Tail(requests)
          /\ starting' = starting \ {Head(requests).target}
      BY <2>1
    <3> HIDE DEF r
    <3> QED
      BY <1>1, <1>2, <1>4, <3>1, <3>2, <3>3 DEF GameMoves
  <2> QED
    BY <2>2, <2>3
<1>8. CASE Refuses
  BY <1>1, <1>2, <1>6, <1>8 DEF Refuses, GameMoves
<1>9. CASE PlayerMarches
  <2>1. PICK t \in Monsters, team \in FreeTeams : SetsOut(t, team)
    BY <1>9 DEF PlayerMarches
  <2>2. t \in Targets /\ team \in Teams \cup {None}
    BY TargetsApart DEF FreeTeams
  <2>3. UNCHANGED <<requests, starting>>
    BY <1>9 DEF PlayerMarches
  <2> QED
    BY <1>1, <1>2, <1>4, <2>1, <2>2, <2>3 DEF GameMoves
<1>10. ASSUME NEW i \in Marches, PlayerRecalls(i) \/ Arrives(i) PROVE GameMoves
  <2> DEFINE t == march[i].target
  <2>1. march[i].state = "going" /\ march' = [march EXCEPT ![i].state = "returning"]
        /\ UNCHANGED <<requests, starting>>
        /\ \E s \in {"available", "completed"} : quest' = [quest EXCEPT ![t] = s]
    BY <1>10 DEF PlayerRecalls, Arrives
  <2>2. t \in Targets
    <3>1. march[i] \in Trip
      BY <1>1, SeqElements
    <3> QED
      BY <3>1
  <2>3. quest' \in [Targets -> States] /\ \A u \in Targets \ {t} : quest'[u] = quest[u]
    BY <1>1, <2>1
  <2>4. /\ march' \in Seq(Trip) /\ Len(march') = Len(march)
        /\ \A k \in Marches : march'[k].target = march[k].target
        /\ \A k \in Marches \ {i} : march'[k] = march[k]
    BY <1>5, <2>1
  <2>5. i \in 1..Len(march') /\ march'[i].target = t
    BY <1>1, <2>4
  <2>6. \A u \in Targets \ Heroes : quest'[u] \in {"marching", "completed"} =>
          \/ quest[u] \in {"marching", "completed"}
          \/ \E k \in 1..Len(march') : march'[k].target = u
    BY <2>3, <2>5
  <2>7. \A k \in Marches : march[k].state = "home" => march'[k].state = "home"
    BY <2>1, <2>4
  <2> HIDE DEF t, Trip
  <2> QED
    BY <1>1, <1>2, <2>1, <2>3, <2>4, <2>6, <2>7 DEF GameMoves, Trip
<1>11. ASSUME NEW i \in Marches, ComesHome(i) PROVE GameMoves
  <2>1. march' = [march EXCEPT ![i].state = "home"] /\ UNCHANGED <<quest, requests, starting>>
    BY <1>11 DEF ComesHome
  <2>2. /\ march' \in Seq(Trip) /\ Len(march') = Len(march)
        /\ \A k \in Marches : march'[k].target = march[k].target
        /\ march'[i].state = "home"
        /\ \A k \in Marches \ {i} : march'[k] = march[k]
    BY <1>5, <2>1
  <2> HIDE DEF Trip
  <2> QED
    BY <1>1, <1>2, <2>1, <2>2 DEF GameMoves, Trip
<1>12. ASSUME NEW t \in Targets, QuestDisappears(t) PROVE GameMoves
  <2>1. quest' = [quest EXCEPT ![t] = "missing"] /\ UNCHANGED <<march, requests, starting>>
    BY <1>12 DEF QuestDisappears
  <2>2. quest' \in [Targets -> States]
        /\ \A u \in Targets : quest'[u] \in {"marching", "completed"} => quest'[u] = quest[u]
    BY <1>1, <2>1
  <2> HIDE DEF Trip
  <2> QED
    BY <1>1, <1>2, <1>6, <2>1, <2>2 DEF GameMoves, Trip
<1> QED
  BY <1>7, <1>8, <1>9, <1>10, <1>11, <1>12 DEF GameStep

LEMMA NextKinds ==
  ASSUME TypeOK, [Next]_vars
  PROVE  \/ \E c \in Commands : GoesOn(c) \/ MakesRequest(c)
         \/ GameMoves
         \/ UNCHANGED vars
<1>1. ASSUME NEW c \in Commands,
             Begins(c) \/ Works(c) \/ ScriptFails(c) \/ Killed(c)
      PROVE  GoesOn(c) \/ MakesRequest(c)
  BY <1>1, ScriptsWithoutRequest, Preparations, Requesting
  DEF Works, MonsterStep, BattleStep
<1> QED
  BY <1>1, GameStepMoves DEF Next

-----------------------------------------------------------------------------
(* What a command becomes, by itself.                                       *)

AsksIn(cc, t) == t \in Range(cc.left) \/ cc.result[t] # "none"

\* s may follow cc: it is in order, asks for the same targets, and has not
\* taken back a result, a preparation or a commit.
Follows(cc, s) ==
  /\ s \in CommandType /\ InOrder(s)
  /\ \A t \in Targets :
       /\ AsksIn(s, t) <=> AsksIn(cc, t)
       /\ cc.result[t] # "none" => s.result[t] = cc.result[t]
       /\ HasPrepared(cc, t) => HasPrepared(s, t)
       /\ HasCommitted(cc, t) => HasCommitted(s, t)

\* Before the quest of the list's head is asked for.
Unsent(cc) == cc.left # <<>> => cc.sent[Head(cc.left)] = 0

LEMMA MoveFollows ==
  ASSUME NEW cc \in CommandType, InOrder(cc), NEW stage \in Stages,
         NEW n \in Nat, Repeats(cc, n),
         stage \notin {"none", "over"} => cc.left # <<>>,
         stage = "inspecting" => cc.pc = "none",
         stage = "preparing" => Head(cc.left) \in Monsters /\ Unsent(cc),
         stage = "committing" => cc.pc = "preparing" \/ Unsent(cc),
         stage = "verifying" => cc.pc = "committing" /\ cc.sent[Head(cc.left)] > 0,
         stage # "none",
         stage = "committing" => cc.pc \in {"none", "inspecting", "preparing"},
         stage = "preparing" => cc.pc \in {"none", "inspecting"}
  PROVE  /\ Follows(cc, [cc EXCEPT !.pc = stage])
         /\ Repeats([cc EXCEPT !.pc = stage], n)
<1> DEFINE s == [cc EXCEPT !.pc = stage]
<1>1. /\ s \in CommandType /\ s.pc = stage /\ s.left = cc.left
      /\ s.result = cc.result /\ s.sent = cc.sent
  BY MoveFields
<1>2. /\ cc.left \in Seq(Targets) /\ cc.sent \in [Targets -> Nat]
      /\ cc.pc \in Stages
  BY DEF CommandType
<1>3. cc.left # <<>> => Head(cc.left) \in Targets
  BY <1>2, FirstOfList
<1> HIDE DEF s
<1>4. InOrder(s)
  <2>1. stage \in {"inspecting"} =>
          \A t \in Targets : cc.sent[t] = 0 /\ cc.result[t] = "none"
    BY DEF InOrder
  <2>2. stage = "preparing" => Head(cc.left) \in Monsters /\ cc.sent[Head(cc.left)] = 0
    BY DEF Unsent
  <2> QED
    BY <1>1, <2>1, <2>2 DEF InOrder
<1>5. \A t \in Targets :
        /\ AsksIn(s, t) <=> AsksIn(cc, t)
        /\ cc.result[t] # "none" => s.result[t] = cc.result[t]
  BY <1>1 DEF AsksIn
<1>6. \A t \in Targets :
        /\ HasPrepared(cc, t) => HasPrepared(s, t)
        /\ HasCommitted(cc, t) => HasCommitted(s, t)
  BY <1>1 DEF HasPrepared, HasCommitted, Stages
<1>7. Repeats(s, n)
  <2> SUFFICES ASSUME NEW t \in Targets \ Monsters
               PROVE  /\ s.sent[t] <= 1 + n
                      /\ s.pc = "committing" /\ t = Head(s.left) => s.sent[t] <= n
    BY DEF Repeats
  <2>1. s.sent[t] <= 1 + n
    BY <1>1 DEF Repeats
  <2>2. ASSUME stage = "committing", t = Head(cc.left) PROVE cc.sent[t] = 0
    BY <2>2 DEF Unsent, InOrder
  <2> QED
    BY <1>1, <2>1, <2>2
<1> QED
  BY <1>1, <1>4, <1>5, <1>6, <1>7 DEF Follows, s

LEMMA ReportFollows ==
  ASSUME NEW cc \in CommandType, InOrder(cc), cc.left # <<>>,
         NEW n \in Nat, \A t \in Targets \ Monsters : cc.sent[t] <= 1 + n,
         NEW res \in {"dispatched", "blocked", "error"},
         res = "dispatched" => cc.sent[Head(cc.left)] > 0
  PROVE  /\ Follows(cc, Reports(cc, res))
         /\ Repeats(Reports(cc, res), n)
<1> DEFINE s == Reports(cc, res)
           h == Head(cc.left)
           rest == Tail(cc.left)
<1>1. /\ s \in CommandType /\ s.pc = FirstStage(rest) /\ s.left = rest
      /\ s.result[h] = res /\ \A u \in Targets \ {h} : s.result[u] = cc.result[u]
      /\ s.sent = cc.sent
  BY ReportFields
<1>2. /\ cc.left \in Seq(Targets) /\ cc.sent \in [Targets -> Nat]
  BY DEF CommandType
<1>3. /\ h \in Targets /\ h \in Range(cc.left) /\ rest \in Seq(Targets)
      /\ Range(rest) \subseteq Range(cc.left)
      /\ \A t \in Range(cc.left) : t = h \/ t \in Range(rest)
      /\ IsInjective(rest) /\ h \notin Range(rest)
  BY <1>2, FirstOfList DEF InOrder
<1>4. rest # <<>> => Head(rest) \in Targets /\ Head(rest) \in Range(rest)
  BY <1>3, FirstOfList
<1>5. /\ FirstStage(rest) \in {"over", "preparing", "committing"}
      /\ FirstStage(rest) = "over" <=> rest = <<>>
      /\ FirstStage(rest) = "preparing" => Head(rest) \in Monsters
  BY <1>3, FirstStageIs
<1>6. cc.result[h] = "none"
  BY <1>3 DEF InOrder
\* The next target has not been asked for.
<1>7. rest # <<>> => cc.sent[Head(rest)] = 0
  <2>1. ASSUME rest # <<>>
        PROVE  /\ Head(rest) \in Targets /\ cc.result[Head(rest)] = "none"
               /\ Head(rest) # h
    BY <1>3, <1>4, <2>1 DEF InOrder
  <2> QED
    BY <1>2, <2>1 DEF InOrder
<1> HIDE DEF s, h, rest
<1>8. InOrder(s)
  <2>1. \A t \in Targets : s.result[t] # "none" => t \notin Range(s.left)
    BY <1>1, <1>3 DEF InOrder
  <2>2. \A t \in Targets : s.sent[t] > 0 => s.result[t] # "none"
    BY <1>1, <1>3 DEF InOrder, h
  <2>3. \A t \in Targets : s.result[t] = "dispatched" => s.sent[t] > 0
    BY <1>1 DEF InOrder, h
  <2> QED
    BY <1>1, <1>3, <1>5, <1>7, <2>1, <2>2, <2>3 DEF InOrder
<1>9. \A t \in Targets :
        /\ AsksIn(s, t) <=> AsksIn(cc, t)
        /\ cc.result[t] # "none" => s.result[t] = cc.result[t]
  BY <1>1, <1>3, <1>6 DEF AsksIn
<1>10. \A t \in Targets :
        /\ HasPrepared(cc, t) => HasPrepared(s, t)
        /\ HasCommitted(cc, t) => HasCommitted(s, t)
  BY <1>1, <1>9 DEF HasPrepared, HasCommitted, h
<1>11. Repeats(s, n)
  <2> SUFFICES ASSUME NEW t \in Targets \ Monsters
               PROVE  /\ s.sent[t] <= 1 + n
                      /\ s.pc = "committing" /\ t = Head(s.left) => s.sent[t] <= n
    BY DEF Repeats
  <2>1. s.sent[t] <= 1 + n
    BY <1>1
  <2>2. ASSUME FirstStage(rest) = "committing", t = Head(rest) PROVE cc.sent[t] = 0
    BY <1>5, <1>7, <2>2
  <2> QED
    BY <1>1, <2>1, <2>2
<1> QED
  BY <1>1, <1>8, <1>9, <1>10, <1>11 DEF Follows, s

LEMMA SendFollows ==
  ASSUME NEW cc \in CommandType, InOrder(cc), cc.pc = "committing",
         NEW r, r.target = Head(cc.left), Len(march) \in 0..MaxMarches,
         NEW n \in Nat, Repeats(cc, n)
  PROVE  LET s == Sends(cc, r)
         IN  /\ Follows(cc, s)
             /\ Repeats(s, n + 1)
             /\ \A t \in Targets \ Monsters : s.sent[t] <= 1 + n
             /\ s.sent[Head(s.left)] > 0
<1> DEFINE s == Sends(cc, r)
           h == Head(cc.left)
<1>1. /\ cc.left # <<>> /\ cc.left \in Seq(Targets) /\ cc.sent \in [Targets -> Nat]
  BY DEF InOrder, CommandType
<1>2. h \in Targets
  BY <1>1, FirstOfList
<1>3. /\ s \in CommandType /\ s.pc = cc.pc /\ s.left = cc.left /\ s.result = cc.result
      /\ s.sent[h] = cc.sent[h] + 1
      /\ \A u \in Targets \ {h} : s.sent[u] = cc.sent[u]
  BY <1>2, SendFields
<1>4. s.sent \in [Targets -> Nat] /\ cc.sent[h] \in Nat
  BY <1>1, <1>2, <1>3 DEF CommandType
<1> HIDE DEF s
<1>5. InOrder(s)
  <2>1. \A t \in Targets : s.sent[t] > 0 => cc.result[t] # "none" \/ t = h
    BY <1>3 DEF InOrder
  <2>2. \A t \in Targets : cc.result[t] = "dispatched" => s.sent[t] > 0
    BY <1>3, <1>4 DEF InOrder
  <2> HIDE DEF h
  <2> QED
    BY <1>1, <1>3, <2>1, <2>2 DEF InOrder, h
<1>6. Follows(cc, s)
  BY <1>3, <1>5 DEF Follows, AsksIn, HasPrepared, HasCommitted
<1>7. \A t \in Targets \ Monsters :
        s.sent[t] <= 1 + n /\ (t = h => s.sent[t] <= n + 1)
  <2> SUFFICES ASSUME NEW t \in Targets \ Monsters PROVE s.sent[t] <= 1 + n
    OBVIOUS
  <2>1. CASE t = h
    BY <1>3, <1>4, <2>1 DEF Repeats
  <2>2. CASE t # h
    BY <1>3, <2>2 DEF Repeats
  <2> QED
    BY <2>1, <2>2
<1>8. Repeats(s, n + 1)
  BY <1>3, <1>4, <1>7 DEF Repeats
<1>9. s.sent[Head(s.left)] > 0
  BY <1>3, <1>4
<1> QED
  BY <1>6, <1>7, <1>8, <1>9 DEF s

-----------------------------------------------------------------------------
(* What the commands become in a step.                                      *)

AllInOrder == \A c \in Commands : InOrder(command[c]) /\ Repeats(command[c], faults)

AllFollow ==
  /\ \A c \in Commands : Follows(command[c], command'[c])
                         /\ Repeats(command'[c], faults')
  /\ command' \in [Commands -> CommandType]
  /\ faults' \in 0..MaxFaults /\ faults <= faults'

LEMMA RepeatsMore ==
  ASSUME NEW cc \in CommandType, NEW m \in Nat, NEW n \in Nat, m <= n, Repeats(cc, m)
  PROVE  Repeats(cc, n)
<1>1. cc.sent \in [Targets -> Nat]
  BY DEF CommandType
<1> QED
  BY <1>1 DEF Repeats

LEMMA FollowsItself ==
  ASSUME NEW cc \in CommandType, InOrder(cc)
  PROVE  Follows(cc, cc)
BY DEF Follows

LEMMA FollowsTwice ==
  ASSUME NEW cc, NEW s, NEW z, Follows(cc, s), Follows(s, z)
  PROVE  Follows(cc, z)
BY DEF Follows

LEMMA OnwardFollows ==
  ASSUME TypeOK, AllInOrder, NEW c \in Commands, NEW s, Onward(c, s)
  PROVE  /\ Follows(command[c], s) /\ Repeats(s, faults)
         /\ s.sent = command[c].sent /\ s.before = command[c].before
<1> DEFINE cc == command[c]
<1>1. cc \in CommandType /\ InOrder(cc) /\ faults \in Nat /\ Repeats(cc, faults)
  BY MarchAssumption DEF TypeOK, AllInOrder
<1>2. cc.left \in Seq(Targets) /\ cc.pc \in Stages /\ cc.sent \in [Targets -> Nat]
  BY <1>1 DEF CommandType
<1>3. Target(c) = Head(cc.left)
  BY DEF Target
<1> HIDE DEF cc
<1>4. ASSUME NEW stage \in Stages, Follows(cc, [cc EXCEPT !.pc = stage]),
             Repeats([cc EXCEPT !.pc = stage], faults), s = [cc EXCEPT !.pc = stage]
      PROVE  /\ Follows(cc, s) /\ Repeats(s, faults)
             /\ s.sent = cc.sent /\ s.before = cc.before
  BY <1>1, <1>4, MoveFields
<1>5. CASE cc.pc # "none" /\ s = [cc EXCEPT !.pc = "over"]
  <2>1. "over" \in Stages
    BY DEF Stages
  <2> QED
    BY <1>1, <1>4, <1>5, <2>1, MoveFollows DEF cc
<1>6. CASE cc.pc = "none" /\ s = [cc EXCEPT !.pc = "inspecting"] /\ cc.left # <<>>
  <2>1. "inspecting" \in Stages
    BY DEF Stages
  <2> QED
    BY <1>1, <1>4, <1>6, <2>1, MoveFollows DEF cc
<1>7. CASE /\ cc.pc \in {"none", "inspecting"} /\ cc.left # <<>>
           /\ s = [cc EXCEPT !.pc = FirstStage(cc.left)]
  <2> DEFINE stage == FirstStage(cc.left)
  <2>1. /\ stage \in Stages /\ stage \in {"preparing", "committing"}
        /\ stage = "preparing" => Head(cc.left) \in Monsters
    BY <1>2, <1>7, FirstStageIs DEF Stages
  <2>2. Unsent(cc)
    BY <1>1, <1>2, <1>7, FirstOfList DEF InOrder, Unsent
  <2> HIDE DEF stage
  <2>3. Follows(cc, [cc EXCEPT !.pc = stage]) /\ Repeats([cc EXCEPT !.pc = stage], faults)
    BY <1>1, <1>7, <2>1, <2>2, MoveFollows
  <2>4. s = [cc EXCEPT !.pc = stage]
    BY <1>7 DEF stage
  <2> QED
    BY <1>4, <2>1, <2>3, <2>4 DEF cc
<1>8. CASE cc.pc = "preparing" /\ s = [cc EXCEPT !.pc = "committing"]
  <2>1. "committing" \in Stages /\ cc.left # <<>>
    BY <1>1, <1>8 DEF Stages, InOrder
  <2> QED
    BY <1>1, <1>4, <1>8, <2>1, MoveFollows DEF cc
<1>9. ASSUME NEW res \in {"dispatched", "blocked", "error"},
             s = Reports(cc, res), cc.pc \in {"preparing", "committing", "verifying"},
             res = "dispatched" => cc.pc = "verifying"
      PROVE  /\ Follows(cc, s) /\ Repeats(s, faults)
             /\ s.sent = cc.sent /\ s.before = cc.before
  <2>1. cc.left # <<>> /\ (res = "dispatched" => cc.sent[Head(cc.left)] > 0)
    BY <1>1, <1>9 DEF InOrder
  <2>2. \A t \in Targets \ Monsters : cc.sent[t] <= 1 + faults
    BY <1>1 DEF Repeats
  <2> QED
    BY <1>1, <1>9, <2>1, <2>2, ReportFollows, ReportFields
<1> QED
  BY <1>5, <1>6, <1>7, <1>8, <1>9 DEF Onward, cc

LEMMA AskedFollows ==
  ASSUME TypeOK, AllInOrder, NEW c \in Commands, At(c, "committing"),
         NEW r, r.target = Target(c), NEW s
  PROVE  LET sent == Sends(command[c], r)
         IN  /\ s = sent =>
                  Follows(command[c], s) /\ Repeats(s, faults + 1)
             /\ Asked(c, r, s) =>
                  /\ Follows(command[c], s) /\ Repeats(s, faults)
                  /\ s.sent = sent.sent /\ s.before = sent.before
<1> DEFINE cc == command[c]
           sent == Sends(command[c], r)
<1>1. /\ cc \in CommandType /\ InOrder(cc) /\ faults \in Nat /\ Repeats(cc, faults)
      /\ cc.pc = "committing" /\ r.target = Head(cc.left)
      /\ Len(march) \in 0..MaxMarches
  BY MarchAssumption DEF TypeOK, AllInOrder, At, Target
<1>2. cc.left # <<>> /\ cc.left \in Seq(Targets) /\ Head(cc.left) \in Targets
  BY <1>1, AtWork DEF At, Target, CommandType
<1>3. /\ Follows(cc, sent) /\ Repeats(sent, faults + 1)
      /\ \A t \in Targets \ Monsters : sent.sent[t] <= 1 + faults
      /\ sent.sent[Head(sent.left)] > 0
  BY <1>1, SendFollows
<1>4. sent \in CommandType /\ sent.pc = cc.pc /\ sent.left = cc.left
  BY <1>1, <1>2, SendFields
<1>5. InOrder(sent)
  BY <1>3 DEF Follows
<1> HIDE DEF sent, cc
<1>6. ASSUME s = [sent EXCEPT !.pc = "verifying"]
      PROVE  /\ Follows(cc, s) /\ Repeats(s, faults)
             /\ s.sent = sent.sent /\ s.before = sent.before
  <2>1. "verifying" \in Stages
    BY DEF Stages
  <2>2. Follows(sent, s) /\ \E n \in Nat : Repeats(s, n)
    BY <1>1, <1>2, <1>3, <1>4, <1>5, <1>6, <2>1, MoveFollows
  <2>3. s.sent = sent.sent /\ s.before = sent.before /\ s.pc = "verifying"
    BY <1>4, <1>6, <2>1, MoveFields
  <2>4. Repeats(s, faults)
    BY <1>3, <2>3 DEF Repeats
  <2> QED
    BY <1>3, <2>2, <2>3, <2>4, FollowsTwice
<1>7. ASSUME NEW res \in {"error", "dispatched"}, s = Reports(sent, res)
      PROVE  /\ Follows(cc, s) /\ Repeats(s, faults)
             /\ s.sent = sent.sent /\ s.before = sent.before
  <2>1. Follows(sent, s) /\ Repeats(s, faults)
    BY <1>1, <1>2, <1>3, <1>4, <1>5, <1>7, ReportFollows
  <2>2. s.sent = sent.sent /\ s.before = sent.before
    BY <1>2, <1>4, <1>7, ReportFields
  <2> QED
    BY <1>3, <2>1, <2>2, FollowsTwice
<1> QED
  BY <1>3, <1>6, <1>7 DEF Asked, sent, cc

LEMMA NextFollows ==
  ASSUME TypeOK, AllInOrder, [Next]_vars
  PROVE  AllFollow
<1>1. /\ command \in [Commands -> CommandType] /\ faults \in Nat /\ faults \in 0..MaxFaults
      /\ MaxFaults \in Nat
      /\ \A d \in Commands : Follows(command[d], command[d]) /\ Repeats(command[d], faults)
  BY MarchAssumption, FollowsItself DEF TypeOK, AllInOrder
<1>2. ASSUME NEW c \in Commands, NEW s, NEW n \in {faults, faults + 1},
             Becomes(c, s, n), Follows(command[c], s), Repeats(s, n)
      PROVE  AllFollow
  <2>1. s \in CommandType
    BY <1>2 DEF Follows
  <2>2. \A d \in Commands : Repeats(command[d], n)
    BY <1>1, RepeatsMore
  <2> QED
    BY <1>1, <1>2, <2>1, <2>2 DEF Becomes, AllFollow
<1>3. \A s \in CommandType : Repeats(s, faults) => Repeats(s, faults + 1)
  BY <1>1, RepeatsMore
<1>4. ASSUME NEW c \in Commands, GoesOn(c) PROVE AllFollow
  <2>1. PICK s : \/ Onward(c, s) /\ Becomes(c, s, faults)
                 \/ Onward(c, s) /\ Becomes(c, s, faults + 1)
                 \/ s = command[c] /\ Becomes(c, s, faults + 1)
    BY <1>4 DEF GoesOn
  <2>2. Onward(c, s) => Follows(command[c], s) /\ Repeats(s, faults) /\ s \in CommandType
    BY OnwardFollows DEF Follows
  <2> QED
    BY <1>1, <1>2, <1>3, <2>1, <2>2
<1>5. ASSUME NEW c \in Commands, MakesRequest(c) PROVE AllFollow
  <2>1. PICK r : r.target = Target(c) /\
          \E s : \/ Asked(c, r, s) /\ Becomes(c, s, faults)
                 \/ s = Sends(command[c], r) /\ Becomes(c, s, faults + 1)
    BY <1>5 DEF MakesRequest
  <2>2. At(c, "committing")
    BY <1>5 DEF MakesRequest
  <2> QED
    BY <1>2, <2>1, <2>2, AskedFollows
<1>6. CASE GameMoves \/ UNCHANGED vars
  BY <1>1, <1>6 DEF GameMoves, vars, AllFollow
<1> QED
  BY <1>4, <1>5, <1>6, NextKinds

-----------------------------------------------------------------------------
(* The kinds of steps, as the invariants see them.                          *)

LEMMA OnwardResults ==
  ASSUME TypeOK, AllInOrder, NEW c \in Commands, NEW s, Onward(c, s)
  PROVE  /\ s.pc # "verifying"
         /\ \A t \in Targets : s.result[t] # command[c].result[t] =>
              /\ t = Target(c) /\ command[c].pc \in {"preparing", "committing", "verifying"}
              /\ s.result[t] = "blocked" =>
                   command[c].pc = "preparing" \/ (command[c].pc = "committing" /\ CacheIsFor(t))
              /\ s.result[t] = "dispatched" =>
                   command[c].pc = "verifying" /\ (t \in Monsters => Accepted(t))
<1> DEFINE cc == command[c]
<1>1. cc \in CommandType /\ cc.left \in Seq(Targets) /\ InOrder(cc)
  BY DEF TypeOK, AllInOrder, CommandType
<1>2. Target(c) = Head(cc.left)
  BY DEF Target
<1>3. FirstStage(cc.left) \in {"over", "preparing", "committing"}
  BY <1>1, FirstStageIs
<1>4. {"over", "inspecting", "committing", "preparing"} \subseteq Stages
  BY DEF Stages
<1>5. ASSUME NEW stage \in {"over", "inspecting", "committing", "preparing"},
             s = [cc EXCEPT !.pc = stage]
      PROVE  s.pc # "verifying" /\ s.result = cc.result
  <2>1. s.pc = stage /\ s.result = cc.result
    BY <1>1, <1>4, <1>5, MoveFields
  <2> QED
    BY <2>1
<1>6. ASSUME NEW res \in {"dispatched", "blocked", "error"}, s = Reports(cc, res),
             cc.pc \in {"preparing", "committing", "verifying"}
      PROVE  /\ s.pc # "verifying"
             /\ s.result[Target(c)] = res
             /\ \A t \in Targets \ {Target(c)} : s.result[t] = cc.result[t]
  <2>1. cc.left # <<>>
    BY <1>1, <1>6 DEF InOrder
  <2>2. FirstStage(Tail(cc.left)) # "verifying"
    BY <1>1, <2>1, FirstOfList, FirstStageIs
  <2>3. /\ s.pc = FirstStage(Tail(cc.left))
        /\ s.result[Head(cc.left)] = res
        /\ \A u \in Targets \ {Head(cc.left)} : s.result[u] = cc.result[u]
    BY <1>1, <1>6, <2>1, ReportFields
  <2> QED
    BY <1>2, <2>2, <2>3
<1>7. CASE \E stage \in {"over", "inspecting", "committing", "preparing"} :
             s = [cc EXCEPT !.pc = stage]
  BY <1>5, <1>7
<1>8. CASE \E res \in {"dispatched", "blocked", "error"} :
             /\ s = Reports(cc, res)
             /\ cc.pc \in {"preparing", "committing", "verifying"}
             /\ res = "blocked" => cc.pc = "preparing"
                                   \/ (cc.pc = "committing" /\ CacheIsFor(Target(c)))
             /\ res = "dispatched" => cc.pc = "verifying"
                                      /\ (Target(c) \in Monsters => Accepted(Target(c)))
  BY <1>6, <1>8
<1>9. \/ \E stage \in {"over", "inspecting", "committing", "preparing"} :
             s = [cc EXCEPT !.pc = stage]
      \/ \E res \in {"dispatched", "blocked", "error"} :
             /\ s = Reports(cc, res)
             /\ cc.pc \in {"preparing", "committing", "verifying"}
             /\ res = "blocked" => cc.pc = "preparing"
                                   \/ (cc.pc = "committing" /\ CacheIsFor(Target(c)))
             /\ res = "dispatched" => cc.pc = "verifying"
                                      /\ (Target(c) \in Monsters => Accepted(Target(c)))
  BY <1>3 DEF Onward
<1> QED
  BY <1>7, <1>8, <1>9

\* A command that goes on has asked for nothing.
LEMMA GoesOnMeans ==
  ASSUME TypeOK, AllInOrder, NEW c \in Commands, GoesOn(c)
  PROVE  /\ UNCHANGED <<quest, march, requests, starting, snapshot>>
         /\ \A d \in Commands : /\ command'[d].sent = command[d].sent
                                /\ command'[d].before = command[d].before
         /\ \A d \in Commands \ {c} : command'[d] = command[d]
         /\ command'[c].pc = "verifying" => command'[c] = command[c]
         /\ \/ cache' \in {cache, None}
            \/ /\ At(c, "preparing") /\ cache' \in [target : {Target(c)}, team : Teams]
               /\ command'[c] = [command[c] EXCEPT !.pc = "committing"] \/ faults' = faults + 1
         /\ \A t \in Targets : command'[c].result[t] # command[c].result[t] =>
              /\ t = Target(c) /\ command[c].pc \in {"preparing", "committing", "verifying"}
              /\ command'[c].result[t] = "blocked" =>
                   command[c].pc = "preparing" \/ (command[c].pc = "committing" /\ CacheIsFor(t))
              /\ command'[c].result[t] = "dispatched" =>
                   command[c].pc = "verifying" /\ (t \in Monsters => Accepted(t))
<1>1. PICK s :
        /\ \/ Onward(c, s) /\ Becomes(c, s, faults)
           \/ Onward(c, s) /\ Becomes(c, s, faults + 1)
           \/ s = command[c] /\ Becomes(c, s, faults + 1)
        /\ \/ cache' \in {cache, None}
           \/ /\ At(c, "preparing")
              /\ cache' \in [target : {Target(c)}, team : Teams]
              /\ \/ s = [command[c] EXCEPT !.pc = "committing"]
                 \/ faults' = faults + 1
  BY DEF GoesOn
<1>2. command' = [command EXCEPT ![c] = s] /\ command \in [Commands -> CommandType]
  BY <1>1 DEF Becomes, TypeOK
<1>3. command'[c] = s /\ \A d \in Commands \ {c} : command'[d] = command[d]
  BY <1>2
<1>4. Onward(c, s) \/ s = command[c]
  BY <1>1
<1>5. s.sent = command[c].sent /\ s.before = command[c].before
  BY <1>4, OnwardFollows
<1>6. UNCHANGED <<quest, march, requests, starting, snapshot>>
  BY DEF GoesOn, server
<1>7. \A d \in Commands : /\ command'[d].sent = command[d].sent
                          /\ command'[d].before = command[d].before
  BY <1>3, <1>5
<1>8. CASE Onward(c, s)
  <2>1. s.pc # "verifying"
    BY <1>8, OnwardResults
  <2>2. \A t \in Targets : s.result[t] # command[c].result[t] =>
          /\ t = Target(c) /\ command[c].pc \in {"preparing", "committing", "verifying"}
          /\ s.result[t] = "blocked" =>
               command[c].pc = "preparing" \/ (command[c].pc = "committing" /\ CacheIsFor(t))
          /\ s.result[t] = "dispatched" =>
               command[c].pc = "verifying" /\ (t \in Monsters => Accepted(t))
    BY <1>8, OnwardResults
  <2> QED
    BY <1>1, <1>3, <1>6, <1>7, <2>1, <2>2
<1>9. CASE s = command[c]
  BY <1>1, <1>3, <1>6, <1>7, <1>9
<1> QED
  BY <1>4, <1>8, <1>9

\* A command has asked for its target once more.
Requests(c, r) ==
  /\ r \in [target : Targets, team : Teams \cup {None}, by : Commands]
  /\ r.target = Target(c) /\ r.by = c
  /\ requests' = Append(requests, r)
  /\ r.target \in Heroes => r.target \notin starting
  /\ starting' = starting \cup ({r.target} \cap Heroes)
  /\ \/ /\ r.target \in Monsters /\ CacheIsFor(r.target) /\ cache' = None
        /\ snapshot' = {i \in Marches : OnMap(i)}
     \/ /\ r.target \notin Monsters /\ r.team = None
        /\ UNCHANGED <<cache, snapshot>>
  /\ command'[c].sent[r.target] = command[c].sent[r.target] + 1
  /\ \A t \in Targets \ {r.target} : command'[c].sent[t] = command[c].sent[t]
  /\ command'[c].before = Len(march)
  /\ command[c].result[r.target] = "none"
  /\ \A t \in Targets : command'[c].result[t] # command[c].result[t] =>
       /\ t = r.target
       /\ command'[c].result[t] = "error" \/ (t \notin Monsters /\ command'[c].result[t] = "dispatched")
  /\ \/ faults' = faults + 1
     \/ ~HasCommitted(command[c], r.target) /\ HasCommitted(command'[c], r.target)

LEMMA MakesRequestMeans ==
  ASSUME TypeOK, AllInOrder, NEW c \in Commands, MakesRequest(c)
  PROVE  /\ UNCHANGED <<quest, march>> /\ starting' \subseteq Heroes
         /\ At(c, "committing")
         /\ \A d \in Commands \ {c} : command'[d] = command[d]
         /\ \E r : Requests(c, r)
<1> DEFINE cc == command[c]
<1>1. PICK r \in [target : Targets, team : Teams \cup {None}, by : Commands] :
       /\ r.target = Target(c) /\ r.by = c
       /\ requests' = Append(requests, r)
       /\ \/ /\ Target(c) \in Monsters /\ CacheIsFor(Target(c)) /\ cache' = None
             /\ snapshot' = {i \in Marches : OnMap(i)}
          \/ /\ Target(c) \notin Monsters /\ r.team = None
             /\ UNCHANGED <<cache, snapshot>>
       /\ \E s : \/ Asked(c, r, s) /\ Becomes(c, s, faults)
                 \/ s = Sends(cc, r) /\ Becomes(c, s, faults + 1)
       /\ r.target \in Heroes => r.target \notin starting
       /\ starting' = starting \cup ({r.target} \cap Heroes)
  BY DEF MakesRequest
<1>2. PICK s : \/ Asked(c, r, s) /\ Becomes(c, s, faults)
               \/ s = Sends(cc, r) /\ Becomes(c, s, faults + 1)
  BY <1>1
<1>3. /\ UNCHANGED <<quest, march>> /\ starting' \subseteq Heroes /\ At(c, "committing")
  BY <1>1 DEF MakesRequest, TypeOK
<1>4. /\ cc \in CommandType /\ InOrder(cc) /\ cc.pc = "committing"
      /\ r.target = Head(cc.left) /\ r.target \in Targets
      /\ Len(march) \in 0..MaxMarches
  BY <1>1, <1>3 DEF TypeOK, AllInOrder, At, Target
<1>5. cc.left # <<>> /\ cc.left \in Seq(Targets) /\ r.target \in Range(cc.left)
  BY <1>4, FirstOfList DEF InOrder, CommandType
<1>6. cc.result[r.target] = "none"
  BY <1>4, <1>5 DEF InOrder
<1>7. command' = [command EXCEPT ![c] = s] /\ command \in [Commands -> CommandType]
  BY <1>2 DEF Becomes, TypeOK
<1>8. command'[c] = s /\ \A d \in Commands \ {c} : command'[d] = command[d]
  BY <1>7
<1> DEFINE sent == Sends(cc, r)
<1>9. /\ sent \in CommandType /\ sent.pc = cc.pc /\ sent.left = cc.left
      /\ sent.result = cc.result
      /\ sent.sent[r.target] = cc.sent[r.target] + 1
      /\ \A u \in Targets \ {r.target} : sent.sent[u] = cc.sent[u]
      /\ sent.before = Len(march)
  BY <1>4, SendFields
<1>10. ~HasCommitted(cc, r.target)
  BY <1>4, <1>6 DEF HasCommitted
<1>11. s = sent \/ Asked(c, r, s)
  BY <1>2
<1>12. s.sent = sent.sent /\ s.before = sent.before
  BY <1>1, <1>3, <1>11, AskedFollows
<1> HIDE DEF sent
<1>13. /\ \A t \in Targets : s.result[t] # cc.result[t] =>
            /\ t = r.target
            /\ s.result[t] = "error" \/ (t \notin Monsters /\ s.result[t] = "dispatched")
       /\ Asked(c, r, s) => HasCommitted(s, r.target)
  <2>1. CASE s = [sent EXCEPT !.pc = "verifying"]
    <3>1. "verifying" \in Stages
      BY DEF Stages
    <3>2. s.pc = "verifying" /\ s.left = cc.left /\ s.result = cc.result
      BY <1>9, <2>1, <3>1, MoveFields
    <3> QED
      BY <1>4, <1>5, <3>2 DEF HasCommitted
  <2>2. ASSUME NEW res \in {"error", "dispatched"}, s = Reports(sent, res),
               res = "dispatched" => r.target \notin Monsters
        PROVE  <1>13!1 /\ HasCommitted(s, r.target)
    <3>1. s.result[r.target] = res /\ \A u \in Targets \ {r.target} : s.result[u] = cc.result[u]
      BY <1>4, <1>5, <1>9, <2>2, ReportFields
    <3> QED
      BY <2>2, <3>1 DEF HasCommitted
  <2>3. CASE s = sent /\ ~Asked(c, r, s)
    BY <1>9, <2>3
  <2>4. \/ s = sent /\ ~Asked(c, r, s)
        \/ s = [sent EXCEPT !.pc = "verifying"]
        \/ \E res \in {"error", "dispatched"} :
             s = Reports(sent, res) /\ (res = "dispatched" => r.target \notin Monsters)
    BY <1>1, <1>11 DEF Asked, sent
  <2> QED
    BY <2>1, <2>2, <2>3, <2>4
<1>14. faults' = faults + 1 \/ HasCommitted(s, r.target)
  BY <1>2, <1>13 DEF Becomes
<1>15. Requests(c, r)
  BY <1>1, <1>6, <1>8, <1>9, <1>10, <1>12, <1>13, <1>14 DEF Requests
<1> QED
  BY <1>3, <1>8, <1>15

-----------------------------------------------------------------------------
(* Each part of the invariant survives a step.                              *)

\* A step is one of these, as GoesOnMeans and MakesRequestMeans describe them.
LEMMA StepKinds ==
  ASSUME TypeOK, AllInOrder, [Next]_vars
  PROVE  \/ \E c \in Commands : GoesOn(c)
         \/ \E c \in Commands : \E r : MakesRequest(c) /\ Requests(c, r)
         \/ GameMoves
         \/ UNCHANGED vars
BY NextKinds, MakesRequestMeans

LEMMA TypingStep ==
  ASSUME TypeOK, AllInOrder, [Next]_vars
  PROVE  TypeOK'
<1> DEFINE Questing == [Targets -> {"available", "marching", "completed", "missing"}]
           AMarch == [target : Targets, team : Teams \cup {None},
                      state : {"going", "returning", "home"}]
           ARequest == [target : Targets, team : Teams \cup {None}, by : Commands]
           ACache == [target : Monsters, team : Teams] \cup {None}
<1>1. AllFollow
  BY NextFollows
<1>2. /\ command' \in [Commands -> CommandType] /\ faults' \in 0..MaxFaults
      /\ \A c \in Commands : InOrder(command'[c])
  BY <1>1 DEF AllFollow, Follows
<1>3. \A c \in Commands :
        command'[c].pc # "none" /\ command'[c].pc # "over" => command'[c].left # <<>>
  BY <1>2 DEF InOrder
<1>4. /\ quest \in Questing /\ march \in Seq(AMarch) /\ Len(march) <= MaxMarches
      /\ requests \in Seq(ARequest) /\ starting \subseteq Heroes /\ cache \in ACache
      /\ snapshot \subseteq 1..Len(march) /\ Len(march) \in Nat
  BY DEF TypeOK, Marches
<1> HIDE DEF Questing, AMarch, ARequest, ACache
<1>5. ASSUME /\ quest' \in Questing /\ march' \in Seq(AMarch) /\ Len(march') <= MaxMarches
             /\ requests' \in Seq(ARequest) /\ starting' \subseteq Heroes /\ cache' \in ACache
             /\ snapshot' \subseteq 1..Len(march')
      PROVE  TypeOK'
  BY <1>2, <1>3, <1>5 DEF TypeOK, Marches, At, Questing, AMarch, ARequest, ACache
<1>6. ASSUME NEW c \in Commands, GoesOn(c) PROVE TypeOK'
  <2>1. /\ UNCHANGED <<quest, march, requests, starting, snapshot>>
        /\ \/ cache' \in {cache, None}
           \/ At(c, "preparing") /\ cache' \in [target : {Target(c)}, team : Teams]
    BY <1>6, GoesOnMeans
  <2>2. At(c, "preparing") => Target(c) \in Monsters
    BY DEF AllInOrder, InOrder, At, Target
  <2>3. cache' \in ACache
    BY <1>4, <2>1, <2>2 DEF ACache
  <2> QED
    BY <1>4, <1>5, <2>1, <2>3
<1>7. ASSUME NEW c \in Commands, NEW r, MakesRequest(c), Requests(c, r) PROVE TypeOK'
  <2>1. UNCHANGED <<quest, march>> /\ starting' \subseteq Heroes
    BY <1>7, MakesRequestMeans
  <2>2. /\ r \in ARequest /\ requests' = Append(requests, r)
        /\ \/ cache' = None /\ snapshot' = {i \in Marches : OnMap(i)}
           \/ UNCHANGED <<cache, snapshot>>
    BY <1>7 DEF Requests, ARequest
  <2>3. requests' \in Seq(ARequest)
    BY <1>4, <2>2
  <2>4. snapshot' \subseteq 1..Len(march') /\ cache' \in ACache
    BY <1>4, <2>1, <2>2 DEF Marches, ACache
  <2> QED
    BY <1>4, <1>5, <2>1, <2>3, <2>4
<1>8. CASE GameMoves
  <2>1. /\ UNCHANGED <<cache, snapshot>>
        /\ requests' = requests \/ (requests # <<>> /\ requests' = Tail(requests))
        /\ quest' \in Questing /\ march' \in Seq(AMarch)
        /\ Len(march) <= Len(march') /\ Len(march') <= MaxMarches
    BY <1>8 DEF GameMoves, Questing, AMarch
  <2>2. requests' \in Seq(ARequest)
    <3>1. requests # <<>> => Tail(requests) \in Seq(ARequest)
      BY <1>4
    <3> QED
      BY <1>4, <2>1, <3>1
  <2>3. Len(march') \in Nat
    BY <2>1
  <2>4. snapshot' \subseteq 1..Len(march')
    BY <1>4, <2>1, <2>3
  <2>5. starting' \subseteq Heroes
    BY <1>4, <1>8 DEF GameMoves
  <2> QED
    BY <1>4, <1>5, <2>1, <2>2, <2>4, <2>5
<1>9. CASE UNCHANGED vars
  BY <1>4, <1>5, <1>9 DEF vars
<1> QED
  BY <1>6, <1>7, <1>8, <1>9, StepKinds

\* A command asks for the same targets as long as it lives.
LEMMA AsksSteady ==
  ASSUME TypeOK, AllFollow
  PROVE  \A t \in Targets :
           /\ \A c \in Commands : Asks(c, t)' <=> Asks(c, t)
           /\ \A c \in Commands : Alone(c, t)' <=> Alone(c, t)
<1>1. \A c \in Commands, t \in Targets : Asks(c, t)' <=> Asks(c, t)
  BY DEF AllFollow, Follows, AsksIn, Asks
<1> QED
  BY <1>1 DEF Alone

\* What a command has asked for, or is about to prepare, it asks for.
LEMMA AsksForTarget ==
  ASSUME TypeOK, AllInOrder, NEW c \in Commands, command[c].left # <<>>
  PROVE  Asks(c, Target(c)) /\ Target(c) \in Targets
<1>1. command[c].left \in Seq(Targets)
  BY DEF TypeOK, CommandType
<1> QED
  BY <1>1, FirstOfList DEF Asks, Target

LEMMA OnceAloneStep ==
  ASSUME TypeOK, AllInOrder, OnceAlone, [Next]_vars
  PROVE  OnceAlone'
<1>1. AllFollow
  BY NextFollows
<1>2. \A t \in Targets, c \in Commands : Alone(c, t)' <=> Alone(c, t)
  BY <1>1, AsksSteady
<1>3. SUFFICES ASSUME NEW d \in Commands, NEW t \in Targets, Alone(d, t)
               PROVE  /\ t \in Monsters => command'[d].sent[t] <= 1
                      /\ CacheIsFor(t)' => command'[d].sent[t] = 0
                      /\ command'[d].result[t] = "blocked" => command'[d].sent[t] = 0
  BY <1>2 DEF OnceAlone
<1>4. /\ t \in Monsters => command[d].sent[t] <= 1
      /\ CacheIsFor(t) => command[d].sent[t] = 0
      /\ command[d].result[t] = "blocked" => command[d].sent[t] = 0
      /\ command[d].sent[t] \in Nat
  BY <1>3 DEF OnceAlone, TypeOK, CommandType
<1>5. ASSUME NEW c \in Commands, GoesOn(c)
      PROVE  /\ t \in Monsters => command'[d].sent[t] <= 1
             /\ CacheIsFor(t)' => command'[d].sent[t] = 0
             /\ command'[d].result[t] = "blocked" => command'[d].sent[t] = 0
  <2>1. command'[d].sent = command[d].sent
    BY <1>5, GoesOnMeans
  <2>2. At(c, "preparing") =>
          /\ command[c].left # <<>> /\ command[c].sent[Target(c)] = 0
          /\ Asks(c, Target(c))
    BY AsksForTarget DEF AllInOrder, InOrder, At, Target
  <2>3. CacheIsFor(t)' => CacheIsFor(t) \/ (At(c, "preparing") /\ t = Target(c))
    BY <1>5, GoesOnMeans DEF CacheIsFor
  <2>4. CacheIsFor(t)' => command[d].sent[t] = 0
    BY <1>3, <1>4, <2>2, <2>3 DEF Alone
  <2>5. command'[d].result[t] = "blocked" =>
          \/ command[d].result[t] = "blocked"
          \/ d = c /\ t = Target(c) /\ (At(c, "preparing") \/ CacheIsFor(t))
    BY <1>5, GoesOnMeans DEF At
  <2>6. command'[d].result[t] = "blocked" => command[d].sent[t] = 0
    BY <1>4, <2>2, <2>5
  <2> QED
    BY <1>4, <2>1, <2>4, <2>6
<1>6. ASSUME NEW c \in Commands, NEW r, MakesRequest(c), Requests(c, r)
      PROVE  /\ t \in Monsters => command'[d].sent[t] <= 1
             /\ CacheIsFor(t)' => command'[d].sent[t] = 0
             /\ command'[d].result[t] = "blocked" => command'[d].sent[t] = 0
  <2>1. \A e \in Commands \ {c} : command'[e] = command[e]
    BY <1>6, MakesRequestMeans
  <2>2. /\ r.target \in Monsters => CacheIsFor(r.target) /\ cache' = None
        /\ r.target \notin Monsters => UNCHANGED cache
        /\ command'[c].sent[r.target] = command[c].sent[r.target] + 1
        /\ \A u \in Targets \ {r.target} : command'[c].sent[u] = command[c].sent[u]
        /\ command[c].result[r.target] = "none"
        /\ \A u \in Targets : command'[c].result[u] # command[c].result[u] =>
             u = r.target /\ command'[c].result[u] \in {"error", "dispatched"}
    BY <1>6 DEF Requests
  <2>3. CacheIsFor(t) => t \in Monsters
    BY DEF CacheIsFor, TypeOK
  <2>4. CacheIsFor(t)' => CacheIsFor(t) /\ r.target # t
    BY <2>2, <2>3 DEF CacheIsFor
  <2>5. CASE d = c /\ t = r.target
    BY <1>4, <2>2, <2>4, <2>5
  <2>6. CASE ~(d = c /\ t = r.target)
    <3>1. command'[d].sent[t] = command[d].sent[t]
      BY <2>1, <2>2, <2>6
    <3>2. command'[d].result[t] = command[d].result[t]
      BY <2>1, <2>2, <2>6
    <3> QED
      BY <1>4, <2>4, <3>1, <3>2
  <2> QED
    BY <2>5, <2>6
<1>7. CASE GameMoves \/ UNCHANGED vars
  BY <1>4, <1>7 DEF GameMoves, vars, CacheIsFor
<1> QED
  BY <1>5, <1>6, <1>7, StepKinds

\* Requests are not taken back, and neither are results.
LEMMA NothingTakenBack ==
  ASSUME TypeOK, AllInOrder, [Next]_vars
  PROVE  \A c \in Commands, t \in Targets :
           /\ command[c].sent[t] > 0 => command'[c].sent[t] > 0
           /\ command[c].result[t] # "none" => command'[c].result[t] = command[c].result[t]
<1>1. AllFollow
  BY NextFollows
<1>2. \A c \in Commands, t \in Targets :
        /\ command[c].result[t] # "none" => command'[c].result[t] = command[c].result[t]
        /\ command[c].sent[t] \in Nat
  BY <1>1 DEF AllFollow, Follows, TypeOK, CommandType
<1>3. ASSUME NEW c \in Commands, GoesOn(c)
      PROVE  \A d \in Commands : command'[d].sent = command[d].sent
  BY <1>3, GoesOnMeans
<1>4. ASSUME NEW c \in Commands, NEW r, MakesRequest(c), Requests(c, r)
      PROVE  \A d \in Commands, t \in Targets :
               command[d].sent[t] > 0 => command'[d].sent[t] > 0
  <2>1. \A d \in Commands \ {c} : command'[d] = command[d]
    BY <1>4, MakesRequestMeans
  <2>2. /\ command'[c].sent[r.target] = command[c].sent[r.target] + 1
        /\ \A t \in Targets \ {r.target} : command'[c].sent[t] = command[c].sent[t]
    BY <1>4 DEF Requests
  <2>3. \A t \in Targets : command[c].sent[t] > 0 => command'[c].sent[t] > 0
    BY <1>2, <2>2
  <2> QED
    BY <2>1, <2>3
<1>5. CASE GameMoves \/ UNCHANGED vars
  BY <1>2, <1>5 DEF GameMoves, vars
<1> QED
  BY <1>2, <1>3, <1>4, <1>5, StepKinds

LEMMA QueuedStep ==
  ASSUME TypeOK, AllInOrder, Queued, [Next]_vars
  PROVE  Queued'
<1> DEFINE ARequest == [target : Targets, team : Teams \cup {None}, by : Commands]
<1>1. /\ requests \in Seq(ARequest) /\ Len(requests) \in Nat
      /\ DOMAIN requests = 1..Len(requests)
      /\ \A i \in 1..Len(requests) : requests[i] \in ARequest
  BY SeqElements DEF TypeOK
<1>2. \A c \in Commands, t \in Targets :
        /\ command[c].sent[t] > 0 => command'[c].sent[t] > 0
        /\ command[c].result[t] # "none" => command'[c].result[t] # "none"
  BY NothingTakenBack
<1>3. \A i \in 1..Len(requests) :
        /\ requests[i].target \in Targets /\ requests[i].by \in Commands
        /\ command[requests[i].by].sent[requests[i].target] > 0
        /\ command'[requests[i].by].sent[requests[i].target] > 0
        /\ requests[i].team # None => requests[i].target \in Monsters
  BY <1>1, <1>2 DEF Queued
<1>4. \A i, j \in 1..Len(requests) :
        i < j /\ requests[i].by = requests[j].by /\ requests[i].target # requests[j].target
          => command'[requests[i].by].result[requests[i].target] # "none"
  BY <1>1, <1>2, <1>3 DEF Queued
<1>5. CASE requests' = requests
  BY <1>1, <1>3, <1>4, <1>5 DEF Queued
<1>6. CASE requests # <<>> /\ requests' = Tail(requests)
  <2>1. /\ DOMAIN requests' = 1..(Len(requests) - 1)
        /\ \A i \in 1..(Len(requests) - 1) : requests'[i] = requests[i + 1]
    BY <1>1, <1>6
  <2>2. \A i, j \in 1..(Len(requests) - 1) :
          /\ i + 1 \in 1..Len(requests) /\ j + 1 \in 1..Len(requests)
          /\ i < j => i + 1 < j + 1
    BY <1>1
  <2>3. ASSUME NEW i \in DOMAIN requests'
        PROVE  /\ command'[requests'[i].by].sent[requests'[i].target] > 0
               /\ requests'[i].team # None => requests'[i].target \in Monsters
    BY <1>3, <2>1, <2>2, <2>3
  <2>4. ASSUME NEW i \in DOMAIN requests', NEW j \in DOMAIN requests', i < j,
               requests'[i].by = requests'[j].by, requests'[i].target # requests'[j].target
        PROVE  command'[requests'[i].by].result[requests'[i].target] # "none"
    BY <1>4, <2>1, <2>2, <2>4
  <2> QED
    BY <2>3, <2>4 DEF Queued
<1>7. ASSUME NEW c \in Commands, NEW r, MakesRequest(c), Requests(c, r)
      PROVE  Queued'
  <2>1. /\ r \in ARequest /\ r.target = Target(c) /\ r.by = c
        /\ requests' = Append(requests, r)
        /\ r.team # None => r.target \in Monsters
        /\ command'[c].sent[r.target] = command[c].sent[r.target] + 1
    BY <1>7 DEF Requests
  <2>2. /\ DOMAIN requests' = 1..(Len(requests) + 1)
        /\ requests'[Len(requests) + 1] = r
        /\ \A i \in 1..Len(requests) : requests'[i] = requests[i]
    BY <1>1, <2>1
  <2>3. command[c].sent[r.target] \in Nat /\ r.target \in Targets
    BY <2>1 DEF TypeOK, CommandType
  <2>4. command'[c].sent[r.target] > 0
    BY <2>1, <2>3
  <2>5. ASSUME NEW i \in DOMAIN requests'
        PROVE  /\ command'[requests'[i].by].sent[requests'[i].target] > 0
               /\ requests'[i].team # None => requests'[i].target \in Monsters
    <3>1. CASE i \in 1..Len(requests)
      BY <1>3, <2>2, <3>1
    <3>2. CASE i = Len(requests) + 1
      BY <2>1, <2>2, <2>4, <3>2
    <3> QED
      BY <1>1, <2>2, <3>1, <3>2
  <2>6. ASSUME NEW i \in DOMAIN requests', NEW j \in DOMAIN requests', i < j,
               requests'[i].by = requests'[j].by, requests'[i].target # requests'[j].target
        PROVE  command'[requests'[i].by].result[requests'[i].target] # "none"
    <3>1. i \in 1..Len(requests) /\ requests'[i] = requests[i]
      BY <1>1, <2>2, <2>6
    <3>2. CASE j \in 1..Len(requests)
      BY <1>4, <2>2, <2>6, <3>1, <3>2
    <3>3. CASE j = Len(requests) + 1
      <4>1. requests[i].by = c /\ requests[i].target # Target(c)
        BY <2>1, <2>2, <2>6, <3>1, <3>3
      <4>2. command[c].sent[requests[i].target] > 0 /\ requests[i].target \in Targets
        BY <1>3, <3>1, <4>1
      <4>3. command[c].result[requests[i].target] # "none"
        BY <4>1, <4>2 DEF AllInOrder, InOrder, Target
      <4> QED
        BY <1>2, <3>1, <4>1, <4>2, <4>3
    <3> QED
      BY <1>1, <2>2, <3>2, <3>3
  <2> QED
    BY <2>5, <2>6 DEF Queued
<1>8. ASSUME NEW c \in Commands, GoesOn(c) PROVE requests' = requests
  BY <1>8, GoesOnMeans
<1>9. GameMoves \/ UNCHANGED vars =>
        requests' = requests \/ (requests # <<>> /\ requests' = Tail(requests))
  BY DEF GameMoves, vars
<1> QED
  BY <1>5, <1>6, <1>7, <1>8, <1>9, StepKinds

LEMMA ExplainedStep ==
  ASSUME TypeOK, AllInOrder, Explained, [Next]_vars
  PROVE  Explained'
<1>1. Monsters \subseteq Targets \ Heroes
  BY TargetsApart
<1>2. /\ \A t \in Targets \ Heroes : quest[t] \in {"marching", "completed"} =>
           \E k \in 1..Len(march) : march[k].target = t
      /\ \A c \in Commands, t \in Monsters : command[c].result[t] = "dispatched" =>
           \E k \in 1..Len(march) : march[k].target = t
  BY DEF Explained, Marches
<1> DEFINE Then ==
      /\ \A t \in Targets \ Heroes : quest'[t] \in {"marching", "completed"} =>
           \E k \in 1..Len(march') : march'[k].target = t
      /\ \A c \in Commands, t \in Monsters : command'[c].result[t] = "dispatched" =>
           \E k \in 1..Len(march') : march'[k].target = t
<1>3. SUFFICES Then
  BY DEF Explained, Marches
<1>4. \A t \in Monsters : Accepted(t) => \E k \in 1..Len(march) : march[k].target = t
  BY <1>1, <1>2 DEF Accepted, NewMarch, Marches
<1>5. ASSUME NEW c \in Commands, GoesOn(c) PROVE Then
  <2>1. UNCHANGED <<quest, march>> /\ \A d \in Commands \ {c} : command'[d] = command[d]
    BY <1>5, GoesOnMeans
  <2>2. \A t \in Monsters : command'[c].result[t] = "dispatched" =>
          command[c].result[t] = "dispatched" \/ Accepted(t)
    BY <1>1, <1>5, GoesOnMeans
  <2> QED
    BY <1>2, <1>4, <2>1, <2>2
<1>6. ASSUME NEW c \in Commands, NEW r, MakesRequest(c), Requests(c, r) PROVE Then
  <2>1. UNCHANGED <<quest, march>> /\ \A d \in Commands \ {c} : command'[d] = command[d]
    BY <1>6, MakesRequestMeans
  <2>2. \A t \in Monsters : command'[c].result[t] = "dispatched" =>
          command[c].result[t] = "dispatched"
    BY <1>1, <1>6 DEF Requests
  <2> QED
    BY <1>2, <2>1, <2>2
<1>7. CASE GameMoves
  <2>1. /\ command' = command /\ Len(march) <= Len(march') /\ Len(march') \in Nat
        /\ \A k \in 1..Len(march) : march'[k].target = march[k].target
        /\ \A t \in Targets \ Heroes : quest'[t] \in {"marching", "completed"} =>
             \/ quest[t] \in {"marching", "completed"}
             \/ \E k \in 1..Len(march') : march'[k].target = t
    BY <1>7 DEF GameMoves, Marches
  <2>2. Len(march) \in Nat /\ 1..Len(march) \subseteq 1..Len(march')
    BY <2>1 DEF TypeOK
  <2>3. \A t : (\E k \in 1..Len(march) : march[k].target = t) =>
                 \E k \in 1..Len(march') : march'[k].target = t
    BY <2>1, <2>2
  <2> QED
    BY <1>2, <2>1, <2>3
<1>8. CASE UNCHANGED vars
  BY <1>2, <1>8 DEF vars
<1> QED
  BY <1>5, <1>6, <1>7, <1>8, StepKinds

LEMMA SnapshotStep ==
  ASSUME TypeOK, AllInOrder, SnapshotCovers, [Next]_vars
  PROVE  SnapshotCovers'
<1>1. AllFollow
  BY NextFollows
<1>2. /\ Len(march) \in Nat
      /\ \A d \in Commands : command[d].before \in Nat /\ command[d].before <= Len(march)
      /\ \A d \in Commands : AtTarget(d, "verifying", Monsters) =>
           \A i \in 1..command[d].before : OnMap(i) => i \in snapshot
  BY MarchAssumption DEF SnapshotCovers, TypeOK, CommandType
<1> DEFINE Covered(d) ==
      /\ command'[d].before <= Len(march')
      /\ AtTarget(d, "verifying", Monsters)' =>
           \A i \in 1..command'[d].before : OnMap(i)' => i \in snapshot'
<1>3. SUFFICES ASSUME NEW d \in Commands PROVE Covered(d)
  BY DEF SnapshotCovers
<1>4. ASSUME command'[d] = command[d], march' = march,
             snapshot' = snapshot \/ snapshot' = {i \in Marches : OnMap(i)}
      PROVE  Covered(d)
  <2>1. \A i : OnMap(i)' <=> OnMap(i)
    BY <1>4 DEF OnMap
  <2>2. 1..command[d].before \subseteq Marches
    BY <1>2 DEF Marches
  <2>3. AtTarget(d, "verifying", Monsters)' <=> AtTarget(d, "verifying", Monsters)
    BY <1>4 DEF AtTarget, At, Target
  <2> QED
    BY <1>2, <1>4, <2>1, <2>2, <2>3
<1>5. ASSUME NEW c \in Commands, GoesOn(c) PROVE Covered(d)
  <2>1. /\ UNCHANGED <<march, snapshot>>
        /\ \A e \in Commands \ {c} : command'[e] = command[e]
        /\ command'[c].pc = "verifying" => command'[c] = command[c]
        /\ command'[c].before = command[c].before
    BY <1>5, GoesOnMeans
  <2>2. CASE command'[d] = command[d]
    BY <1>4, <2>1, <2>2
  <2>3. CASE d = c /\ command'[d].pc # "verifying"
    BY <1>2, <2>1, <2>3 DEF AtTarget, At
  <2> QED
    BY <2>1, <2>2, <2>3
<1>6. ASSUME NEW c \in Commands, NEW r, MakesRequest(c), Requests(c, r) PROVE Covered(d)
  <2>1. march' = march /\ \A e \in Commands \ {c} : command'[e] = command[e]
    BY <1>6, MakesRequestMeans
  <2>2. /\ r.target \in Targets /\ r.target = Target(c)
        /\ \/ r.target \in Monsters /\ snapshot' = {i \in Marches : OnMap(i)}
           \/ r.target \notin Monsters /\ snapshot' = snapshot
        /\ \A t \in Targets \ {r.target} : command'[c].sent[t] = command[c].sent[t]
        /\ command'[c].before = Len(march)
    BY <1>6 DEF Requests
  <2>3. CASE d # c
    BY <1>4, <2>1, <2>2, <2>3
  <2>4. CASE d = c
    <3>1. ASSUME command'[c].pc = "verifying" PROVE Head(command'[c].left) = r.target
      <4> DEFINE h == Head(command'[c].left)
      <4>1. command'[c] \in CommandType /\ InOrder(command'[c])
        BY <1>1 DEF AllFollow, Follows
      <4>2. command'[c].left # <<>> /\ command'[c].left \in Seq(Targets)
        BY <3>1, <4>1 DEF InOrder, CommandType
      <4>3. h \in Targets /\ h \in Range(command'[c].left)
        BY <4>2, FirstOfList
      <4>4. command'[c].sent[h] > 0 /\ command'[c].result[h] = "none"
        BY <3>1, <4>1, <4>3 DEF InOrder
      <4>5. command[c].result[h] = "none"
        BY <1>1, <4>3, <4>4 DEF AllFollow, Follows
      <4>6. command[c].sent[h] > 0 => h = Target(c)
        BY <4>3, <4>5 DEF AllInOrder, InOrder, Target
      <4> QED
        BY <2>2, <4>3, <4>4, <4>6
    <3>2. AtTarget(c, "verifying", Monsters)' => snapshot' = {i \in Marches : OnMap(i)}
      BY <2>2, <3>1 DEF AtTarget, At, Target
    <3>3. \A i : OnMap(i)' <=> OnMap(i)
      BY <2>1 DEF OnMap
    <3>4. command'[c].before <= Len(march') /\ 1..command'[c].before = Marches
      BY <1>2, <2>1, <2>2 DEF Marches
    <3> QED
      BY <2>4, <3>2, <3>3, <3>4
  <2> QED
    BY <2>3, <2>4
<1>7. CASE GameMoves
  <2>1. /\ UNCHANGED <<command, snapshot>>
        /\ Len(march) <= Len(march') /\ Len(march') \in Nat
        /\ \A i \in Marches : march[i].state = "home" => march'[i].state = "home"
    BY <1>7 DEF GameMoves
  <2>2. \A i \in 1..command[d].before : i \in Marches /\ (OnMap(i)' => OnMap(i))
    BY <1>2, <2>1 DEF Marches, OnMap
  <2>3. AtTarget(d, "verifying", Monsters)' <=> AtTarget(d, "verifying", Monsters)
    BY <2>1 DEF AtTarget, At, Target
  <2> QED
    BY <1>2, <2>1, <2>2, <2>3
<1>8. CASE UNCHANGED vars
  BY <1>4, <1>8, <1>2 DEF vars
<1> QED
  BY <1>5, <1>6, <1>7, <1>8, StepKinds

\* Counting: a set of commands that grows, and the requests there are.
LEMMA CommandsCounted ==
  ASSUME NEW A \in SUBSET Commands, NEW B \in SUBSET Commands, A \subseteq B
  PROVE  /\ Cardinality(A) \in Nat /\ Cardinality(B) \in Nat
         /\ Cardinality(A) <= Cardinality(B)
         /\ A # B => Cardinality(A) + 1 <= Cardinality(B)
<1>1. IsFiniteSet(A) /\ IsFiniteSet(B)
  BY MarchAssumption, FS_Subset
<1>2. /\ Cardinality(A) \in Nat /\ Cardinality(B) \in Nat
      /\ Cardinality(A) <= Cardinality(B)
      /\ Cardinality(A) = Cardinality(B) => A = B
  BY <1>1, FS_CardinalityType, FS_Subset
<1> QED
  BY <1>2

LEMMA RequestedFinite ==
  ASSUME TypeOK, NEW t \in Targets
  PROVE  IsFiniteSet(Requested(t)) /\ Cardinality(Requested(t)) \in Nat
<1> DEFINE f == [c \in Commands |-> {c} \X (1..command[c].sent[t])]
           parts == {{c} \X (1..command[c].sent[t]) : c \in Commands}
<1>1. f \in Surjection(Commands, parts)
  BY DEF Surjection
<1>2. IsFiniteSet(parts)
  <2> HIDE DEF f, parts
  <2> QED
    BY <1>1, MarchAssumption, FS_Surjection
<1>3. \A T \in parts : IsFiniteSet(T)
  <2> SUFFICES ASSUME NEW c \in Commands
               PROVE  IsFiniteSet({c} \X (1..command[c].sent[t]))
    OBVIOUS
  <2>1. PICK n \in Nat : n = command[c].sent[t]
    BY DEF TypeOK, CommandType
  <2>2. n \in Int /\ 1 \in Int
    BY <2>1
  <2>3. IsFiniteSet(1..n)
    BY <2>2, FS_Interval
  <2>4. IsFiniteSet({c})
    BY FS_Singleton
  <2>5. IsFiniteSet({c} \X (1..n))
    BY <2>3, <2>4, FS_Product
  <2> QED
    BY <2>1, <2>5
<1>4. Requested(t) = UNION parts
  BY DEF Requested
<1>5. IsFiniteSet(UNION parts)
  <2> HIDE DEF parts
  <2> QED
    BY <1>2, <1>3, FS_UNION
<1> QED
  BY <1>4, <1>5, FS_CardinalityType

\* One more request of one command is one more request.
LEMMA RequestedOnceMore ==
  ASSUME TypeOK, NEW c \in Commands, NEW r, MakesRequest(c), Requests(c, r), AllInOrder,
         NEW t \in Targets
  PROVE  /\ t # r.target => Requested(t)' = Requested(t)
         /\ t = r.target => Cardinality(Requested(t)') = Cardinality(Requested(t)) + 1
<1>1. \A d \in Commands \ {c} : command'[d] = command[d]
  BY MakesRequestMeans
<1>2. /\ command'[c].sent[r.target] = command[c].sent[r.target] + 1
      /\ \A u \in Targets \ {r.target} : command'[c].sent[u] = command[c].sent[u]
  BY DEF Requests
<1>3. CASE t # r.target
  <2>1. \A d \in Commands : command'[d].sent[t] = command[d].sent[t]
    BY <1>1, <1>2, <1>3
  <2>2. Requested(t)' = Requested(t)
    BY <2>1 DEF Requested
  <2> QED
    BY <1>3, <2>2
<1>4. CASE t = r.target
  <2>1. PICK n \in Nat : n = command[c].sent[t]
    BY DEF TypeOK, CommandType
  <2>2. command'[c].sent[t] = n + 1
    BY <1>2, <1>4, <2>1
  <2>3. 1..(n + 1) = (1..n) \cup {n + 1} /\ n + 1 \notin 1..n
    BY <2>1
  <2>4. \A d \in Commands \ {c} : command'[d].sent[t] = command[d].sent[t]
    BY <1>1
  <2>5. Requested(t)' = Requested(t) \cup {<<c, n + 1>>}
    <3>1. ASSUME NEW x PROVE x \in Requested(t)' <=> x \in Requested(t) \cup {<<c, n + 1>>}
      <4>1. x \in Requested(t)' <=> \E d \in Commands : x \in {d} \X (1..command'[d].sent[t])
        BY DEF Requested
      <4>2. x \in Requested(t) <=> \E d \in Commands : x \in {d} \X (1..command[d].sent[t])
        BY DEF Requested
      <4>3. x \in {c} \X (1..(n + 1)) <=> x \in {c} \X (1..n) \/ x = <<c, n + 1>>
        BY <2>3
      <4>4. x \in {c} \X (1..command'[c].sent[t])
              <=> x \in {c} \X (1..command[c].sent[t]) \/ x = <<c, n + 1>>
        BY <2>1, <2>2, <4>3
      <4>5. \A d \in Commands \ {c} : x \in {d} \X (1..command'[d].sent[t])
              <=> x \in {d} \X (1..command[d].sent[t])
        BY <2>4
      <4> QED
        BY <4>1, <4>2, <4>4, <4>5
    <3> QED
      BY <3>1
  <2>6. <<c, n + 1>> \notin Requested(t)
    <3>1. \A d \in Commands : <<c, n + 1>> \in {d} \X (1..command[d].sent[t])
            => d = c /\ n + 1 \in 1..n
      BY <2>1
    <3> QED
      BY <2>3, <3>1 DEF Requested
  <2>7. IsFiniteSet(Requested(t))
    BY RequestedFinite
  <2>8. Cardinality(Requested(t) \cup {<<c, n + 1>>}) = Cardinality(Requested(t)) + 1
    BY <2>6, <2>7, FS_AddElement
  <2> QED
    BY <1>4, <2>5, <2>8
<1> QED
  BY <1>3, <1>4

LEMMA BudgetStep ==
  ASSUME TypeOK, AllInOrder, Budget, [Next]_vars
  PROVE  Budget'
<1>1. AllFollow /\ TypeOK'
  BY NextFollows, TypingStep
<1> DEFINE Held(t) == IF CacheIsFor(t) THEN 1 ELSE 0
           Paid(t) == 2 * Cardinality(Requested(t)')
                        + (IF CacheIsFor(t)' THEN 1 ELSE 0)
                      <= Cardinality(PreparedBy(t)') + Cardinality(CommittedBy(t)') + faults'
<1>2. SUFFICES ASSUME NEW t \in Monsters PROVE Paid(t)
  BY DEF Budget
<1>3. t \in Targets
  BY TargetsApart
<1>4. /\ PreparedBy(t) \subseteq PreparedBy(t)' /\ CommittedBy(t) \subseteq CommittedBy(t)'
      /\ PreparedBy(t)' \subseteq Commands /\ CommittedBy(t)' \subseteq Commands
  BY <1>1, <1>3 DEF AllFollow, Follows, PreparedBy, CommittedBy
<1>5. PICK p, q, pp, qq \in Nat :
        /\ p = Cardinality(PreparedBy(t)) /\ pp = Cardinality(PreparedBy(t)')
        /\ q = Cardinality(CommittedBy(t)) /\ qq = Cardinality(CommittedBy(t)')
        /\ p <= pp /\ q <= qq
        /\ PreparedBy(t) # PreparedBy(t)' => p + 1 <= pp
        /\ CommittedBy(t) # CommittedBy(t)' => q + 1 <= qq
  BY <1>4, CommandsCounted
<1>6. PICK n \in Nat : n = Cardinality(Requested(t))
  BY <1>3, RequestedFinite
<1>7. faults \in Nat /\ faults' \in Nat /\ faults <= faults'
  BY <1>1, MarchAssumption DEF AllFollow, TypeOK
<1>8. 2 * n + Held(t) <= p + q + faults
  BY <1>5, <1>6 DEF Budget
<1>9. ASSUME Requested(t)' = Requested(t), CacheIsFor(t)' => CacheIsFor(t)
      PROVE  Paid(t)
  BY <1>5, <1>6, <1>7, <1>8, <1>9
<1>10. ASSUME NEW c \in Commands, GoesOn(c) PROVE Paid(t)
  <2>1. \A d \in Commands : command'[d].sent = command[d].sent
    BY <1>10, GoesOnMeans
  <2>2. Requested(t)' = Requested(t)
    BY <2>1 DEF Requested
  <2>3. CASE CacheIsFor(t)' => CacheIsFor(t)
    BY <1>9, <2>2, <2>3
  <2>4. CASE CacheIsFor(t)' /\ ~CacheIsFor(t)
    <3>1. /\ At(c, "preparing") /\ t = Target(c)
          /\ command'[c] = [command[c] EXCEPT !.pc = "committing"] \/ faults' = faults + 1
      BY <1>10, <2>4, GoesOnMeans DEF CacheIsFor
    <3>2. ASSUME command'[c] = [command[c] EXCEPT !.pc = "committing"]
          PROVE  p + 1 <= pp
      <4>1. /\ command[c] \in CommandType /\ InOrder(command[c])
            /\ command[c].pc = "preparing" /\ t = Head(command[c].left)
            /\ command[c].left # <<>> /\ command[c].left \in Seq(Targets)
        BY <3>1 DEF TypeOK, CommandType, AllInOrder, InOrder, At, Target
      <4>2. command[c].result[t] = "none"
        BY <1>3, <4>1, FirstOfList DEF InOrder
      <4>3. "committing" \in Stages
        BY DEF Stages
      <4>4. command'[c].pc = "committing" /\ command'[c].left = command[c].left
        BY <3>2, <4>1, <4>3, MoveFields
      <4>5. c \notin PreparedBy(t) /\ c \in PreparedBy(t)'
        BY <4>1, <4>2, <4>4 DEF PreparedBy, HasPrepared
      <4> QED
        BY <1>5, <4>5
    <3>3. p + q + faults + 1 <= pp + qq + faults'
      BY <1>5, <1>7, <3>1, <3>2
    <3> QED
      BY <1>5, <1>6, <1>7, <1>8, <2>2, <2>4, <3>3
  <2> QED
    BY <2>3, <2>4
<1>11. ASSUME NEW c \in Commands, NEW r, MakesRequest(c), Requests(c, r) PROVE Paid(t)
  <2>1. /\ r.target \in Monsters => CacheIsFor(r.target) /\ cache' = None
        /\ r.target \notin Monsters => UNCHANGED cache
        /\ \/ faults' = faults + 1
           \/ ~HasCommitted(command[c], r.target) /\ HasCommitted(command'[c], r.target)
    BY <1>11 DEF Requests
  <2>2. CASE t # r.target
    <3>1. Requested(t)' = Requested(t)
      BY <1>3, <1>11, <2>2, RequestedOnceMore
    <3>2. CacheIsFor(t)' => CacheIsFor(t)
      BY <2>1 DEF CacheIsFor
    <3> QED
      BY <1>9, <3>1, <3>2
  <2>3. CASE t = r.target
    <3>1. Cardinality(Requested(t)') = n + 1
      BY <1>3, <1>6, <1>11, <2>3, RequestedOnceMore
    <3>2. CacheIsFor(t) /\ ~CacheIsFor(t)'
      BY <2>1, <2>3 DEF CacheIsFor
    <3>3. faults' = faults + 1 \/ q + 1 <= qq
      <4>1. ASSUME ~HasCommitted(command[c], t), HasCommitted(command'[c], t)
            PROVE  q + 1 <= qq
        <5>1. c \notin CommittedBy(t) /\ c \in CommittedBy(t)'
          BY <4>1 DEF CommittedBy
        <5> QED
          BY <1>5, <5>1
      <4> QED
        BY <2>1, <2>3, <4>1
    <3>4. 2 * (n + 1) <= pp + qq + faults'
      BY <1>5, <1>7, <1>8, <3>2, <3>3
    <3> QED
      BY <1>5, <3>1, <3>2, <3>4
  <2> QED
    BY <2>2, <2>3
<1>12. CASE GameMoves \/ UNCHANGED vars
  <2>1. command' = command /\ cache' = cache
    BY <1>12 DEF GameMoves, vars
  <2> QED
    BY <1>9, <2>1 DEF Requested, CacheIsFor
<1> QED
  BY <1>10, <1>11, <1>12, StepKinds

-----------------------------------------------------------------------------
(* The invariant                                                            *)

LEMMA NewCommandInOrder ==
  ASSUME NEW q \in Seq(Targets), IsInjective(q)
  PROVE  /\ NewCommand(q) \in CommandType
         /\ InOrder(NewCommand(q)) /\ Repeats(NewCommand(q), 0)
         /\ NewCommand(q).pc = "none" /\ NewCommand(q).before = 0
         /\ \A t \in Targets :
              NewCommand(q).sent[t] = 0 /\ NewCommand(q).result[t] = "none"
<1> DEFINE results == [t \in Targets |-> "none"]
           sents == [t \in Targets |-> 0]
<1>1. /\ results \in [Targets -> {"none", "dispatched", "blocked", "error"}]
      /\ sents \in [Targets -> Nat]
      /\ \A t \in Targets : results[t] = "none" /\ sents[t] = 0
  OBVIOUS
<1>2. NewCommand(q) = [pc |-> "none", left |-> q, result |-> results,
                       sent |-> sents, before |-> 0]
  BY DEF NewCommand
<1> HIDE DEF results, sents
<1>3. "none" \in Stages /\ 0 \in 0..MaxMarches
  BY MarchAssumption DEF Stages
<1>4. /\ NewCommand(q) \in CommandType
      /\ NewCommand(q).pc = "none" /\ NewCommand(q).left = q
      /\ NewCommand(q).result = results /\ NewCommand(q).sent = sents
      /\ NewCommand(q).before = 0
  BY <1>1, <1>2, <1>3 DEF CommandType
<1>5. InOrder(NewCommand(q))
  BY <1>1, <1>4 DEF InOrder
<1>6. Repeats(NewCommand(q), 0)
  BY <1>1, <1>4 DEF Repeats
<1> QED
  BY <1>1, <1>4, <1>5, <1>6

LEMMA InitInv == Init => MarchInv
<1> SUFFICES ASSUME Init PROVE MarchInv
  OBVIOUS
<1>1. PICK lists \in Lists :
        /\ command = [c \in Commands |-> NewCommand(lists[c])]
        /\ quest = [t \in Targets |->
             IF \E c \in Commands : t \in Range(lists[c]) THEN "available" ELSE "missing"]
  BY DEF Init
<1>2. /\ march = <<>> /\ requests = <<>> /\ starting = {} /\ cache = None
      /\ snapshot = {} /\ faults = 0
  BY DEF Init
<1>3. \A c \in Commands : lists[c] \in Seq(Targets) /\ IsInjective(lists[c])
  BY MarchAssumption
<1>4. \A c \in Commands :
        /\ command[c] \in CommandType /\ InOrder(command[c]) /\ Repeats(command[c], 0)
        /\ command[c].pc = "none" /\ command[c].before = 0
        /\ \A t \in Targets : command[c].sent[t] = 0 /\ command[c].result[t] = "none"
  BY <1>1, <1>3, NewCommandInOrder
<1>5. \A c \in Commands :
        /\ command[c].pc = "none" /\ command[c].before = 0
        /\ \A t \in Targets : command[c].sent[t] = 0 /\ command[c].result[t] = "none"
  BY <1>4
<1>6. AllInOrder
  BY <1>2, <1>4 DEF AllInOrder
<1>7. TypeOK
  <2>1. quest \in [Targets -> {"available", "marching", "completed", "missing"}]
    BY <1>1
  <2>2. /\ march \in Seq([target : Targets, team : Teams \cup {None},
                          state : {"going", "returning", "home"}])
        /\ Len(march) = 0
        /\ requests \in Seq([target : Targets, team : Teams \cup {None}, by : Commands])
    BY <1>2
  <2>3. command \in [Commands -> CommandType]
    BY <1>1, <1>4
  <2>4. Len(march) <= MaxMarches /\ faults \in 0..MaxFaults
    BY <1>2, <2>2, MarchAssumption
  <2>5. \A c \in Commands : ~At(c, "none") /\ ~At(c, "over") => command[c].left # <<>>
    BY <1>5 DEF At
  <2>6. /\ starting \subseteq Heroes /\ snapshot \subseteq Marches
        /\ cache \in [target : Monsters, team : Teams] \cup {None}
    BY <1>2
  <2> QED
    BY <2>1, <2>2, <2>3, <2>4, <2>5, <2>6 DEF TypeOK
<1>8. \A t : ~CacheIsFor(t)
  BY <1>2 DEF CacheIsFor
<1>9. OnceAlone
  BY <1>5 DEF OnceAlone
<1>10. Budget
  <2> SUFFICES ASSUME NEW t \in Monsters
               PROVE  2 * Cardinality(Requested(t)) + (IF CacheIsFor(t) THEN 1 ELSE 0)
                        <= Cardinality(PreparedBy(t)) + Cardinality(CommittedBy(t)) + faults
    BY DEF Budget
  <2>1. t \in Targets
    BY TargetsApart
  <2>2. \A c \in Commands : {c} \X (1..command[c].sent[t]) = {}
    BY <1>5, <2>1
  <2>3. Requested(t) = {}
    BY <2>2 DEF Requested
  <2>4. /\ Cardinality(PreparedBy(t)) \in Nat /\ Cardinality(CommittedBy(t)) \in Nat
    BY CommandsCounted DEF PreparedBy, CommittedBy
  <2>5. 2 * Cardinality(Requested(t)) + (IF CacheIsFor(t) THEN 1 ELSE 0) = 0
    BY <1>8, <2>3, FS_EmptySet
  <2> QED
    BY <1>2, <2>4, <2>5
<1>11. Queued
  BY <1>2 DEF Queued
<1>12. Explained
  <2>1. \A t \in Targets : quest[t] \notin {"marching", "completed"}
    BY <1>1
  <2> QED
    BY <1>5, <2>1, TargetsApart DEF Explained
<1>13. SnapshotCovers
  BY <1>2, <1>5 DEF SnapshotCovers, AtTarget, At
<1> QED
  BY <1>6, <1>7, <1>9, <1>10, <1>11, <1>12, <1>13 DEF MarchInv, AllInOrder

LEMMA NextInv == MarchInv /\ [Next]_vars => MarchInv'
<1> SUFFICES ASSUME MarchInv, [Next]_vars PROVE MarchInv'
  OBVIOUS
<1>1. TypeOK /\ AllInOrder
  BY DEF MarchInv, AllInOrder
<1>2. AllInOrder'
  BY <1>1, NextFollows DEF AllFollow, Follows, AllInOrder
<1> QED
  BY <1>1, <1>2, TypingStep, OnceAloneStep, BudgetStep, QueuedStep, ExplainedStep,
     SnapshotStep
  DEF MarchInv, AllInOrder

\* The invariant behind the theorems below: what the place of each command in
\* its list tells of its requests, and that every request of a monster march
\* was paid for by a preparation and a commit, each counted once for its
\* command and once more for each fault.
THEOREM MarchInvariance == Spec => []MarchInv
BY InitInv, NextInv, PTL DEF Spec

-----------------------------------------------------------------------------
(* What it gives                                                            *)

\* Every variable has the type of what it stands for, and a command at work
\* always has a target: no script runs for the head of an empty list.
THEOREM MarchTypes == Spec => []TypeOK
<1>1. MarchInv => TypeOK
  BY DEF MarchInv
<1> QED
  BY <1>1, MarchInvariance, PTL

LEMMA PreparedAskFor ==
  ASSUME TypeOK, AllInOrder, NEW t \in Targets
  PROVE  /\ PreparedBy(t) \subseteq {c \in Commands : Asks(c, t)}
         /\ CommittedBy(t) \subseteq {c \in Commands : Asks(c, t)}
<1>1. \A c \in Commands : command[c].left # <<>> /\ t = Head(command[c].left) => Asks(c, t)
  BY AsksForTarget DEF Target
<1> QED
  BY <1>1 DEF PreparedBy, CommittedBy, HasPrepared, HasCommitted, Asks

\* However many commands, faults and other hands there are, a command alone
\* with its monster asks for its march at most once, and a request more than
\* there are commands takes two faults (_COMMIT_PREPARED_MARCH_BODY uses the
\* prepared march up); what was blocked was never asked for, and what was
\* dispatched was.
THEOREM RequestsCounted == Spec => []RequestsMatchResults
<1>1. ASSUME MarchInv PROVE RequestsMatchResults
  <2>1. TypeOK /\ AllInOrder /\ OnceAlone /\ Budget
    BY <1>1 DEF MarchInv, AllInOrder
  <2>2. ASSUME NEW t \in Monsters
        PROVE  2 * (Cardinality(Requested(t)) - Cardinality({c \in Commands : Asks(c, t)}))
                 <= faults
    <3> DEFINE Asking == {c \in Commands : Asks(c, t)}
    <3>1. t \in Targets
      BY TargetsApart
    <3>2. PreparedBy(t) \subseteq Asking /\ CommittedBy(t) \subseteq Asking
      BY <2>1, <3>1, PreparedAskFor
    <3>3. /\ PreparedBy(t) \in SUBSET Commands /\ CommittedBy(t) \in SUBSET Commands
          /\ Asking \in SUBSET Commands
      BY DEF PreparedBy, CommittedBy
    <3>4. PICK p, q, a \in Nat :
            /\ p = Cardinality(PreparedBy(t)) /\ q = Cardinality(CommittedBy(t))
            /\ a = Cardinality(Asking) /\ p <= a /\ q <= a
      <4> HIDE DEF Asking
      <4> QED
        BY <3>2, <3>3, CommandsCounted
    <3>5. PICK n \in Nat : n = Cardinality(Requested(t))
      BY <2>1, <3>1, RequestedFinite
    <3>6. faults \in Nat
      BY <2>1, MarchAssumption DEF TypeOK
    <3>7. 2 * n + (IF CacheIsFor(t) THEN 1 ELSE 0) <= p + q + faults
      BY <2>1, <3>4, <3>5 DEF Budget
    <3>8. 2 * (n - a) <= faults
      BY <3>4, <3>5, <3>6, <3>7
    <3> QED
      BY <3>4, <3>5, <3>8
  <2>3. ASSUME NEW t \in Targets, NEW c \in Commands
        PROVE  /\ Alone(c, t) /\ t \in Monsters => command[c].sent[t] <= 1
               /\ Alone(c, t) /\ command[c].result[t] = "blocked" => command[c].sent[t] = 0
               /\ command[c].result[t] = "dispatched" => command[c].sent[t] > 0
               /\ t \notin Monsters => command[c].sent[t] <= 1 + faults
    BY <2>1, <2>3 DEF OnceAlone, AllInOrder, InOrder, Repeats
  <2> QED
    BY <2>2, <2>3 DEF RequestsMatchResults
<1> QED
  BY <1>1, MarchInvariance, PTL

\* Two requests of a batch that wait at the server never name the same team,
\* unless the first was given up or its target marched on: a batch comes to
\* its next target only with a result for the one before.
THEOREM FormationsApart == Spec => []FormationsDiffer
<1>1. ASSUME MarchInv PROVE FormationsDiffer
  <2>1. TypeOK /\ OnceAlone /\ Queued /\ Explained
    BY <1>1 DEF MarchInv
  <2> SUFFICES ASSUME NEW i \in DOMAIN requests, NEW j \in DOMAIN requests, i < j,
                      requests[i].by = requests[j].by,
                      Alone(requests[i].by, requests[i].target),
                      requests[i].target # requests[j].target,
                      requests[i].team # None
               PROVE  \/ command[requests[i].by].result[requests[i].target] = "error"
                      \/ \E k \in Marches : march[k].target = requests[i].target
    BY DEF FormationsDiffer
  <2>2. PICK c, t : c = requests[i].by /\ t = requests[i].target
    OBVIOUS
  <2>3. requests[i] \in [target : Targets, team : Teams \cup {None}, by : Commands]
    <3>1. requests \in Seq([target : Targets, team : Teams \cup {None}, by : Commands])
      BY <2>1 DEF TypeOK
    <3> QED
      BY <3>1, SeqElements
  <2>4. c \in Commands /\ t \in Targets /\ Alone(c, t)
    BY <2>2, <2>3
  <2>5. command[c].sent[t] > 0 /\ t \in Monsters /\ command[c].result[t] # "none"
    BY <2>1, <2>2 DEF Queued
  <2>6. command[c].result[t] \in {"none", "dispatched", "blocked", "error"}
    BY <2>1, <2>4 DEF TypeOK, CommandType
  <2>7. command[c].result[t] # "blocked"
    BY <2>1, <2>4, <2>5 DEF OnceAlone
  <2>8. command[c].result[t] = "dispatched" => \E k \in Marches : march[k].target = t
    BY <2>1, <2>4, <2>5 DEF Explained
  <2> QED
    BY <2>2, <2>5, <2>6, <2>7, <2>8
<1> QED
  BY <1>1, MarchInvariance, PTL

\* A monster is reported as dispatched only on a march younger than the
\* request or on a quest that is on its way or over, though commands share the
\* snapshot and the player calls marches back (has_self_march).
THEOREM DispatchesAreTrue == Spec => DispatchedIsTrue
<1>1. ASSUME MarchInv, [Next]_vars,
             NEW c \in Commands, NEW t \in Monsters,
             command'[c].result[t] = "dispatched", command[c].result[t] = "none"
      PROVE  \/ \E i \in Marches : i > command[c].before /\ march[i].target = t
             \/ quest[t] \in {"marching", "completed"}
  <2>1. TypeOK /\ AllInOrder /\ SnapshotCovers /\ t \in Targets
    BY <1>1, TargetsApart DEF MarchInv, AllInOrder
  <2>2. ASSUME NEW d \in Commands, GoesOn(d)
        PROVE  command[c].pc = "verifying" /\ t = Target(c) /\ Accepted(t)
    <3>1. d = c
      BY <1>1, <2>1, <2>2, GoesOnMeans
    <3> QED
      BY <1>1, <2>1, <2>2, <3>1, GoesOnMeans
  <2>3. ASSUME NEW d \in Commands, NEW r, MakesRequest(d), Requests(d, r) PROVE FALSE
    <3>1. d = c
      BY <1>1, <2>1, <2>3, MakesRequestMeans
    <3> QED
      BY <1>1, <2>1, <2>3, <3>1 DEF Requests
  <2>4. GameMoves \/ UNCHANGED vars => command' = command
    BY DEF GameMoves, vars
  <2>5. AtTarget(c, "verifying", Monsters) /\ Accepted(t)
    BY <1>1, <2>1, <2>2, <2>3, <2>4, StepKinds DEF AtTarget, At
  <2>6. \A i \in Marches \ snapshot : OnMap(i) => i > command[c].before
    <3>1. command[c].before \in Nat
      BY <2>1, MarchAssumption DEF TypeOK, CommandType
    <3> QED
      BY <2>1, <2>5, <3>1 DEF SnapshotCovers, Marches
  <2> QED
    BY <2>5, <2>6 DEF Accepted, NewMarch
<1>2. MarchInv /\ [Next]_vars =>
        [\A c \in Commands, t \in Monsters :
           command'[c].result[t] = "dispatched" /\ command[c].result[t] = "none" =>
             \/ \E i \in Marches : i > command[c].before /\ march[i].target = t
             \/ quest[t] \in {"marching", "completed"}]_vars
  BY <1>1
<1> QED
  BY <1>2, MarchInvariance, PTL DEF Spec, DispatchedIsTrue

-----------------------------------------------------------------------------
(* Hero quests                                                              *)

\* _pveBattleStartMap names the hero quests that wait at the server, each of
\* which waits there once.
StartsTracked ==
  /\ starting = {requests[i].target : i \in {k \in DOMAIN requests :
                                               requests[k].target \in Heroes}}
  /\ \A i, j \in DOMAIN requests :
       i # j /\ requests[i].target \in Heroes => requests[i].target # requests[j].target

LEMMA StartsTrackedStep ==
  ASSUME TypeOK, AllInOrder, StartsTracked, [Next]_vars
  PROVE  StartsTracked'
<1>1. /\ Len(requests) \in Nat /\ DOMAIN requests = 1..Len(requests)
      /\ \A i \in 1..Len(requests) : requests[i].target \in Targets
      /\ requests \in Seq([target : Targets, team : Teams \cup {None}, by : Commands])
  <2>1. requests \in Seq([target : Targets, team : Teams \cup {None}, by : Commands])
    BY DEF TypeOK
  <2>2. \A i \in 1..Len(requests) :
          requests[i] \in [target : Targets, team : Teams \cup {None}, by : Commands]
    BY <2>1, SeqElements
  <2> QED
    BY <2>1, <2>2
<1>2. /\ \A h : h \in starting <=>
           h \in Heroes /\ \E i \in 1..Len(requests) : h = requests[i].target
      /\ \A i, j \in 1..Len(requests) :
           i # j /\ requests[i].target \in Heroes => requests[i].target # requests[j].target
  BY <1>1 DEF StartsTracked
<1>3. ASSUME NEW n \in Nat, DOMAIN requests' = 1..n,
             \A h : h \in starting' <=>
               h \in Heroes /\ \E i \in 1..n : h = requests'[i].target,
             \A i, j \in 1..n :
               i # j /\ requests'[i].target \in Heroes => requests'[i].target # requests'[j].target
      PROVE  StartsTracked'
  <2>1. starting' = {requests'[i].target : i \in {k \in DOMAIN requests' :
                                                    requests'[k].target \in Heroes}}
    BY <1>3
  <2> QED
    BY <1>3, <2>1 DEF StartsTracked
<1>4. CASE UNCHANGED <<requests, starting>>
  BY <1>4 DEF StartsTracked
<1>5. CASE requests # <<>> /\ requests' = Tail(requests)
           /\ starting' = starting \ {Head(requests).target}
  <2>1. /\ Len(requests) - 1 \in Nat /\ DOMAIN requests' = 1..(Len(requests) - 1)
        /\ \A i \in 1..(Len(requests) - 1) : requests'[i] = requests[i + 1]
        /\ Head(requests) = requests[1] /\ 1 \in 1..Len(requests)
    BY <1>1, <1>5
  <2>2. \A i, j \in 1..(Len(requests) - 1) :
          /\ i + 1 \in 1..Len(requests) /\ j + 1 \in 1..Len(requests)
          /\ i # j => i + 1 # j + 1
          /\ i + 1 # 1
    BY <1>1
  <2>3. \A i, j \in 1..(Len(requests) - 1) :
          i # j /\ requests'[i].target \in Heroes => requests'[i].target # requests'[j].target
    BY <1>2, <2>1, <2>2
  <2>4. ASSUME NEW h
        PROVE  h \in starting' <=>
                 h \in Heroes /\ \E i \in 1..(Len(requests) - 1) : h = requests'[i].target
    <3>1. ASSUME h \in starting'
          PROVE  h \in Heroes /\ \E i \in 1..(Len(requests) - 1) : h = requests'[i].target
      <4>1. h \in starting /\ h # requests[1].target
        BY <1>5, <2>1, <3>1
      <4>2. PICK k \in 1..Len(requests) : h = requests[k].target
        BY <1>2, <4>1
      <4>3. k # 1
        BY <4>1, <4>2
      <4>4. k - 1 \in 1..(Len(requests) - 1) /\ (k - 1) + 1 = k
        BY <1>1, <4>2, <4>3
      <4>5. requests'[k - 1] = requests[k]
        BY <2>1, <4>4
      <4> QED
        BY <1>2, <4>1, <4>2, <4>4, <4>5
    <3>2. ASSUME h \in Heroes, NEW i \in 1..(Len(requests) - 1), h = requests'[i].target
          PROVE  h \in starting'
      <4>1. i + 1 \in 1..Len(requests) /\ h = requests[i + 1].target /\ i + 1 # 1
        BY <2>1, <2>2, <3>2
      <4>2. h \in starting /\ h # requests[1].target
        BY <1>2, <2>1, <3>2, <4>1
      <4> QED
        BY <1>5, <2>1, <4>2
    <3> QED
      BY <3>1, <3>2
  <2> QED
    BY <1>3, <2>1, <2>3, <2>4
<1>6. ASSUME NEW c \in Commands, NEW r, MakesRequest(c), Requests(c, r)
      PROVE  StartsTracked'
  <2>1. /\ requests' = Append(requests, r)
        /\ r \in [target : Targets, team : Teams \cup {None}, by : Commands]
        /\ r.target \in Heroes => r.target \notin starting
        /\ starting' = starting \cup ({r.target} \cap Heroes)
    BY <1>6 DEF Requests
  <2>2. /\ Len(requests) + 1 \in Nat /\ DOMAIN requests' = 1..(Len(requests) + 1)
        /\ requests'[Len(requests) + 1] = r
        /\ \A i \in 1..Len(requests) : requests'[i] = requests[i]
    BY <1>1, <2>1
  <2>3. \A i \in 1..(Len(requests) + 1) : i \in 1..Len(requests) \/ i = Len(requests) + 1
    BY <1>1
  <2>4. 1..Len(requests) \subseteq 1..(Len(requests) + 1)
        /\ Len(requests) + 1 \in 1..(Len(requests) + 1)
    BY <1>1
  <2>5. \A i \in 1..Len(requests) : r.target \in Heroes => requests[i].target # r.target
    BY <1>2, <2>1
  <2>6. \A i, j \in 1..(Len(requests) + 1) :
          i # j /\ requests'[i].target \in Heroes => requests'[i].target # requests'[j].target
    BY <1>2, <2>2, <2>3, <2>5
  <2>7. \A h : h \in starting' <=>
          h \in Heroes /\ \E i \in 1..(Len(requests) + 1) : h = requests'[i].target
    <3> SUFFICES ASSUME NEW h
                 PROVE  h \in starting' <=>
                   h \in Heroes /\ \E i \in 1..(Len(requests) + 1) : h = requests'[i].target
      OBVIOUS
    <3>1. (\E i \in 1..(Len(requests) + 1) : h = requests'[i].target)
            <=> (\E i \in 1..Len(requests) : h = requests[i].target) \/ h = r.target
      BY <2>2, <2>3, <2>4
    <3>2. h \in starting' <=> h \in starting \/ (h = r.target /\ h \in Heroes)
      BY <2>1
    <3> QED
      BY <1>2, <3>1, <3>2
  <2> QED
    BY <1>3, <2>2, <2>6, <2>7
<1>7. ASSUME NEW c \in Commands, GoesOn(c) PROVE UNCHANGED <<requests, starting>>
  BY <1>7, GoesOnMeans
<1>8. GameMoves \/ UNCHANGED vars =>
        \/ UNCHANGED <<requests, starting>>
        \/ /\ requests # <<>> /\ requests' = Tail(requests)
           /\ starting' = starting \ {Head(requests).target}
  BY DEF GameMoves, vars
<1> QED
  BY <1>4, <1>5, <1>6, <1>7, <1>8, StepKinds

\* Of the commands and their repeated scripts together, the server never has
\* two requests for one hero quest to answer, and every hero quest that the
\* client takes for started has its request there, so that none is refused for
\* ever: the look at _pveBattleStartMap in _START_BATTLE_INTEL_BODY is enough.  Nothing like it
\* protects a rescue (_START_RESCUE_INTEL_BODY).
THEOREM HeroesAskedOnce == Spec => []StartsTracked
<1>1. Init => StartsTracked
  BY DEF Init, StartsTracked
<1>2. MarchInv /\ StartsTracked /\ [Next]_vars => StartsTracked'
  BY StartsTrackedStep DEF MarchInv, AllInOrder
<1> QED
  BY <1>1, <1>2, MarchInvariance, PTL DEF Spec

-----------------------------------------------------------------------------
(* The way of a command                                                     *)

Rank(pc) ==
  CASE pc = "none" -> 0 [] pc = "inspecting" -> 1 [] pc = "preparing" -> 2
    [] pc = "committing" -> 3 [] pc = "verifying" -> 4 [] OTHER -> 5

\* Fewer targets are left, or the present one is nearer to its result.
Nearer(cc, s) ==
  \/ Len(s.left) < Len(cc.left)
  \/ s.left = cc.left /\ Rank(cc.pc) < Rank(s.pc)

LEMMA MoveNearer ==
  ASSUME NEW cc \in CommandType, NEW stage \in Stages, Rank(cc.pc) < Rank(stage)
  PROVE  Nearer(cc, [cc EXCEPT !.pc = stage])
<1>1. /\ [cc EXCEPT !.pc = stage].pc = stage
      /\ [cc EXCEPT !.pc = stage].left = cc.left
  BY MoveFields
<1> QED
  BY <1>1 DEF Nearer

LEMMA ReportNearer ==
  ASSUME NEW cc \in CommandType, cc.left # <<>>,
         NEW res \in {"dispatched", "blocked", "error"}
  PROVE  Nearer(cc, Reports(cc, res))
<1>1. Reports(cc, res).left = Tail(cc.left) /\ cc.left \in Seq(Targets)
  BY ReportFields DEF CommandType
<1>2. Len(Tail(cc.left)) < Len(cc.left)
  BY <1>1
<1> QED
  BY <1>1, <1>2 DEF Nearer

LEMMA OnwardNearer ==
  ASSUME TypeOK, AllInOrder, NEW c \in Commands, NEW s, Onward(c, s)
  PROVE  s = command[c] \/ Nearer(command[c], s)
<1> DEFINE cc == command[c]
<1>1. cc \in CommandType /\ cc.pc \in Stages /\ cc.left \in Seq(Targets) /\ InOrder(cc)
  BY DEF TypeOK, AllInOrder, CommandType
<1>2. cc.left # <<>> => FirstStage(cc.left) \in {"preparing", "committing"}
  BY <1>1, FirstStageIs
<1>3. ASSUME NEW stage \in Stages, s = [cc EXCEPT !.pc = stage],
             Rank(cc.pc) < Rank(stage) \/ stage = cc.pc
      PROVE  s = cc \/ Nearer(cc, s)
  <2>1. stage = cc.pc => s = cc
    BY <1>1, <1>3 DEF CommandType
  <2> QED
    BY <1>1, <1>3, <2>1, MoveNearer
<1>4. ASSUME NEW res \in {"dispatched", "blocked", "error"}, s = Reports(cc, res),
             cc.pc \in {"preparing", "committing", "verifying"}
      PROVE  Nearer(cc, s)
  <2>1. cc.left # <<>>
    BY <1>1, <1>4 DEF InOrder
  <2> QED
    BY <1>1, <1>4, <2>1, ReportNearer
<1>5. \/ \E stage \in Stages :
           s = [cc EXCEPT !.pc = stage] /\ (Rank(cc.pc) < Rank(stage) \/ stage = cc.pc)
      \/ \E res \in {"dispatched", "blocked", "error"} :
           s = Reports(cc, res) /\ cc.pc \in {"preparing", "committing", "verifying"}
  BY <1>1, <1>2 DEF Onward, Rank, Stages
<1> QED
  BY <1>3, <1>4, <1>5

\* Whatever the other commands, the player and the server do, a step leaves a
\* command as it is, brings it nearer to its end, or is one of finitely many
\* faults that make it run a script again: what is left of CommandsEnd is that
\* its scripts return.
CommandsGoForward ==
  [][\A c \in Commands :
       \/ command'[c] = command[c]
       \/ Nearer(command[c], command'[c])
       \/ /\ faults' = faults + 1
          /\ command'[c].pc = command[c].pc /\ command'[c].left = command[c].left]_vars

\* Every step of a command brings it nearer to its end, or is one of the at
\* most MaxFaults faults after which it runs the same script again.
THEOREM CommandsOnlyGoForward == Spec => CommandsGoForward
<1>1. ASSUME MarchInv, [Next]_vars, NEW c \in Commands
      PROVE  \/ command'[c] = command[c]
             \/ Nearer(command[c], command'[c])
             \/ /\ faults' = faults + 1
                /\ command'[c].pc = command[c].pc /\ command'[c].left = command[c].left
  <2>1. TypeOK /\ AllInOrder
    BY <1>1 DEF MarchInv, AllInOrder
  <2>2. command \in [Commands -> CommandType]
    BY <2>1 DEF TypeOK
  <2>3. ASSUME NEW s, NEW n, Becomes(c, s, n) PROVE command'[c] = s /\ faults' = n
    BY <2>2, <2>3 DEF Becomes
  <2>4. CASE GoesOn(c)
    <3>1. PICK s : \/ Onward(c, s) /\ (Becomes(c, s, faults) \/ Becomes(c, s, faults + 1))
                   \/ s = command[c] /\ Becomes(c, s, faults + 1)
      BY <2>4 DEF GoesOn
    <3>2. Onward(c, s) => s = command[c] \/ Nearer(command[c], s)
      BY <2>1, OnwardNearer
    <3> QED
      BY <2>3, <3>1, <3>2
  <2>5. CASE MakesRequest(c)
    <3>1. PICK r, s : /\ r.target = Target(c) /\ r.target \in Targets
                      /\ \/ Asked(c, r, s) /\ Becomes(c, s, faults)
                         \/ s = Sends(command[c], r) /\ Becomes(c, s, faults + 1)
      BY <2>5 DEF MakesRequest
    <3>2. /\ command[c] \in CommandType /\ command[c].pc = "committing"
          /\ command[c].left # <<>> /\ Len(march) \in 0..MaxMarches
      BY <2>1, <2>2, <2>5 DEF MakesRequest, At, AllInOrder, InOrder, TypeOK
    <3> DEFINE sent == Sends(command[c], r)
    <3>3. sent \in CommandType /\ sent.pc = "committing" /\ sent.left = command[c].left
      BY <3>1, <3>2, SendFields
    <3> HIDE DEF sent
    <3>4. \A z : Nearer(sent, z) => Nearer(command[c], z)
      BY <3>2, <3>3 DEF Nearer
    <3>5. Asked(c, r, s) => Nearer(command[c], s)
      <4>1. "verifying" \in Stages /\ Rank(sent.pc) < Rank("verifying")
        BY <3>3 DEF Stages, Rank
      <4>2. Nearer(sent, [sent EXCEPT !.pc = "verifying"])
        BY <3>3, <4>1, MoveNearer
      <4>3. \A res \in {"dispatched", "blocked", "error"} : Nearer(sent, Reports(sent, res))
        BY <3>2, <3>3, ReportNearer
      <4> QED
        BY <3>4, <4>2, <4>3 DEF Asked, sent
    <3> QED
      BY <2>3, <3>1, <3>2, <3>3, <3>5 DEF sent
  <2>6. ASSUME NEW d \in Commands \ {c}, GoesOn(d) \/ MakesRequest(d)
        PROVE  command'[c] = command[c]
    BY <2>1, <2>6, GoesOnMeans, MakesRequestMeans
  <2>7. GameMoves \/ UNCHANGED vars => command' = command
    BY DEF GameMoves, vars
  <2> QED
    BY <1>1, <2>1, <2>4, <2>5, <2>6, <2>7, NextKinds
<1>2. MarchInv /\ [Next]_vars =>
        [\A c \in Commands :
           \/ command'[c] = command[c]
           \/ Nearer(command[c], command'[c])
           \/ /\ faults' = faults + 1
              /\ command'[c].pc = command[c].pc /\ command'[c].left = command[c].left]_vars
  BY <1>1
<1> QED
  BY <1>2, MarchInvariance, PTL DEF Spec, CommandsGoForward
=============================================================================
