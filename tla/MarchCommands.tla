---------------------------- MODULE MarchCommands ----------------------------
(***************************************************************************)
(* The commands that start intelligence quests, step by step: march-intel, *)
(* battle-intel and batch-intel, each a CLI process that runs one Lua      *)
(* script after the other in the game.  Between two scripts the server     *)
(* answers, the player plays, and another command may run its own scripts, *)
(* which use the same globals of the game's Lua state.                     *)
(*                                                                         *)
(* IntelCommands makes one step of each of these commands; this module is  *)
(* what happens inside that step.                                          *)
(***************************************************************************)
EXTENDS Integers, Sequences, FiniteSets, Functions

CONSTANTS
  Monsters, Heroes, Rescues,   \* the quests, by the category of each
  Teams,         \* the captains with soldiers a march can be formed of
  Commands,      \* the command processes
  Batches,       \* those of them that are batch-intel
  Lists,         \* the target lists the commands of a run may be given
  None,
  MaxMarches,    \* the most marches of a run
  MaxFaults      \* the most faults of bridge, game and processes in a run

Targets == Monsters \cup Heroes \cup Rescues

ASSUME MarchAssumption ==
  /\ Monsters \cap Heroes = {} /\ Monsters \cap Rescues = {}
  /\ Heroes \cap Rescues = {} /\ Targets # {}
  /\ None \notin Teams
  /\ IsFiniteSet(Commands) /\ Batches \subseteq Commands
  /\ \A lists \in Lists, c \in Commands :
       /\ lists[c] \in Seq(Targets) /\ IsInjective(lists[c])
       /\ c \notin Batches => Len(lists[c]) <= 1
  /\ MaxMarches \in Nat /\ MaxFaults \in Nat

VARIABLES
  quest,      \* every quest as the game's client has it
  march,      \* the role's marches in the order they were made
  requests,   \* what the server has been sent and has not answered
  starting,   \* _pveBattleStartMap: battles the client has begun
  cache,      \* __MUMU_AUTOTASK_DIRECT_MARCH: the prepared march
  snapshot,   \* __MUMU_AUTOTASK_SELF_MARCH_IDS: the marches before a request
  command,    \* the command processes
  faults      \* bridge faults, failed scripts and ended processes so far

vars == <<quest, march, requests, starting, cache, snapshot, command, faults>>
server == <<quest, march, requests, starting>>

Marches == 1..Len(march)
OnMap(i) == march[i].state # "home"
Underway(t) == \E i \in Marches : march[i].target = t /\ march[i].state = "going"

\* What the formation helpers offer: teams not in a march the client shows.
FreeTeams == {team \in Teams : \A i \in Marches : OnMap(i) => march[i].team # team}

-----------------------------------------------------------------------------
(* The commands *)

Stages == {"none", "inspecting", "preparing", "committing", "verifying", "over"}

\* sent counts the requests of the command, before the marches there were
\* when it last made one: both are what the properties look back to.
NewCommand(list) ==
  [pc |-> "none", left |-> list,
   result |-> [t \in Targets |-> "none"],
   sent |-> [t \in Targets |-> 0], before |-> 0]

Target(c) == Head(command[c].left)
At(c, stage) == command[c].pc = stage
AtTarget(c, stage, kind) == At(c, stage) /\ Target(c) \in kind

\* A mutant of FirstStage: the end of the list is not looked for.
FirstStage_NoEnd(left) ==
  IF left # <<>> /\ Head(left) \in Monsters THEN "preparing" ELSE "committing"

FirstStage(left) ==
  IF left = <<>> THEN "over"
  ELSE IF Head(left) \in Monsters THEN "preparing" ELSE "committing"

Goes(c, stage) == [command[c] EXCEPT !.pc = stage]

\* A target has its result; a batch goes on with the next one.
Reports(cc, res) ==
  LET t == Head(cc.left)
  IN  [cc EXCEPT !.result[t] = res, !.left = Tail(@),
                 !.pc = FirstStage(Tail(cc.left))]

Sends(cc, request) ==
  [cc EXCEPT !.sent[request.target] = @ + 1, !.before = Len(march)]

\* _execute_lua_when_idle: the receipt arrives, or the bridge reports a
\* transient fault after the script ran and the script is run again.
Answers(c, after) ==
  \/ /\ command' = [command EXCEPT ![c] = after]
     /\ UNCHANGED faults
  \/ /\ faults < MaxFaults
     /\ faults' = faults + 1
     /\ command' = [command EXCEPT ![c] =
          [@ EXCEPT !.sent = after.sent, !.before = after.before]]

\* A batch with the full data of its targets starts with the first of them.
Begins(c) ==
  /\ At(c, "none") /\ command[c].left # <<>>
  /\ \E stage \in {"inspecting"} \cup
       (IF c \in Batches THEN {FirstStage(command[c].left)} ELSE {}) :
         command' = [command EXCEPT ![c] = Goes(c, stage)]
  /\ UNCHANGED <<server, cache, snapshot, faults>>

\* The selection fails for the whole command when one target is not listed.
Inspects(c) ==
  /\ At(c, "inspecting")
  /\ Answers(c, IF \A t \in Range(command[c].left) : quest[t] = "available"
                THEN Goes(c, FirstStage(command[c].left))
                ELSE Goes(c, "over"))
  /\ UNCHANGED <<server, cache, snapshot>>

\* A script fails before it has any effect: another role, a lost session, a
\* restarted game, a bridge fault that lasts.  A batch records the error and
\* goes on, unless it was inspecting.
ScriptFails(c) ==
  /\ ~At(c, "none") /\ ~At(c, "over") /\ faults < MaxFaults
  /\ command' = [command EXCEPT ![c] =
       IF At(c, "inspecting") THEN Goes(c, "over") ELSE Reports(@, "error")]
  /\ faults' = faults + 1
  /\ UNCHANGED <<server, cache, snapshot>>

\* The process is stopped: a closed window, a deadline of CliRunner.
Killed(c) ==
  /\ ~At(c, "none") /\ ~At(c, "over") /\ faults < MaxFaults
  /\ command' = [command EXCEPT ![c] = Goes(c, "over")]
  /\ faults' = faults + 1
  /\ UNCHANGED <<server, cache, snapshot>>

-----------------------------------------------------------------------------
(* Monsters: prepare, commit, verify *)

\* The stamina may do or not.
Prepares(c) ==
  /\ AtTarget(c, "preparing", Monsters)
  /\ quest[Target(c)] = "available"
  /\ \/ \E team \in FreeTeams :
          /\ cache' = [target |-> Target(c), team |-> team]
          /\ Answers(c, Goes(c, "committing"))
     \/ /\ FreeTeams # {}
        /\ cache' = None
        /\ Answers(c, Reports(command[c], "blocked"))
  /\ UNCHANGED <<server, snapshot>>

\* No such quest any more, no idle queue, no captain, no soldiers.
PrepareRefused(c) ==
  /\ AtTarget(c, "preparing", Monsters)
  /\ cache' = None
  /\ Answers(c, Reports(command[c], "error"))
  /\ UNCHANGED <<server, snapshot>>

CacheIsFor(t) == cache # None /\ cache.target = t

MayCommit(t) == CacheIsFor(t) /\ quest[t] = "available"

\* A mutant of Commits: the prepared march stays prepared.
Commits_KeepsCache(c) ==
  /\ AtTarget(c, "committing", Monsters)
  /\ MayCommit(Target(c)) /\ FreeTeams # {} /\ ~Underway(Target(c))
  /\ LET request == [target |-> Target(c), team |-> cache.team, by |-> c]
     IN  /\ snapshot' = {i \in Marches : OnMap(i)}
         /\ requests' = Append(requests, request)
         /\ UNCHANGED cache
         /\ \/ Answers(c, Sends(Goes(c, "verifying"), request))
            \/ Answers(c, Reports(Sends(command[c], request), "error"))
  /\ UNCHANGED <<quest, march, starting>>

\* A mutant of Commits: the next target is prepared without waiting.
Commits_DoesNotWait(c) ==
  /\ AtTarget(c, "committing", Monsters)
  /\ MayCommit(Target(c)) /\ FreeTeams # {} /\ ~Underway(Target(c))
  /\ LET request == [target |-> Target(c), team |-> cache.team, by |-> c]
     IN  /\ snapshot' = {i \in Marches : OnMap(i)}
         /\ requests' = Append(requests, request)
         /\ cache' = None
         /\ Answers(c, Reports(Sends(command[c], request), "dispatched"))
  /\ UNCHANGED <<quest, march, starting>>

\* The request is made; the call that makes it may still raise.
Commits(c) ==
  /\ AtTarget(c, "committing", Monsters)
  /\ MayCommit(Target(c)) /\ FreeTeams # {} /\ ~Underway(Target(c))
  /\ LET request == [target |-> Target(c), team |-> cache.team, by |-> c]
     IN  /\ snapshot' = {i \in Marches : OnMap(i)}
         /\ requests' = Append(requests, request)
         /\ cache' = None
         /\ \/ Answers(c, Sends(Goes(c, "verifying"), request))
            \/ Answers(c, Reports(Sends(command[c], request), "error"))
  /\ UNCHANGED <<quest, march, starting>>

CommitHeld(c) ==
  /\ AtTarget(c, "committing", Monsters)
  /\ MayCommit(Target(c))
  /\ cache' = None
  /\ Answers(c, Reports(command[c], "blocked"))
  /\ UNCHANGED <<server, snapshot>>

\* Nothing is prepared, or for another target, or the quest is not to be had,
\* which alone leaves the prepared march where it is; or no queue is idle, or
\* the target is already marched on.
CommitRefused(c) ==
  /\ AtTarget(c, "committing", Monsters)
  /\ \/ /\ ~CacheIsFor(Target(c)) \/ FreeTeams = {} \/ Underway(Target(c))
        /\ cache' = None
     \/ /\ CacheIsFor(Target(c)) /\ quest[Target(c)] # "available"
        /\ UNCHANGED cache
  /\ Answers(c, Reports(command[c], "error"))
  /\ UNCHANGED <<server, snapshot>>

\* A mutant of NewMarch: any march on the target will do.
NewMarch_AnyMarch(t) == \E i \in Marches : OnMap(i) /\ march[i].target = t

\* has_self_march: a march on the target that the snapshot does not hold.
NewMarch(t) == \E i \in Marches \ snapshot : OnMap(i) /\ march[i].target = t

Accepted(t) == NewMarch(t) \/ quest[t] \in {"marching", "completed"}

Verifies(c) ==
  /\ AtTarget(c, "verifying", Monsters)
  /\ Accepted(Target(c))
  /\ Answers(c, Reports(command[c], "dispatched"))
  /\ UNCHANGED <<server, cache, snapshot>>

\* A mutant of VerifyTimesOut: only a march that is gone ends the polls.
VerifyTimesOut_Gone(c) ==
  /\ AtTarget(c, "verifying", Monsters)
  /\ quest[Target(c)] = "missing"
  /\ command' = [command EXCEPT ![c] = Reports(@, "error")]
  /\ UNCHANGED <<server, cache, snapshot, faults>>

\* The deadline is looked at after a poll that proved nothing.
VerifyTimesOut(c) ==
  /\ AtTarget(c, "verifying", Monsters)
  /\ ~Accepted(Target(c))
  /\ command' = [command EXCEPT ![c] = Reports(@, "error")]
  /\ UNCHANGED <<server, cache, snapshot, faults>>

-----------------------------------------------------------------------------
(* Hero and rescue quests: a request at once.  A batch reports it as sent,  *)
(* battle-intel waits until the quest is over.  As in Commits, the call     *)
(* that made the request may still raise.                                   *)

AfterRequest(c, request) ==
  IF c \in Batches THEN Reports(Sends(command[c], request), "dispatched")
                      ELSE Sends(Goes(c, "verifying"), request)

StartsBattle(c) ==
  /\ AtTarget(c, "committing", Heroes)
  /\ quest[Target(c)] = "available" /\ Target(c) \notin starting
  /\ LET request == [target |-> Target(c), team |-> None, by |-> c]
     IN  /\ starting' = starting \cup {Target(c)}
         /\ requests' = Append(requests, request)
         /\ \/ Answers(c, AfterRequest(c, request))
            \/ Answers(c, Reports(Sends(command[c], request), "error"))
  /\ UNCHANGED <<quest, march, cache, snapshot>>

StartsRescue(c) ==
  /\ AtTarget(c, "committing", Rescues)
  /\ quest[Target(c)] = "available"
  /\ LET request == [target |-> Target(c), team |-> None, by |-> c]
     IN  /\ requests' = Append(requests, request)
         /\ \/ Answers(c, AfterRequest(c, request))
            \/ Answers(c, Reports(Sends(command[c], request), "error"))
  /\ UNCHANGED <<quest, march, starting, cache, snapshot>>

BattleRefused(c) ==
  /\ AtTarget(c, "committing", Heroes \cup Rescues)
  /\ quest[Target(c)] # "available" \/ Target(c) \in starting
  /\ Answers(c, Reports(command[c], "error"))
  /\ UNCHANGED <<server, cache, snapshot>>

BattleOver(t) == quest[t] \in {"completed", "missing"}

VerifiesBattle(c) ==
  /\ AtTarget(c, "verifying", Heroes \cup Rescues)
  /\ BattleOver(Target(c))
  /\ Answers(c, Reports(command[c], "dispatched"))
  /\ UNCHANGED <<server, cache, snapshot>>

BattleTimesOut(c) ==
  /\ AtTarget(c, "verifying", Heroes \cup Rescues)
  /\ ~BattleOver(Target(c))
  /\ command' = [command EXCEPT ![c] = Reports(@, "error")]
  /\ UNCHANGED <<server, cache, snapshot, faults>>

-----------------------------------------------------------------------------
(* The server, the marches and the player's own hands *)

SetsOut(t, team) ==
  /\ Len(march) < MaxMarches
  /\ march' = Append(march, [target |-> t, team |-> team, state |-> "going"])
  /\ quest' = [quest EXCEPT ![t] = "marching"]

\* The server answers in the order it was asked.
Grants ==
  /\ requests # <<>>
  /\ LET r == Head(requests)
     IN  /\ quest[r.target] = "available"
         /\ r.team = None \/ r.team \in FreeTeams
         /\ IF r.target \in Heroes
            THEN quest' = [quest EXCEPT ![r.target] = "completed"]
                 /\ UNCHANGED march
            ELSE SetsOut(r.target, r.team)
         /\ starting' = starting \ {r.target}
  /\ requests' = Tail(requests)

Refuses ==
  /\ requests # <<>>
  /\ starting' = starting \ {Head(requests).target}
  /\ requests' = Tail(requests)
  /\ UNCHANGED <<quest, march>>

PlayerMarches ==
  /\ \E t \in Monsters, team \in FreeTeams :
       quest[t] = "available" /\ SetsOut(t, team)
  /\ UNCHANGED <<requests, starting>>

PlayerRecalls(i) ==
  /\ march[i].state = "going"
  /\ march' = [march EXCEPT ![i].state = "returning"]
  /\ quest' = [quest EXCEPT ![march[i].target] = "available"]
  /\ UNCHANGED <<requests, starting>>

Arrives(i) ==
  /\ march[i].state = "going"
  /\ march' = [march EXCEPT ![i].state = "returning"]
  /\ quest' = [quest EXCEPT ![march[i].target] = "completed"]
  /\ UNCHANGED <<requests, starting>>

ComesHome(i) ==
  /\ march[i].state = "returning"
  /\ march' = [march EXCEPT ![i].state = "home"]
  /\ UNCHANGED <<quest, requests, starting>>

QuestDisappears(t) ==
  /\ quest[t] \in {"available", "completed"}
  /\ quest' = [quest EXCEPT ![t] = "missing"]
  /\ UNCHANGED <<march, requests, starting>>

GameStep ==
  /\ \/ Grants \/ Refuses \/ PlayerMarches
     \/ \E i \in Marches : PlayerRecalls(i) \/ Arrives(i) \/ ComesHome(i)
     \/ \E t \in Targets : QuestDisappears(t)
  /\ UNCHANGED <<cache, snapshot, command, faults>>

-----------------------------------------------------------------------------

Init ==
  /\ \E lists \in Lists :
       /\ command = [c \in Commands |-> NewCommand(lists[c])]
       /\ quest = [t \in Targets |->
            IF \E c \in Commands : t \in Range(lists[c]) THEN "available" ELSE "missing"]
  /\ march = <<>>
  /\ requests = <<>>
  /\ starting = {}
  /\ cache = None
  /\ snapshot = {}
  /\ faults = 0

MonsterStep(c) ==
  \/ Prepares(c) \/ PrepareRefused(c)
  \/ Commits(c) \/ CommitHeld(c) \/ CommitRefused(c)
  \/ Verifies(c) \/ VerifyTimesOut(c)

BattleStep(c) ==
  \/ StartsBattle(c) \/ StartsRescue(c) \/ BattleRefused(c)
  \/ VerifiesBattle(c) \/ BattleTimesOut(c)

Works(c) == Inspects(c) \/ MonsterStep(c) \/ BattleStep(c)

Next ==
  \/ \E c \in Commands : Begins(c) \/ Works(c) \/ ScriptFails(c) \/ Killed(c)
  \/ GameStep

Spec == Init /\ [][Next]_vars

\* A script returns, and every verification has its deadline.
FairSpec == Spec /\ \A c \in Commands : WF_vars(Works(c))

-----------------------------------------------------------------------------
(* Properties *)

CommandType ==
  [pc : Stages, left : Seq(Targets),
   result : [Targets -> {"none", "dispatched", "blocked", "error"}],
   sent : [Targets -> Nat], before : 0..MaxMarches]

\* Every variable has the type of what it stands for; a command has a target
\* exactly while it is at work.
TypeOK ==
  /\ quest \in [Targets -> {"available", "marching", "completed", "missing"}]
  /\ march \in Seq([target : Targets, team : Teams \cup {None},
                    state : {"going", "returning", "home"}])
  /\ Len(march) <= MaxMarches
  /\ requests \in Seq([target : Targets, team : Teams \cup {None}, by : Commands])
  /\ starting \subseteq Heroes
  /\ cache \in [target : Monsters, team : Teams] \cup {None}
  /\ snapshot \subseteq Marches
  /\ command \in [Commands -> CommandType]
  /\ faults \in 0..MaxFaults
  /\ \A c \in Commands :
       ~At(c, "none") /\ ~At(c, "over") => command[c].left # <<>>

Asks(c, t) == t \in Range(command[c].left) \/ command[c].result[t] # "none"

Alone(c, t) == \A d \in Commands \ {c} : ~Asks(d, t)

\* The requests for a quest, numbered for each command that made them.
Requested(t) == UNION {{c} \X (1..command[c].sent[t]) : c \in Commands}

\* A command that is alone with its target asks for a monster march once,
\* though a fault makes it run the commit again: the prepared march is used up
\* (_COMMIT_PREPARED_MARCH_BODY).  A march that another command prepares for
\* the same target meanwhile may be sent in its place: two faults, one that
\* repeats a preparation and one that repeats a commit, make one request more
\* than there are commands, and nothing else does.  A hero or rescue quest is
\* asked for again only after a fault.  What was blocked was not asked for,
\* and what was dispatched was.
RequestsMatchResults ==
  \A t \in Targets :
    /\ t \in Monsters =>
         2 * (Cardinality(Requested(t)) - Cardinality({c \in Commands : Asks(c, t)}))
           <= faults
    /\ \A c \in Commands :
         LET cc == command[c]
         IN  /\ Alone(c, t) /\ t \in Monsters => cc.sent[t] <= 1
             /\ Alone(c, t) /\ cc.result[t] = "blocked" => cc.sent[t] = 0
             /\ cc.result[t] = "dispatched" => cc.sent[t] > 0
             /\ t \notin Monsters => cc.sent[t] <= 1 + faults

\* A monster is reported as dispatched only when the role has a march on it
\* that is younger than the request, or its quest is on its way or over: a
\* march that was called back and is still on the map is not taken for it,
\* even when two commands share the snapshot (has_self_march).
DispatchedIsTrue ==
  [][\A c \in Commands, t \in Monsters :
       command'[c].result[t] = "dispatched" /\ command[c].result[t] = "none" =>
         \/ \E i \in Marches : i > command[c].before /\ march[i].target = t
         \/ quest[t] \in {"marching", "completed"}]_vars

\* Two requests of a command that the server has still to answer never name
\* the same team, unless the first was given up as an error or another hand
\* marched on its target: a batch prepares the next march only after this one
\* is visible (cli.py: "a rapid batch can reuse the same stale availability
\* snapshot").
FormationsDiffer ==
  \A i, j \in DOMAIN requests :
    LET r == requests[i]
        s == requests[j]
    IN  i < j /\ r.by = s.by /\ Alone(r.by, r.target) /\ r.target # s.target /\ r.team = s.team
          => \/ r.team = None
             \/ command[r.by].result[r.target] = "error"
             \/ \E k \in Marches : march[k].target = r.target

\* A command that began ends, though the server may never answer it and the
\* player may do what he likes.
CommandsEnd == \A c \in Commands : ~At(c, "none") ~> At(c, "over")

=============================================================================
