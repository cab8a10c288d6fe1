------------------------------- MODULE YetiLoop -------------------------------
(***************************************************************************)
(* The loop that summons a yeti, starts a rally against it and waits until *)
(* it is gone, and the tab of the manager window that starts and stops it. *)
(*                                                                         *)
(* A session of the loop is one CLI process.  It reads the status of the   *)
(* game, and what it reads chooses the next command: none, a rally or a    *)
(* summons.  Each command is the Lua of one frame.  Between two commands   *)
(* the game answers requests, the player plays, and another session, which *)
(* was told to stop, may still be running.                                 *)
(*                                                                         *)
(* Stamina, march queues and formations are left out: a rally that they    *)
(* forbid is CommitBlocked.  A Lua state that is lost before a command has *)
(* run is found again by run_lua and changes nothing here.                 *)
(***************************************************************************)
EXTENDS Integers, Sequences, FiniteSets

CONSTANTS
  Yetis,          \* identity and place of a summoned yeti
  None,
  MaxSessions,    \* how often the user starts the loop, to bound runs
  MaxItems,       \* summoning items of the role
  MaxRequests,    \* requests of one kind on their way, to bound runs
  MaxFaults       \* bridge faults after the Lua of a request has run

ASSUME YetiAssumption ==
  /\ None \notin Yetis
  /\ {MaxSessions, MaxItems, MaxRequests} \subseteq Nat \ {0}
  /\ MaxFaults \in Nat

VARIABLES
  boss,       \* the yeti the game shows as summoned, or None
  rallies,    \* rallies of the role against yetis
  items,      \* summoning items the server knows of
  summoned,   \* summons on their way to the server
  requests,   \* rally requests on their way to the server
  faults,     \* commands that ran and whose answer was lost
  orderly,    \* the server grants what it can, polls and answers miss nothing
  unread,     \* if orderly, sessions that have not read the game since it changed
  session,    \* every session of the loop
  last,       \* the last start
  running     \* yeti_running

answers == <<items, summoned, requests>>
game    == <<boss, rallies, items, summoned, requests, faults, orderly>>
window  == <<last, running>>
vars    == <<boss, rallies, items, summoned, requests, faults, orderly,
             unread, session, last, running>>

Sessions == 1..MaxSessions

Phases == {"startup", "spawning", "target_locked", "waiting_departure",
           "waiting_clear"}

\* The variables of _execute_yeti_rally_loop; pc is the command that comes
\* next.  summons and rallied record what was sent since the last round ended.
NewSession ==
  [pc |-> "none", phase |-> "startup", locked |-> None, spawnSent |-> FALSE,
   attempted |-> FALSE, confirmed |-> FALSE, stop |-> FALSE,
   summons |-> 0, rallied |-> 0]

At(s, pc) == session[s].pc = pc
Alive(s)  == session[s].pc \in {"status", "commit", "spawn"}
Live      == {s \in Sessions : Alive(s)}

\* What the game shows changes; orderly, not before every session has read it.
Changes ==
  /\ unread = {}
  /\ unread' = IF orderly THEN Live ELSE {}

Exits(s) ==
  /\ session' = [session EXCEPT ![s] = [NewSession EXCEPT !.pc = "over"]]
  /\ unread' = unread \ {s}

-----------------------------------------------------------------------------
(* The game and the player.                                                *)

SummonsAnswered ==
  /\ summoned > 0
  /\ summoned' = summoned - 1
  /\ \/ /\ boss = None /\ items > 0
        /\ Changes
        /\ boss' \in Yetis
        /\ items' = items - 1
     \/ /\ orderly => boss # None \/ items = 0
        /\ UNCHANGED <<boss, items, unread>>
  /\ UNCHANGED <<rallies, requests, faults, orderly, session, window>>

RallyAnswered ==
  /\ requests # <<>>
  /\ requests' = Tail(requests)
  /\ \/ /\ Head(requests).to = boss
        /\ Changes
        /\ rallies' = rallies + 1
     \/ /\ orderly => Head(requests).to # boss
        /\ UNCHANGED <<rallies, unread>>
  /\ UNCHANGED <<boss, items, summoned, faults, orderly, session, window>>

\* A yeti that is beaten is gone, one that is not stays.
RallyEnds ==
  /\ rallies > 0
  /\ Changes
  /\ rallies' = rallies - 1
  /\ boss' \in {boss, None}
  /\ UNCHANGED <<answers, faults, orderly, session, window>>

BossLeaves ==
  /\ boss # None
  /\ Changes
  /\ boss' = None
  /\ UNCHANGED <<rallies, answers, faults, orderly, session, window>>

PlayerSummons ==
  /\ boss = None
  /\ items > 0
  /\ Changes
  /\ boss' \in Yetis
  /\ items' = items - 1
  /\ UNCHANGED <<rallies, summoned, requests, faults, orderly, session, window>>

PlayerRallies ==
  /\ boss # None
  /\ rallies = 0
  /\ Changes
  /\ rallies' = 1
  /\ UNCHANGED <<boss, answers, faults, orderly, session, window>>

-----------------------------------------------------------------------------
(* A session reads the status.                                             *)

\* A target that is read first is locked before anything else is decided.
Seen(s) ==
  IF boss # None /\ session[s].locked = None
  THEN [session[s] EXCEPT !.locked = boss, !.spawnSent = FALSE,
                          !.attempted = FALSE]
  ELSE session[s]

\* The loop goes on with what it knows after a reading.
Reads(s, after) ==
  /\ At(s, "status")
  /\ ~session[s].stop
  /\ boss \in {None, Seen(s).locked}
  /\ session' = [session EXCEPT ![s] = after]
  /\ unread' = unread \ {s}
  /\ UNCHANGED <<game, window>>

\* YetiTargetChanged
TargetChanged(s) ==
  /\ At(s, "status")
  /\ ~session[s].stop
  /\ boss \notin {None, Seen(s).locked}
  /\ Exits(s)
  /\ UNCHANGED <<game, window>>

Clear(s) == session[s].confirmed /\ rallies = 0 /\ boss = None

\* The round is over, and the next begins.
Completed(s) ==
  /\ session[s].phase = "waiting_clear"
  /\ Clear(s)
  /\ Reads(s, [NewSession EXCEPT !.pc = "status"])

StillWaits(s) ==
  /\ \/ session[s].phase = "waiting_clear" /\ ~Clear(s)
     \/ session[s].phase = "waiting_departure" /\ rallies = 0
  /\ Reads(s, Seen(s))

\* A mutant of RallySeen: a rally that was waited for is not looked for.
RallySeen_OnlyAdopted(s) ==
  /\ session[s].phase \notin {"waiting_clear", "waiting_departure"}
  /\ rallies > 0
  /\ Reads(s, [Seen(s) EXCEPT !.phase = "waiting_clear", !.confirmed = TRUE])

\* A mutant of RallySeen: rally_confirmed is not set.
RallySeen_Unconfirmed(s) ==
  /\ session[s].phase # "waiting_clear"
  /\ rallies > 0
  /\ Reads(s, [Seen(s) EXCEPT !.phase = "waiting_clear"])

\* "departed" when it was waited for, "adopted" otherwise.
RallySeen(s) ==
  /\ session[s].phase # "waiting_clear"
  /\ rallies > 0
  /\ Reads(s, [Seen(s) EXCEPT !.phase = "waiting_clear", !.confirmed = TRUE])

Undecided(s) ==
  /\ session[s].phase \notin {"waiting_clear", "waiting_departure"}
  /\ rallies = 0

ChoosesRally(s) ==
  /\ Undecided(s)
  /\ boss # None
  /\ Reads(s, IF Seen(s).attempted
              THEN [Seen(s) EXCEPT !.phase = "waiting_departure"]
              ELSE [Seen(s) EXCEPT !.phase = "target_locked", !.pc = "commit"])

\* locked_target_temporarily_missing
TargetMissing(s) ==
  /\ Undecided(s)
  /\ boss = None
  /\ session[s].locked # None
  /\ Reads(s, [session[s] EXCEPT !.phase = "target_locked"])

ChoosesSummons(s) ==
  /\ Undecided(s)
  /\ boss = None
  /\ session[s].locked = None
  /\ Reads(s, [session[s] EXCEPT !.phase = "spawning",
                                 !.pc = IF session[s].spawnSent
                                        THEN "status" ELSE "spawn"])

ReadStatus(s) ==
  \/ TargetChanged(s) \/ Completed(s) \/ StillWaits(s) \/ RallySeen(s)
  \/ ChoosesRally(s) \/ TargetMissing(s) \/ ChoosesSummons(s)

-----------------------------------------------------------------------------
(* A session sends a rally or a summons.                                   *)

Fault == ~orderly /\ faults < MaxFaults /\ faults' = faults + 1

\* A mutant of Dispatched: the loop may submit again.
Dispatched_Forgets(y) == [y EXCEPT !.pc = "status"]

\* A mutant of Dispatched: another name of the phase.
Dispatched_Misnamed(y) ==
  [y EXCEPT !.pc = "status", !.phase = "departing", !.attempted = TRUE]

Dispatched(y) ==
  [y EXCEPT !.pc = "status", !.phase = "waiting_departure", !.attempted = TRUE]

\* A mutant of Commit: a receipt for another target is taken as its own.
Commit_AnyTarget(s) ==
  LET sent == [session[s] EXCEPT !.rallied = @ + 1]
  IN  /\ At(s, "commit")
      /\ boss # None
      /\ rallies = 0
      /\ Len(requests) < MaxRequests
      /\ requests' = Append(requests, [to |-> boss, by |-> s])
      /\ \/ /\ session' = [session EXCEPT ![s] = Dispatched(sent)]
            /\ UNCHANGED <<faults, unread>>
         \/ Fault /\ session' = [session EXCEPT ![s] = sent] /\ UNCHANGED unread
      /\ UNCHANGED <<boss, rallies, items, summoned, orderly, window>>

\* The Lua takes the target that is there now; the receipt names it, and a
\* receipt for another target ends the loop (YetiCommitTargetChanged).
Commit(s) ==
  LET sent == [session[s] EXCEPT !.rallied = @ + 1]
  IN  /\ At(s, "commit")
      /\ boss # None
      /\ rallies = 0
      /\ Len(requests) < MaxRequests
      /\ requests' = Append(requests, [to |-> boss, by |-> s])
      /\ \/ /\ boss = session[s].locked
            /\ session' = [session EXCEPT ![s] = Dispatched(sent)]
            /\ UNCHANGED <<faults, unread>>
         \/ boss # session[s].locked /\ Exits(s) /\ UNCHANGED faults
         \/ Fault /\ session' = [session EXCEPT ![s] = sent] /\ UNCHANGED unread
      /\ UNCHANGED <<boss, rallies, items, summoned, orderly, window>>

\* A rally, a full march queue or too little stamina: asked again later.
CommitBlocked(s) ==
  /\ At(s, "commit")
  /\ boss = session[s].locked
  /\ session' = [session EXCEPT ![s].pc = "status"]
  /\ UNCHANGED <<game, unread, window>>

\* Nothing was sent and the receipt names no target, or another one.
CommitTargetChanged(s) ==
  /\ At(s, "commit")
  /\ boss # session[s].locked
  /\ Exits(s)
  /\ UNCHANGED <<game, window>>

\* The Lua asks the item count of the client, which a summons that is not
\* answered has not changed.
SpawnSent(s) ==
  LET sent == [session[s] EXCEPT !.summons = @ + 1]
  IN  /\ At(s, "spawn")
      /\ boss = None /\ rallies = 0 /\ items > 0
      /\ summoned < MaxRequests
      /\ summoned' = summoned + 1
      /\ \/ /\ session' = [session EXCEPT
                   ![s] = [sent EXCEPT !.pc = "status", !.spawnSent = TRUE]]
            /\ UNCHANGED faults
         \/ Fault /\ session' = [session EXCEPT ![s] = sent]
      /\ UNCHANGED <<boss, rallies, items, requests, orderly, unread, window>>

\* TARGET_ALREADY_PREPARED or YETI_RALLY_ACTIVE: marked as sent all the same.
SpawnRefused(s) ==
  /\ At(s, "spawn")
  /\ boss # None \/ rallies > 0
  /\ session' = [session EXCEPT ![s].pc = "status", ![s].spawnSent = TRUE]
  /\ UNCHANGED <<game, unread, window>>

\* INSUFFICIENT_SUMMON_ITEM and NO_LEVEL5_SHIELD end the loop.
NothingToSend(s) ==
  /\ \/ At(s, "spawn") /\ boss = None /\ rallies = 0 /\ items = 0
     \/ At(s, "commit") /\ boss = session[s].locked /\ rallies = 0
  /\ Exits(s)
  /\ UNCHANGED <<game, window>>

\* A Lua error, a lost device, or a process that dies.
CliFails(s) ==
  /\ Alive(s)
  /\ Exits(s)
  /\ UNCHANGED <<game, window>>

\* The loop looks at stop_requested; cancel_serial kills it after five seconds.
Stopped(s) ==
  /\ session[s].stop
  /\ Alive(s)
  /\ Exits(s)
  /\ UNCHANGED <<game, window>>

-----------------------------------------------------------------------------
(* The window.                                                             *)

\* The thread launches the process at once.  That a stop before the launch is
\* told to nobody is the subject of WorldLoop, whose launch is the same code.
StartYeti ==
  /\ ~running
  /\ last < MaxSessions
  /\ last' = last + 1
  /\ running' = TRUE
  /\ session' = [session EXCEPT ![last'].pc = "status"]
  /\ unread' = IF orderly THEN unread \union {last'} ELSE {}
  /\ UNCHANGED game

StopYeti ==
  /\ running
  /\ running' = FALSE
  /\ session' = [s \in Sessions |-> [session[s] EXCEPT !.stop = @ \/ Alive(s)]]
  /\ UNCHANGED <<game, unread, last>>

\* The "stopped" or "error" event of the loop, or the end of its thread; for
\* an earlier generation it changes nothing.
YetiLoopFinished(s) ==
  /\ At(s, "over")
  /\ session' = [session EXCEPT ![s].pc = "drained"]
  /\ running' = (running /\ s # last)
  /\ UNCHANGED <<game, unread, last>>

-----------------------------------------------------------------------------
Init ==
  /\ boss \in Yetis \union {None}
  /\ rallies = 0
  /\ items = MaxItems
  /\ summoned = 0
  /\ requests = <<>>
  /\ faults = 0
  /\ orderly \in BOOLEAN
  /\ unread = {}
  /\ session = [s \in Sessions |-> NewSession]
  /\ last = 0
  /\ running = FALSE

GameStep ==
  \/ SummonsAnswered \/ RallyAnswered \/ RallyEnds \/ BossLeaves
  \/ PlayerSummons \/ PlayerRallies

SendStep(s) ==
  \/ Commit(s) \/ CommitBlocked(s) \/ CommitTargetChanged(s)
  \/ SpawnSent(s) \/ SpawnRefused(s) \/ NothingToSend(s)

Next ==
  \/ GameStep
  \/ StartYeti
  \/ StopYeti
  \/ \E s \in Sessions :
        ReadStatus(s) \/ SendStep(s) \/ CliFails(s) \/ Stopped(s)
          \/ YetiLoopFinished(s)

Spec == Init /\ [][Next]_vars

\* The server answers, rallies end, a yeti does not stay for ever; the process
\* goes on, and marches, stamina and formation do not forbid a rally for ever.
\* Nothing is assumed of the player.  The game's steps are strongly fair because
\* an orderly one waits for the polls.
Fairness ==
  /\ SF_vars(SummonsAnswered)
  /\ SF_vars(RallyAnswered)
  /\ SF_vars(RallyEnds)
  /\ SF_vars(BossLeaves)
  /\ \A s \in Sessions :
        /\ WF_vars(ReadStatus(s))
        /\ WF_vars(SendStep(s))
        /\ SF_vars(Commit(s))
        /\ WF_vars(Stopped(s))
        /\ WF_vars(YetiLoopFinished(s))

FairSpec == Spec /\ Fairness

-----------------------------------------------------------------------------
(* Properties.                                                             *)

SessionType ==
  [pc : {"none", "status", "commit", "spawn", "over", "drained"},
   phase : Phases, locked : Yetis \union {None}, spawnSent : BOOLEAN,
   attempted : BOOLEAN, confirmed : BOOLEAN, stop : BOOLEAN,
   summons : Nat, rallied : Nat]

\* Every variable has the type of what it stands for in the code.
TypeOK ==
  /\ boss \in Yetis \union {None}
  /\ rallies \in Nat
  /\ items \in 0..MaxItems
  /\ summoned \in 0..MaxRequests
  /\ requests \in Seq([to : Yetis, by : Sessions])
  /\ faults \in 0..MaxFaults
  /\ orderly \in BOOLEAN
  /\ unread \subseteq Live
  /\ session \in [Sessions -> SessionType]
  /\ last \in 0..MaxSessions
  /\ running \in BOOLEAN

\* In a round, which ends when a rally was seen and it and the yeti are gone, a
\* session pays for one summons and sends one rally (phase, spawn_request_sent
\* and dispatch_attempted of cli.py 3997-4048); only a request whose answer the
\* bridge lost is sent twice.
OncePerRound ==
  \A s \in Sessions :
    /\ session[s].summons <= 1 + faults
    /\ session[s].rallied <= 1 + faults

\* A loop that still runs sent the last rally of its round to the target it has
\* locked: a rally that went to another yeti, summoned between the status and
\* the commit, has ended the loop (cli.py 3950-3968).
RalliesGoToTheLock ==
  \A s \in Live :
    LET mine == {i \in DOMAIN requests : requests[i].by = s}
    IN  session[s].rallied > 0 /\ faults = 0
          => \A i \in mine :
               \/ requests[i].to = session[s].locked
               \/ \E j \in mine : j > i

InPhase(phases) ==
  last # 0 /\ Alive(last) /\ session[last].phase \in phases

\* The target the last loop has locked is not there, or another one is.
LostItsTarget == session[last].locked \notin {None, boss}

\* A loop that waits for its rally to be created sees it, or the yeti is gone,
\* if the server grants the request and polls are fast enough (cli.py 3928).
DepartureIsSeen ==
  orderly /\ InPhase({"waiting_departure"})
    ~> ~InPhase({"waiting_departure"}) \/ LostItsTarget

\* A loop that summons or has locked a target gets to its rally, unless the
\* yeti went away by itself, also when the summons was refused (cli.py 4041);
\* and a rally that was seen is over some day and another round begins.
RoundsGoOn ==
  /\ orderly /\ InPhase({"spawning", "target_locked"})
       ~> ~InPhase({"spawning", "target_locked"}) \/ LostItsTarget
  /\ orderly /\ InPhase({"waiting_clear"}) ~> ~InPhase({"waiting_clear"})

=============================================================================
