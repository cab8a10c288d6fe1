------------------------------ MODULE WorldLoop ------------------------------
(***************************************************************************)
(* The loop that keeps the march slots of a role filled with attacks on    *)
(* world monsters, and the manager window that follows it.                 *)
(*                                                                         *)
(* A session of the loop is one CLI process.  It searches a monster,       *)
(* commits a march to it, verifies that the server created the march, and  *)
(* polls the marches it tracks.  The game answers the search and the march *)
(* request later, and what the Lua of one request leaves for the next is   *)
(* kept in globals of the game that all sessions share.  Events reach the  *)
(* window through the output of the process and a queue.  The window may   *)
(* stop a session and start the next one before the first has ended.       *)
(***************************************************************************)
EXTENDS Integers, Sequences, FiniteSets

CONSTANTS
  Monsters,       \* monsters a search may find
  None,
  Slots,          \* the most marches of the role on the road
  MaxMarches,     \* marches the server creates, to bound runs
  MaxSessions,    \* how often the user starts the loop, to bound runs
  MaxRequests,    \* searches, and marches, requested and not yet answered
  MaxFaults       \* Lua states replaced, and bridge faults after the Lua has
                  \* run, to bound runs

ASSUME WorldAssumption ==
  /\ None \notin Monsters
  /\ {Slots, MaxSessions, MaxRequests} \subseteq Nat \ {0}
  /\ {MaxMarches, MaxFaults} \subseteq Nat

VARIABLES
  march,      \* the marches in order of creation: own, home, or its monster
  requests,   \* march requests on their way to the server
  searches,   \* how many searches the game has not answered yet
  search,     \* the global __MUMU_AUTOTASK_WORLD_MONSTER_SEARCH
  known,      \* the global __MUMU_AUTOTASK_WORLD_MONSTER_MARCHES
  faults,     \* how often the Lua state was replaced, or a command run again
  session,    \* every session of the loop
  events,     \* world_event_queue of every start, and the output before it
  last,       \* the last start
  running,    \* world_hunt_running
  seen        \* world_seen_march_ids

game   == <<march, requests, searches, search, known, faults>>
window == <<last, running, seen>>
vars   == <<march, requests, searches, search, known, faults,
            session, events, last, running, seen>>

Sessions == 1..MaxSessions
Marches  == 1..MaxMarches

\* What a search leaves: whether its callback is registered, the monster it
\* was answered with, and the marches on the road when a march to it was
\* requested.
NewSearch == [listens |-> TRUE, at |-> None, before |-> {}, requested |-> FALSE]

\* active, count and aim are active, current_march_count and the result of
\* the search it works on, stop is stop_requested, and out the queue its events
\* are put in.  Three fields are history: sent, the marches verified while the
\* window showed it; missed, the window left this start before it had a
\* process; and shared, the process of a missed start took its queue.
NoSession == [pc |-> "none", stop |-> FALSE, active |-> {}, count |-> 0,
              aim |-> None, sent |-> {}, out |-> 1,
              missed |-> FALSE, shared |-> FALSE]

Places == {"none", "submitted", "starting", "filling", "searching", "found",
           "verifying", "over", "drained"}

-----------------------------------------------------------------------------
(* Reading the state *)

OnRoad == {m \in DOMAIN march : march[m] # "home"}

At(s, places) == session[s].pc \in places

\* The process runs and CliRunner has it in _processes.
Alive(s) == At(s, {"starting", "filling", "searching", "found", "verifying"})

\* What current_march_count is taken to be after a commit.
Occupied(s) ==
  LET tracked == Cardinality(session[s].active)
      counted == Cardinality(OnRoad)
  IN  IF tracked > counted THEN tracked ELSE counted

\* The callback of the last search is registered, or has been used up.
Listening == search # None /\ search.listens
Prepared  == search # None /\ ~search.listens

\* The generation a callback of session s carries is still the window's.
Current(s) == running /\ s = last

Goes(s, place) == session' = [session EXCEPT ![s].pc = place]

\* The process is gone, with all it knew.
Exits(s) == session' = [session EXCEPT ![s] =
              [NoSession EXCEPT !.pc = "over", !.sent = session[s].sent,
                                !.shared = session[s].shared]]

\* The queue of a start that was stopped is read by nobody.
Emit(s, event) ==
  events' = IF running /\ session[s].out = last
            THEN [events EXCEPT ![last] = Append(@, event)]
            ELSE events

Dispatch(m) == [event |-> "dispatch", march |-> m]
Failure     == [event |-> "error", march |-> 0]

\* blocked and error end a drain: stop_world_hunt changes the generation.
Ends(q) == {i \in DOMAIN q : q[i] = Failure}

Drained(q) == IF Ends(q) = {} THEN DOMAIN q
              ELSE {i \in DOMAIN q : \A j \in Ends(q) : i <= j}

Dispatches(q) ==
  {m \in Marches : \E i \in Drained(q) : q[i] = Dispatch(m)}

-----------------------------------------------------------------------------
(* The game, its server and the player *)

GameAnswersSearch ==
  /\ searches > 0
  /\ searches' = searches - 1
  /\ IF Listening
     THEN \E monster \in Monsters : search' = [search EXCEPT !.at = monster]
     ELSE UNCHANGED search
  /\ UNCHANGED <<march, requests, known, faults, session, events,
                 window>>

MayCreate == Cardinality(OnRoad) < Slots /\ Len(march) < MaxMarches

\* The march is created, or is not: the monster is gone, or the slot.
ServerAnswersRequest ==
  /\ requests # <<>>
  /\ requests' = Tail(requests)
  /\ \/ march' = march
     \/ MayCreate /\ march' = Append(march, Head(requests))
  /\ UNCHANGED <<searches, search, known, faults, session, events,
                 window>>

PlayerMarches ==
  /\ MayCreate
  /\ march' = Append(march, "own")
  /\ UNCHANGED <<requests, searches, search, known, faults, session,
                 events, window>>

MarchReturns(m) ==
  /\ m \in OnRoad
  /\ march' = [march EXCEPT ![m] = "home"]
  /\ UNCHANGED <<requests, searches, search, known, faults, session,
                 events, window>>

Fault == faults < MaxFaults /\ faults' = faults + 1

\* Globals and listeners are lost with the Lua state they were made in.
LuaReloads ==
  /\ Fault
  /\ search' = None
  /\ known' = {}
  /\ searches' = 0
  /\ UNCHANGED <<march, requests, session, events, window>>

-----------------------------------------------------------------------------
(* A session: the thread of the window and its CLI process.  The searches   *)
(* and the march request take effect in the game when their Lua has run; a   *)
(* bridge fault after that makes _execute_lua_when_idle run it again.        *)

\* The thread evaluates self.world_event_queue when it calls the backend: it is
\* that of a later start, if the user stopped this one and began another.
StartProcess(s) ==
  /\ At(s, {"submitted"})
  /\ session' = [session EXCEPT ![s].pc = "starting", ![s].out = last,
                                ![last].shared = @ \/ s # last]
  /\ UNCHANGED <<game, events, window>>

RefreshCapacity(s) ==
  /\ \/ At(s, {"starting"})
     \/ /\ At(s, {"filling"})
        /\ session[s].count >= Slots
        /\ session[s].active = {}
  /\ session' = [session EXCEPT ![s].pc = "filling",
                                ![s].count = Cardinality(OnRoad)]
  /\ UNCHANGED <<game, events, window>>

\* It takes the callback of the search before it out of the game.
SearchSent(s) ==
  /\ At(s, {"filling"})
  /\ session[s].count < Slots
  /\ searches < MaxRequests
  /\ search' = NewSearch
  /\ searches' = searches + 1
  /\ \/ Goes(s, "searching") /\ UNCHANGED faults
     \/ Fault /\ UNCHANGED session
  /\ UNCHANGED <<march, requests, known, events, window>>

SearchResult(s) ==
  /\ At(s, {"searching"})
  /\ search # None
  /\ search.at # None
  /\ search' = [search EXCEPT !.listens = FALSE]
  /\ session' = [session EXCEPT ![s].pc = "found", ![s].aim = search.at]
  /\ UNCHANGED <<march, requests, searches, known, faults, events,
                 window>>

\* recover_lua_state binds the new Lua state and the search is sent again.
SearchRecovers(s) ==
  /\ At(s, {"searching"})
  /\ \/ search = None /\ UNCHANGED faults
     \/ Fault
  /\ Goes(s, "filling")
  /\ UNCHANGED <<march, requests, searches, search, known, events,
                 window>>

\* A mutant of RecordsRequest: the marches before it are not recorded.
RecordsRequest_Marks == search' = [search EXCEPT !.requested = TRUE]

RecordsRequest ==
  search' = [search EXCEPT !.before = OnRoad, !.requested = TRUE]

\* A request is sent to what the global holds; the receipt of a search that
\* is not this session's is refused.
Commit(s) ==
  /\ At(s, {"found"})
  /\ Prepared
  /\ Cardinality(OnRoad) < Slots
  /\ Len(requests) < MaxRequests
  /\ RecordsRequest
  /\ requests' = Append(requests, search.at)
  /\ \/ /\ search.at = session[s].aim
        /\ session' = [session EXCEPT ![s].pc = "verifying",
                                      ![s].count = Occupied(s)]
        /\ UNCHANGED <<events, faults>>
     \/ /\ search.at # session[s].aim
        /\ Exits(s)
        /\ Emit(s, Failure)
        /\ UNCHANGED faults
     \/ Fault /\ UNCHANGED <<session, events>>
  /\ UNCHANGED <<march, searches, known, window>>

\* NO_IDLE_MARCH_QUEUE: the loop waits for a march to return.
CommitBlocked(s) ==
  /\ At(s, {"found"})
  /\ Prepared
  /\ Cardinality(OnRoad) >= Slots
  /\ search.at = session[s].aim
  /\ session' = [session EXCEPT ![s].pc = "filling", ![s].aim = None,
                                ![s].count = Occupied(s)]
  /\ UNCHANGED <<game, events, window>>

\* The marches that were not on the road before and go to the monster.
Created == {m \in OnRoad \ search.before : march[m] = search.at}

Lower(a, b) == IF a < b THEN a ELSE b

Registers(marches) == known' = known \union marches

\* A second match, a search that is not this session's and a march tracked
\* already are errors.
Verify(s) ==
  /\ At(s, {"verifying"})
  /\ search # None
  /\ search.requested
  /\ Cardinality(Created) = 1
  /\ Registers(Created)
  /\ IF search.at = session[s].aim /\ Created \cap session[s].active = {}
     THEN /\ session' = [session EXCEPT
                ![s].pc = "filling",
                ![s].aim = None,
                ![s].active = @ \union Created,
                ![s].sent = IF Current(s) THEN @ \union Created ELSE @,
                ![s].count = Lower(Slots, @ + 1)]
          /\ \E m \in Created : Emit(s, Dispatch(m))
     ELSE Exits(s) /\ Emit(s, Failure)
  /\ UNCHANGED <<march, requests, searches, search, faults, window>>

\* A mutant of AppliesStatus: the count is left to the next commit.
AppliesStatus_KeepsCount(s) ==
  session' = [session EXCEPT ![s].active = @ \cap OnRoad]

AppliesStatus(s) ==
  session' = [session EXCEPT ![s].active = @ \cap OnRoad,
                             ![s].count = Cardinality(OnRoad)]

\* A march that is not on the road and not known is UNKNOWN: an error.
PollStatus(s) ==
  /\ At(s, {"filling"})
  /\ session[s].count >= Slots
  /\ session[s].active # {}
  /\ known' = known \union (session[s].active \cap OnRoad)
  /\ IF session[s].active \subseteq known'
     THEN AppliesStatus(s) /\ UNCHANGED events
     ELSE Exits(s) /\ Emit(s, Failure)
  /\ UNCHANGED <<march, requests, searches, search, faults, window>>

CliStep(s) ==
  \/ RefreshCapacity(s) \/ SearchSent(s) \/ SearchResult(s)
  \/ SearchRecovers(s) \/ Commit(s) \/ CommitBlocked(s) \/ Verify(s)
  \/ PollStatus(s)

\* Too little stamina, a locked level, a lost device or Lua state, a Lua
\* error, no march before the deadline, or a process that dies.
CliFails(s) ==
  /\ \/ At(s, {"submitted"}) /\ UNCHANGED events
     \/ Alive(s) /\ (Emit(s, Failure) \/ UNCHANGED events)
  /\ Exits(s)
  /\ UNCHANGED <<game, window>>

\* What the session waits for cannot come: the deadline or Lua ends it.
CliTimesOut(s) ==
  /\ \/ At(s, {"found"}) /\ ~Prepared
     \/ At(s, {"found"}) /\ search.at # session[s].aim
     \/ At(s, {"verifying"})
  /\ CliFails(s)

\* check_stop, or the process is killed five seconds after the request.
Stopped(s) ==
  /\ session[s].stop
  /\ Alive(s)
  /\ Exits(s)
  /\ UNCHANGED <<game, events, window>>

-----------------------------------------------------------------------------
(* The window.  close() and a switch of the role stop the loop as the user   *)
(* does; a window opened again starts it as this one does.                   *)

\* A mutant of StartWorldHunt: world_seen_march_ids is kept.
StartWorldHunt_KeepsSeen ==
  /\ ~running
  /\ last < MaxSessions
  /\ last' = last + 1
  /\ running' = TRUE
  /\ session' = [session EXCEPT ![last'].pc = "submitted"]
  /\ UNCHANGED <<game, events, seen>>

StartWorldHunt ==
  /\ ~running
  /\ last < MaxSessions
  /\ last' = last + 1
  /\ running' = TRUE
  /\ seen' = {}
  /\ session' = [session EXCEPT ![last'].pc = "submitted"]
  /\ UNCHANGED <<game, events>>

\* The start the window shows, as it is left.  A thread that has no process yet
\* goes on, and starts it.
Left == [session[last] EXCEPT !.missed = At(last, {"submitted"}), !.sent = {}]

\* A mutant of StopWorldHunt: world_operation_inflight is cleared before it is
\* asked whether there is a process to cancel.
StopWorldHunt_ClearsFirst ==
  /\ running
  /\ running' = FALSE
  /\ session' = [session EXCEPT ![last] = Left]
  /\ events' = [events EXCEPT ![last] = <<>>]
  /\ UNCHANGED <<game, last, seen>>

\* cancel_serial asks every process of the device to stop, those of earlier
\* sessions too.
StopWorldHunt ==
  /\ running
  /\ running' = FALSE
  /\ session' = [s \in Sessions |->
                   [(IF s = last THEN Left ELSE session[s]) EXCEPT
                      !.stop = @ \/ Alive(s)]]
  /\ events' = [events EXCEPT ![last] = <<>>]
  /\ UNCHANGED <<game, last, seen>>

\* A mutant of DrainWorldHuntEvents: every event counts as a dispatch.
DrainWorldHuntEvents_CountsAll ==
  LET queue == events[last]
  IN  /\ running
      /\ queue # <<>>
      /\ running' = (Head(queue) # Failure)
      /\ session' = IF running' THEN session
                    ELSE [session EXCEPT ![last] = Left]
      /\ events' = [events EXCEPT ![last] = IF running' THEN Tail(@) ELSE <<>>]
      /\ seen' = seen \union {Head(queue).march}
      /\ UNCHANGED <<game, last>>

\* What the output of the process still holds is drained later.
DrainWorldHuntEvents ==
  LET queue == events[last]
  IN  /\ running
      /\ queue # <<>>
      /\ running' = (Head(queue) # Failure)
      /\ session' = IF running' THEN session
                    ELSE [session EXCEPT ![last] = Left]
      /\ events' = [events EXCEPT ![last] = IF running' THEN Tail(@) ELSE <<>>]
      /\ seen' = seen \union ({Head(queue).march} \ {0})
      /\ UNCHANGED <<game, last>>

\* A mutant of WorldHuntLoopFinished: the loop is stopped undrained.
WorldHuntLoopFinished_Undrained(s) ==
  /\ At(s, {"over"})
  /\ session' = [session EXCEPT ![s] = [NoSession EXCEPT !.pc = "drained"]]
  /\ IF Current(s)
     THEN running' = FALSE /\ events' = [events EXCEPT ![s] = <<>>]
     ELSE UNCHANGED <<running, events>>
  /\ UNCHANGED <<game, last, seen>>

\* The process has ended and the callback of its thread runs.
WorldHuntLoopFinished(s) ==
  /\ At(s, {"over"})
  /\ session' = [session EXCEPT ![s] = [NoSession EXCEPT !.pc = "drained"]]
  /\ IF Current(s)
     THEN /\ seen' = seen \union Dispatches(events[s])
          /\ running' = FALSE
          /\ events' = [events EXCEPT ![s] = <<>>]
     ELSE UNCHANGED <<seen, running, events>>
  /\ UNCHANGED <<game, last>>

-----------------------------------------------------------------------------
Init ==
  /\ march = <<>>
  /\ requests = <<>>
  /\ searches = 0
  /\ search = None
  /\ known = {}
  /\ faults = 0
  /\ session = [s \in Sessions |-> NoSession]
  /\ events = [s \in Sessions |-> <<>>]
  /\ last = 0
  /\ running = FALSE
  /\ seen = {}

Environment ==
  \/ GameAnswersSearch \/ ServerAnswersRequest \/ PlayerMarches \/ LuaReloads
  \/ \E m \in DOMAIN march : MarchReturns(m)

Session(s) ==
  StartProcess(s) \/ CliStep(s) \/ CliFails(s) \/ Stopped(s)

Window ==
  \/ StartWorldHunt \/ StopWorldHunt \/ DrainWorldHuntEvents
  \/ \E s \in Sessions : WorldHuntLoopFinished(s)

Next == Environment \/ Window \/ \E s \in Sessions : Session(s)

\* The game and its server answer, the CLI process and the threads run, the
\* deadlines of a session pass and the timers of the window fire.  The user
\* owes nothing, and no march has to return.
Fairness ==
  /\ WF_vars(GameAnswersSearch)
  /\ WF_vars(ServerAnswersRequest)
  /\ WF_vars(DrainWorldHuntEvents)
  /\ \A s \in Sessions :
       /\ WF_vars(StartProcess(s))
       /\ WF_vars(CliStep(s))
       /\ WF_vars(CliTimesOut(s))
       /\ WF_vars(Stopped(s))
       /\ WF_vars(WorldHuntLoopFinished(s))

Spec == Init /\ [][Next]_vars

FairSpec == Spec /\ Fairness

-----------------------------------------------------------------------------
(* Properties *)

TypeOK ==
  /\ march \in Seq(Monsters \union {"own", "home"}) /\ Len(march) <= MaxMarches
  /\ requests \in Seq(Monsters) /\ Len(requests) <= MaxRequests
  /\ searches \in 0..MaxRequests
  /\ search \in {None} \union [listens: BOOLEAN, at: Monsters \union {None},
                               before: SUBSET Marches, requested: BOOLEAN]
  /\ known \subseteq Marches
  /\ faults \in 0..MaxFaults
  /\ session \in [Sessions -> [pc: Places, stop: BOOLEAN,
                               active: SUBSET Marches,
                               count: 0..Slots, aim: Monsters \union {None},
                               sent: SUBSET Marches, out: Sessions,
                               missed: BOOLEAN, shared: BOOLEAN]]
  /\ events \in [Sessions -> Seq([event: {"dispatch", "error"},
                                  march: 0..MaxMarches])]
  /\ last \in 0..MaxSessions
  /\ running \in BOOLEAN
  /\ seen \subseteq Marches

\* What the window shows of its session is exact: the marches it has counted
\* and the dispatches it has still to read are the marches that session has
\* verified, none of an earlier session's and none twice
\* (_apply_world_hunt_loop_event, world_seen_march_ids, the queue of a start).
\* It holds of every start but one whose queue an earlier start took, which
\* was stopped before it had a process.
CountsAreExact ==
  running /\ ~session[last].shared =>
    LET unread == {events[last][i].march : i \in DOMAIN events[last]} \ {0}
    IN  /\ At(last, {"submitted"}) => seen \union unread = {}
        /\ seen \union unread = session[last].sent
        /\ seen \cap unread = {}

\* A loop that ends by itself has first shown every march it dispatched: no
\* event of it is dropped with the error that ends it or with its process
\* (_world_hunt_loop_finished drains before it stops the loop).  Of a start
\* whose queue an earlier one took, an error of that one may be the end.
EndsByItself ==
  /\ running /\ ~running'
  /\ \/ session'[last].pc = "drained"
     \/ events[last] # <<>> /\ Head(events[last]) = Failure

EndShowsAll ==
  [][EndsByItself /\ ~session[last].shared => seen' = session[last].sent]_vars

\* A march the loop tracks is not taken for a new one: while a session
\* waits for its march, those it tracks on the road are among the marches
\* the request recorded, whichever session recorded them.  The error for a
\* duplicate march id is never raised.
TrackedAreNotNew ==
  \A s \in Sessions :
    At(s, {"verifying"}) /\ search # None /\ search.requested
      => session[s].active \cap OnRoad \subseteq search.before

\* A loop that runs without a stop request is the one the window shows, with
\* two exceptions, which the code allows: the stop of it came before its
\* process was in _processes, so that cancel_serial did not find it, or an
\* error of such a loop was read as this one's.  Every other loop the window
\* has left, by a stop, an error or a new start, has been told to stop.
NoLoopRunsUnseen ==
  \A s \in Sessions : Alive(s) /\ ~session[s].stop =>
    Current(s) \/ session[s].missed \/ session[s].shared

\* A free slot is used while a loop runs: a march is requested, the slots
\* fill, or the loop ends, however the searches and polls of two sessions
\* meet and though the count it works from is stale.
FreeSlotIsUsed ==
  \A s \in Sessions :
    (Alive(s) /\ Cardinality(OnRoad) < Slots)
      ~> (requests # <<>> \/ Cardinality(OnRoad) = Slots \/ ~Alive(s))

\* gui.py: "A late event from a stopped subprocess must never be consumed by
\* a later run": what the window shows was dispatched by its session.
LateEventsStayApart == running => seen \subseteq session[last].sent

=============================================================================
