-------------------------- MODULE FridaWorkerProofs --------------------------
(***************************************************************************)
(* What holds of FridaWorker for any number of commands, workers and game  *)
(* restarts: one server per game process, requests run in the game they    *)
(* were made for and never lost, hooks that stay in a live game.           *)
(*                                                                         *)
(* The argument: the port belongs to the one worker between its bind and   *)
(* the end of its serve loop; a worker ends that loop only when its game   *)
(* process is gone; and a process that is gone stays gone, because PIDs    *)
(* only grow and a worker whose agent is in attaches no other session.  A  *)
(* request is in one place, and that place is with the worker its command  *)
(* waits for.                                                              *)
(***************************************************************************)
EXTENDS FridaWorker, FiniteSetTheorems, TLAPS

PidsKnown ==
  /\ \A w \in Workers : worker[w].pid <= game
  /\ \A c \in Clis : cli[c].pid <= game

PortHeld ==
  \A w \in Workers : InPhase(w, {"bound", "guarded", "attached", "serving"})
                      <=> port = w

ClosingIsGone ==
  \A w \in Workers : InPhase(w, {"closing"}) => ProcessGone(w)

\* A connected command is connected to a worker process that exists.
Connected ==
  \A c \in Clis : cli[c].pc \in {"connected", "waiting"} =>
    /\ cli[c].at \in Workers
    /\ InPhase(cli[c].at, {"serving", "closing"})

\* The game process a request is held for is the one its command looked up,
\* and a command that has not started holds no request of an earlier one.
HeldForItsGame ==
  \A w \in Workers :
    /\ \A i \in DOMAIN worker[w].requests : worker[w].requests[i] # None =>
         /\ cli[worker[w].requests[i]].pid = worker[w].pid
         /\ cli[worker[w].requests[i]].pc # "idle"
    /\ worker[w].running # None =>
         /\ cli[worker[w].running].pid = worker[w].pid
         /\ cli[worker[w].running].pc # "idle"

\* Where a request is: in a queue, or with the executor, of a worker.
Queued(w, r) == \E i \in DOMAIN worker[w].requests : worker[w].requests[i] = r
Holds(w, r)  == worker[w].running = r \/ Queued(w, r)

\* A request is in one place; a stop mark is only queued on the way out.
OnePlace ==
  /\ \A v, w \in Workers, c \in Clis : Holds(v, c) /\ Holds(w, c) => v = w
  /\ \A w \in Workers, c \in Clis : ~(worker[w].running = c /\ Queued(w, c))
  /\ \A w \in Workers : \A i, j \in DOMAIN worker[w].requests :
       worker[w].requests[i] = worker[w].requests[j] => i = j
  /\ \A w \in Workers : Queued(w, None) => InPhase(w, {"closing"})

\* A request that is somewhere has not run yet.
NotYetRun ==
  /\ \A w \in Workers, c \in Clis : Holds(w, c) =>
       cli[c].pc \in {"waiting", "over"} /\ cli[c].runs = 0 /\ cli[c].answer = "none"
  /\ \A c \in Clis : cli[c].pc = "connected" =>
       cli[c].runs = 0 /\ cli[c].answer = "none"

Once == OnePlace /\ NotYetRun /\ AnswersAreTrue

\* The worker a command waits for has its request.
InHand ==
  \A c \in Clis : cli[c].pc = "waiting" => Holds(cli[c].at, c)

WorkerInv ==
  /\ Typing
  /\ PidsKnown
  /\ PortHeld
  /\ ClosingIsGone
  /\ Connected
  /\ HeldForItsGame
  /\ Once
  /\ InHand

\* A command that waits can be answered without its deadline: its worker is
\* closing, runs a request, or can take the next one of its queue.
NoRequestIsStranded ==
  \A c \in Clis : cli[c].pc = "waiting" =>
    LET w == cli[c].at
    IN  /\ Holds(w, c)
        /\ \/ InPhase(w, {"closing"})
           \/ InPhase(w, {"serving"})
                /\ (worker[w].running # None \/ ExecutorFree(w))

(* Typing.  The records are typed one field at a time, so that the steps    *)
(* need not expand them.                                                    *)

LEMMA NoWorkerTyped == NoWorker \in WorkerStates
<1>1. 1 \in 1..MaxGames /\ <<>> \in Seq(Clis \cup {None})
  BY WorkerAssumption
<1>2. QED
  BY <1>1 DEF NoWorker, WorkerStates, Phases

LEMMA NoCliTyped == NoCli \in CliStates
<1>1. 1 \in 1..MaxGames
  BY WorkerAssumption
<1>2. QED
  BY <1>1 DEF NoCli, CliStates, Places

LEMMA LaunchedTyped == ASSUME NEW s \in WorkerStates, NEW ph \in Phases,
                              NEW p \in 1..MaxGames
                       PROVE  [s EXCEPT !.phase = ph, !.pid = p]
                                \in WorkerStates
  BY DEF WorkerStates

LEMMA StartedTyped == ASSUME NEW s \in CliStates, NEW place \in Places,
                             NEW p \in 1..MaxGames
                      PROVE  [s EXCEPT !.pc = place, !.pid = p] \in CliStates
  BY DEF CliStates

LEMMA PhaseTyped == ASSUME NEW s \in WorkerStates, NEW ph \in Phases
                    PROVE  [s EXCEPT !.phase = ph] \in WorkerStates
  BY DEF WorkerStates

LEMMA ConnectTyped == ASSUME NEW s \in WorkerStates, NEW ph \in Phases,
                             NEW retried \in BOOLEAN, NEW detached \in BOOLEAN
                      PROVE  [s EXCEPT !.phase = ph, !.retried = retried,
                                       !.detached = detached]
                               \in WorkerStates
  BY DEF WorkerStates

LEMMA DetachedTyped == ASSUME NEW s \in WorkerStates
                       PROVE  [s EXCEPT !.detached = TRUE] \in WorkerStates
  BY DEF WorkerStates

LEMMA RequestsTyped == ASSUME NEW s \in WorkerStates,
                              NEW q \in Seq(Clis \cup {None})
                       PROVE  [s EXCEPT !.requests = q] \in WorkerStates
  BY DEF WorkerStates

LEMMA RunningTyped == ASSUME NEW s \in WorkerStates,
                             NEW r \in Clis \cup {None}
                      PROVE  [s EXCEPT !.running = r] \in WorkerStates
  BY DEF WorkerStates

LEMMA PlaceTyped == ASSUME NEW s \in CliStates, NEW place \in Places
                    PROVE  [s EXCEPT !.pc = place] \in CliStates
  BY DEF CliStates

\* A step that changes one worker, or one command, to a typed one.
LEMMA OneWorkerTyped == ASSUME Typing, NEW w \in Workers,
                               NEW s \in WorkerStates,
                               worker' = [worker EXCEPT ![w] = s]
                        PROVE  worker' \in [Workers -> WorkerStates]
  BY DEF Typing

LEMMA OneCliTyped == ASSUME Typing, NEW c \in Clis, NEW s \in CliStates,
                            cli' = [cli EXCEPT ![c] = s]
                     PROVE  cli' \in [Clis -> CliStates]
  BY DEF Typing

LEMMA BecomeTyped == ASSUME Typing, NEW w \in Workers, NEW ph \in Phases,
                            Become(w, ph)
                     PROVE  worker' \in [Workers -> WorkerStates]
<1>1. [worker[w] EXCEPT !.phase = ph] \in WorkerStates
  BY PhaseTyped DEF Typing
<1>2. QED
  BY <1>1, OneWorkerTyped DEF Become

LEMMA MoveTyped == ASSUME Typing, NEW c \in Clis, NEW place \in Places,
                          Move(c, place)
                   PROVE  cli' \in [Clis -> CliStates]
<1>1. [cli[c] EXCEPT !.pc = place] \in CliStates
  BY PlaceTyped DEF Typing
<1>2. QED
  BY <1>1, OneCliTyped DEF Move

LEMMA AnsweredTyped ==
  ASSUME Typing, NEW c \in Clis, NEW runs \in Nat,
         NEW answer \in {"ok", "fault", "error"}
  PROVE  Answered(c, answer, runs) \in CliStates
<1> DEFINE place == IF cli[c].pc # "waiting" THEN cli[c].pc
                    ELSE IF answer = "error" THEN "over" ELSE "ready"
           told  == IF cli[c].pc = "waiting" THEN answer ELSE cli[c].answer
<1>1. cli[c] \in CliStates
  BY DEF Typing
<1>2. place \in Places /\ told \in {"none", "ok", "fault", "error"}
  BY <1>1 DEF CliStates, Places
<1>3. cli[c].runs + runs \in Nat
  BY <1>1 DEF CliStates
<1>4. Answered(c, answer, runs)
        = [cli[c] EXCEPT !.runs = cli[c].runs + runs, !.answer = told,
                          !.pc = place]
  BY <1>1 DEF Answered, CliStates
<1> HIDE DEF place, told
<1>5. QED
  BY <1>1, <1>2, <1>3, <1>4 DEF CliStates

LEMMA TypingStep ==
  ASSUME Typing, Connected, [Next]_vars
  PROVE  Typing'
<1> USE WorkerAssumption
<1>1. CASE GameRestarts
  BY <1>1 DEF GameRestarts, Typing
<1>2. ASSUME NEW w \in Workers, SessionDetaches(w) PROVE Typing'
  <2>1. [worker[w] EXCEPT !.detached = TRUE] \in WorkerStates
    BY DetachedTyped DEF Typing
  <2>2. worker' \in [Workers -> WorkerStates]
    BY <1>2, <2>1, OneWorkerTyped DEF SessionDetaches
  <2>3. QED
    BY <1>2, <2>2 DEF SessionDetaches, Typing
<1>3. ASSUME NEW w \in Workers,
             Bind(w) \/ GuardLoads(w) \/ BridgeReady(w) \/ BridgeFails(w)
      PROVE Typing'
  <2>1. \E ph \in Phases : Become(w, ph)
    BY <1>3 DEF Bind, GuardLoads, BridgeReady, BridgeFails, Phases
  <2>2. worker' \in [Workers -> WorkerStates]
    BY <2>1, BecomeTyped
  <2>3. QED
    BY <1>3, <2>2 DEF Bind, GuardLoads, BridgeReady, BridgeFails, Typing
<1>15. ASSUME NEW w \in Workers, AgentLoads(w) \/ ConnectRetries(w)
      PROVE Typing'
  <2>1. \E ph \in Phases, retried, detached \in BOOLEAN :
          worker' = [worker EXCEPT
                       ![w] = [worker[w] EXCEPT !.phase = ph,
                                 !.retried = retried, !.detached = detached]]
    <3>1. CASE AgentLoads(w)
      <4>1. worker' = [worker EXCEPT
                         ![w] = [worker[w] EXCEPT !.phase = "attached",
                                   !.retried = FALSE,
                                   !.detached = worker[w].detached]]
        BY <3>1 DEF AgentLoads, Typing, WorkerStates
      <4>2. worker[w].detached \in BOOLEAN /\ "attached" \in Phases
        BY DEF Typing, WorkerStates, Phases
      <4> QED
        BY <4>1, <4>2
    <3>2. CASE ConnectRetries(w)
      <4>1. worker' = [worker EXCEPT
                         ![w] = [worker[w] EXCEPT !.phase = "bound",
                                   !.retried = TRUE, !.detached = FALSE]]
        BY <3>2 DEF ConnectRetries, Typing, WorkerStates
      <4> QED
        BY <4>1 DEF Phases
    <3> QED
      BY <1>15, <3>1, <3>2
  <2>2. worker' \in [Workers -> WorkerStates]
    BY <2>1, ConnectTyped, OneWorkerTyped DEF Typing
  <2>3. QED
    BY <1>15, <2>2 DEF AgentLoads, ConnectRetries, Typing
<1>4. ASSUME NEW w \in Workers,
             BindFails(w) \/ StartupFails(w) \/ ResidentEnds(w)
               \/ WorkerExits(w)
      PROVE Typing'
  <2>1. worker' \in [Workers -> WorkerStates]
    <3>1. NoWorker \in WorkerStates
      BY NoWorkerTyped
    <3>2. QED
      BY <1>4, <3>1, OneWorkerTyped
      DEF BindFails, StartupFails, ResidentEnds, WorkerExits
  <2>2. cli' \in [Clis -> CliStates]
    <3>1. \A c \in Clis : [cli[c] EXCEPT !.pc = "over"] \in CliStates
      BY PlaceTyped DEF Typing, Places
    <3>2. QED
      BY <1>4, <3>1 DEF BindFails, StartupFails, ResidentEnds, WorkerExits,
        Typing
  <2>3. QED
    BY <1>4, <2>1, <2>2 DEF BindFails, StartupFails, ResidentEnds,
      WorkerExits, Typing
<1>5. ASSUME NEW w \in Workers, ServeEnds(w) PROVE Typing'
  <2> DEFINE s == [worker[w] EXCEPT !.phase = "closing"]
             q == Append(worker[w].requests, None)
  <2>1. s \in WorkerStates
    BY PhaseTyped DEF Typing, Phases
  <2>2. q \in Seq(Clis \cup {None})
    BY DEF Typing, WorkerStates
  <2>3. [s EXCEPT !.requests = q] \in WorkerStates
    BY <2>1, <2>2, RequestsTyped
  <2>4. worker' \in [Workers -> WorkerStates]
    BY <1>5, <2>3, OneWorkerTyped DEF ServeEnds, Typing, WorkerStates
  <2>5. QED
    BY <1>5, <2>4 DEF ServeEnds, Typing
<1>6. ASSUME NEW w \in Workers, TakeRequest(w) \/ RejectRequest(w)
    PROVE Typing'
  <2> DEFINE r == Head(worker[w].requests)
             q == Tail(worker[w].requests)
  <2>1. r \in Clis /\ q \in Seq(Clis \cup {None})
    BY <1>6 DEF TakeRequest, RejectRequest, ExecutorFree, Typing, WorkerStates
  <2>2. CASE TakeRequest(w)
    <3>1. [worker[w] EXCEPT !.running = r] \in WorkerStates
      BY <2>1, RunningTyped DEF Typing
    <3>2. [[worker[w] EXCEPT !.running = r] EXCEPT !.requests = q] \in WorkerStates
      BY <2>1, <3>1, RequestsTyped
    <3>3. worker' \in [Workers -> WorkerStates]
      BY <2>2, <3>2, OneWorkerTyped DEF TakeRequest, Typing, WorkerStates
    <3>4. QED
      BY <2>2, <3>3 DEF TakeRequest, Typing
  <2>3. CASE RejectRequest(w)
    <3>1. [worker[w] EXCEPT !.requests = q] \in WorkerStates
      BY <2>1, RequestsTyped DEF Typing
    <3>2. worker' \in [Workers -> WorkerStates]
      BY <2>3, <3>1, OneWorkerTyped DEF RejectRequest
    <3>3. Answered(r, "error", 0) \in CliStates
      BY <2>1, AnsweredTyped
    <3>4. cli' \in [Clis -> CliStates]
      BY <2>1, <2>3, <3>3, OneCliTyped DEF RejectRequest
    <3>5. QED
      BY <2>3, <3>2, <3>4 DEF RejectRequest, Typing
  <2>4. QED
    BY <1>6, <2>2, <2>3
<1>7. ASSUME NEW w \in Workers, RequestReturns(w) PROVE Typing'
  <2>1. [worker[w] EXCEPT !.running = None] \in WorkerStates
    BY RunningTyped DEF Typing
  <2>2. worker' \in [Workers -> WorkerStates]
    BY <1>7, <2>1, OneWorkerTyped DEF RequestReturns
  <2>3. worker[w].running \in Clis
    BY <1>7 DEF RequestReturns, Typing, WorkerStates
  <2>4. PICK outcome \in Outcomes(w) :
          cli' = [cli EXCEPT ![worker[w].running] =
                    Answered(worker[w].running, outcome[1], outcome[2])]
    BY <1>7 DEF RequestReturns
  <2>5. outcome[1] \in {"ok", "fault", "error"} /\ outcome[2] \in Nat
    BY <2>4 DEF Outcomes
  <2>6. Answered(worker[w].running, outcome[1], outcome[2]) \in CliStates
    BY <2>3, <2>5, AnsweredTyped
  <2>7. cli' \in [Clis -> CliStates]
    BY <2>3, <2>4, <2>6, OneCliTyped
  <2>8. QED
    BY <1>7, <2>2, <2>7 DEF RequestReturns, Typing
<1>8. ASSUME NEW c \in Clis, StartCli(c) \/ CliForgotten(c) PROVE Typing'
  <2>1. NoCli \in CliStates /\ [NoCli EXCEPT !.pc = "ping",
      !.pid = game] \in CliStates
    BY NoCliTyped, StartedTyped DEF Typing, Places
  <2>2. cli' \in [Clis -> CliStates]
    BY <1>8, <2>1, OneCliTyped DEF StartCli, CliForgotten
  <2>3. QED
    BY <1>8, <2>2 DEF StartCli, CliForgotten, Typing
<1>9. ASSUME NEW c \in Clis,
             \/ PingAnswered(c) \/ CheckProcess(c)
             \/ CliFails(c) \/ CliTimesOut(c) \/ CliEnds(c)
      PROVE Typing'
  <2>1. \E place \in Places : Move(c, place)
    BY <1>9 DEF PingAnswered, CheckProcess, CliFails, CliTimesOut, CliEnds,
      Places
  <2>2. cli' \in [Clis -> CliStates]
    BY <2>1, MoveTyped
  <2>3. QED
    BY <1>9, <2>2
    DEF PingAnswered, CheckProcess, CliFails, CliTimesOut, CliEnds, Typing
<1>10. ASSUME NEW c \in Clis, PingLost(c) PROVE Typing'
  <2>1. PICK w \in Workers :
          worker' = [worker EXCEPT
                       ![w] = [NoWorker EXCEPT !.phase = "launched",
                                               !.pid = cli[c].pid]]
    BY <1>10 DEF PingLost
  <2>2. [NoWorker EXCEPT !.phase = "launched",
      !.pid = cli[c].pid] \in WorkerStates
    BY NoWorkerTyped, LaunchedTyped DEF Typing, CliStates, Phases
  <2>3. worker' \in [Workers -> WorkerStates]
    BY <2>1, <2>2, OneWorkerTyped
  <2>4. cli' \in [Clis -> CliStates]
    BY <1>10, MoveTyped DEF PingLost, Places
  <2>5. QED
    BY <1>10, <2>3, <2>4 DEF PingLost, Typing
<1>11. ASSUME NEW c \in Clis, Connect(c) PROVE Typing'
  <2>1. [cli[c] EXCEPT !.pc = "connected", !.at = port, !.answer = "none",
                   !.runs = 0]
          \in CliStates
    BY DEF Typing, CliStates, Places
  <2>2. cli' \in [Clis -> CliStates]
    BY <1>11, <2>1, OneCliTyped DEF Connect
  <2>3. QED
    BY <1>11, <2>2 DEF Connect, Typing
<1>12. ASSUME NEW c \in Clis, Enqueue(c) PROVE Typing'
  <2> DEFINE w == cli[c].at
             q == Append(worker[w].requests, c)
  <2>1. w \in Workers
    BY <1>12 DEF Enqueue, Connected
  <2>2. q \in Seq(Clis \cup {None})
    BY <2>1 DEF Typing, WorkerStates
  <2>3. [worker[w] EXCEPT !.requests = q] \in WorkerStates
    BY <2>1, <2>2, RequestsTyped DEF Typing
  <2>4. worker' \in [Workers -> WorkerStates]
    BY <1>12, <2>1, <2>3, OneWorkerTyped DEF Enqueue
  <2>5. cli' \in [Clis -> CliStates]
    BY <1>12, MoveTyped DEF Enqueue, Places
  <2>6. QED
    BY <1>12, <2>4, <2>5 DEF Enqueue, Typing
<1>13. CASE UNCHANGED vars
  BY <1>13 DEF vars, Typing
<1>14. QED
  BY <1>1, <1>2, <1>3, <1>4, <1>5, <1>6, <1>7, <1>8, <1>9, <1>10, <1>11,
    <1>12, <1>13, <1>15
  DEF Next, WorkerStep, CliStep

-----------------------------------------------------------------------------
(* The other parts of the invariant, one step of the proof per action.      *)

\* PIDs are looked up, and only grow.
LEMMA PidsStep ==
  ASSUME Typing, PidsKnown, [Next]_vars
  PROVE  PidsKnown'
<1> USE WorkerAssumption DEF Typing, WorkerStates, CliStates, PidsKnown,
      NoWorker, NoCli, Become, Move, InPhase, Hooked, ProcessGone,
      Listening, PingAnswers, ExecutorFree, Answered, Outcomes, Phases,
      Places
<1>1. CASE GameRestarts
  BY <1>1 DEF GameRestarts
<1>2. ASSUME NEW w \in Workers, SessionDetaches(w) PROVE PidsKnown'
  BY <1>2 DEF SessionDetaches
<1>3. ASSUME NEW w \in Workers, Bind(w) PROVE PidsKnown'
  BY <1>3 DEF Bind
<1>4. ASSUME NEW w \in Workers, BindFails(w) PROVE PidsKnown'
  BY <1>4 DEF BindFails
<1>5. ASSUME NEW w \in Workers,
             GuardLoads(w) \/ AgentLoads(w) \/ ConnectRetries(w)
      PROVE PidsKnown'
  <2>1. CASE GuardLoads(w)
    BY <2>1 DEF GuardLoads
  <2>2. CASE AgentLoads(w)
    BY <2>2 DEF AgentLoads
  <2>3. CASE ConnectRetries(w)
    BY <2>3 DEF ConnectRetries
  <2> QED
    BY <1>5, <2>1, <2>2, <2>3
<1>6. ASSUME NEW w \in Workers, StartupFails(w) PROVE PidsKnown'
  BY <1>6 DEF StartupFails
<1>7. ASSUME NEW w \in Workers, BridgeReady(w) PROVE PidsKnown'
  BY <1>7 DEF BridgeReady
<1>8. ASSUME NEW w \in Workers, BridgeFails(w) PROVE PidsKnown'
  BY <1>8 DEF BridgeFails
<1>9. ASSUME NEW w \in Workers, ResidentEnds(w) PROVE PidsKnown'
  BY <1>9 DEF ResidentEnds
<1>10. ASSUME NEW w \in Workers, ServeEnds(w) PROVE PidsKnown'
  BY <1>10 DEF ServeEnds
<1>11. ASSUME NEW w \in Workers, WorkerExits(w) PROVE PidsKnown'
  BY <1>11 DEF WorkerExits
<1>12. ASSUME NEW w \in Workers, TakeRequest(w) PROVE PidsKnown'
  BY <1>12 DEF TakeRequest
<1>13. ASSUME NEW w \in Workers, RejectRequest(w) PROVE PidsKnown'
  BY <1>13 DEF RejectRequest
<1>14. ASSUME NEW w \in Workers, RequestReturns(w) PROVE PidsKnown'
  BY <1>14 DEF RequestReturns
<1>15. ASSUME NEW c \in Clis, StartCli(c) PROVE PidsKnown'
  BY <1>15 DEF StartCli
<1>16. ASSUME NEW c \in Clis, PingAnswered(c) PROVE PidsKnown'
  BY <1>16 DEF PingAnswered
<1>17. ASSUME NEW c \in Clis, PingLost(c) PROVE PidsKnown'
  BY <1>17 DEF PingLost
<1>18. ASSUME NEW c \in Clis, CheckProcess(c) PROVE PidsKnown'
  BY <1>18 DEF CheckProcess
<1>19. ASSUME NEW c \in Clis, Connect(c) PROVE PidsKnown'
  BY <1>19 DEF Connect
<1>20. ASSUME NEW c \in Clis, CliFails(c) PROVE PidsKnown'
  BY <1>20 DEF CliFails
<1>21. ASSUME NEW c \in Clis, CliTimesOut(c) PROVE PidsKnown'
  BY <1>21 DEF CliTimesOut
<1>22. ASSUME NEW c \in Clis, CliEnds(c) PROVE PidsKnown'
  BY <1>22 DEF CliEnds
<1>23. ASSUME NEW c \in Clis, CliForgotten(c) PROVE PidsKnown'
  BY <1>23 DEF CliForgotten
<1>24. ASSUME NEW c \in Clis, Enqueue(c) PROVE PidsKnown'
  BY <1>24 DEF Enqueue
<1>25. CASE UNCHANGED vars
  BY <1>25 DEF vars
<1>26. QED
  BY <1>1, <1>2, <1>3, <1>4, <1>5, <1>6, <1>7, <1>8, <1>9, <1>10, <1>11,
     <1>12, <1>13, <1>14, <1>15, <1>16, <1>17, <1>18, <1>19, <1>20, <1>21,
         <1>22, <1>23, <1>24, <1>25
  DEF Next, WorkerStep, CliStep

\* Only a free port is bound, and whoever leaves these phases frees it.
LEMMA PortStep ==
  ASSUME Typing, PortHeld, [Next]_vars
  PROVE  PortHeld'
<1> USE WorkerAssumption DEF Typing, WorkerStates, CliStates, PortHeld,
      NoWorker, NoCli, Become, Move, InPhase, Hooked, ProcessGone,
      Listening, PingAnswers, ExecutorFree, Answered, Outcomes, Phases,
      Places
<1>1. CASE GameRestarts
  BY <1>1 DEF GameRestarts
<1>2. ASSUME NEW w \in Workers, SessionDetaches(w) PROVE PortHeld'
  BY <1>2 DEF SessionDetaches
<1>3. ASSUME NEW w \in Workers, Bind(w) PROVE PortHeld'
  BY <1>3 DEF Bind
<1>4. ASSUME NEW w \in Workers, BindFails(w) PROVE PortHeld'
  BY <1>4 DEF BindFails
<1>5. ASSUME NEW w \in Workers,
             GuardLoads(w) \/ AgentLoads(w) \/ ConnectRetries(w)
      PROVE PortHeld'
  <2>1. CASE GuardLoads(w)
    BY <2>1 DEF GuardLoads
  <2>2. CASE AgentLoads(w)
    BY <2>2 DEF AgentLoads
  <2>3. CASE ConnectRetries(w)
    BY <2>3 DEF ConnectRetries
  <2> QED
    BY <1>5, <2>1, <2>2, <2>3
<1>6. ASSUME NEW w \in Workers, StartupFails(w) PROVE PortHeld'
  BY <1>6 DEF StartupFails
<1>7. ASSUME NEW w \in Workers, BridgeReady(w) PROVE PortHeld'
  BY <1>7 DEF BridgeReady
<1>8. ASSUME NEW w \in Workers, BridgeFails(w) PROVE PortHeld'
  BY <1>8 DEF BridgeFails
<1>9. ASSUME NEW w \in Workers, ResidentEnds(w) PROVE PortHeld'
  BY <1>9 DEF ResidentEnds
<1>10. ASSUME NEW w \in Workers, ServeEnds(w) PROVE PortHeld'
  BY <1>10 DEF ServeEnds
<1>11. ASSUME NEW w \in Workers, WorkerExits(w) PROVE PortHeld'
  BY <1>11 DEF WorkerExits
<1>12. ASSUME NEW w \in Workers, TakeRequest(w) PROVE PortHeld'
  BY <1>12 DEF TakeRequest
<1>13. ASSUME NEW w \in Workers, RejectRequest(w) PROVE PortHeld'
  BY <1>13 DEF RejectRequest
<1>14. ASSUME NEW w \in Workers, RequestReturns(w) PROVE PortHeld'
  BY <1>14 DEF RequestReturns
<1>15. ASSUME NEW c \in Clis, StartCli(c) PROVE PortHeld'
  BY <1>15 DEF StartCli
<1>16. ASSUME NEW c \in Clis, PingAnswered(c) PROVE PortHeld'
  BY <1>16 DEF PingAnswered
<1>17. ASSUME NEW c \in Clis, PingLost(c) PROVE PortHeld'
  BY <1>17 DEF PingLost
<1>18. ASSUME NEW c \in Clis, CheckProcess(c) PROVE PortHeld'
  BY <1>18 DEF CheckProcess
<1>19. ASSUME NEW c \in Clis, Connect(c) PROVE PortHeld'
  BY <1>19 DEF Connect
<1>20. ASSUME NEW c \in Clis, CliFails(c) PROVE PortHeld'
  BY <1>20 DEF CliFails
<1>21. ASSUME NEW c \in Clis, CliTimesOut(c) PROVE PortHeld'
  BY <1>21 DEF CliTimesOut
<1>22. ASSUME NEW c \in Clis, CliEnds(c) PROVE PortHeld'
  BY <1>22 DEF CliEnds
<1>23. ASSUME NEW c \in Clis, CliForgotten(c) PROVE PortHeld'
  BY <1>23 DEF CliForgotten
<1>24. ASSUME NEW c \in Clis, Enqueue(c) PROVE PortHeld'
  BY <1>24 DEF Enqueue
<1>25. CASE UNCHANGED vars
  BY <1>25 DEF vars
<1>26. QED
  BY <1>1, <1>2, <1>3, <1>4, <1>5, <1>6, <1>7, <1>8, <1>9, <1>10, <1>11,
     <1>12, <1>13, <1>14, <1>15, <1>16, <1>17, <1>18, <1>19, <1>20, <1>21,
         <1>22, <1>23, <1>24, <1>25
  DEF Next, WorkerStep, CliStep

\* The serve loop ends on a game that is gone, and a game that is gone
\* does not come back under its PID.
LEMMA ClosingStep ==
  ASSUME Typing, PidsKnown, ClosingIsGone, [Next]_vars
  PROVE  ClosingIsGone'
<1> USE WorkerAssumption DEF Typing, WorkerStates, CliStates, PidsKnown,
      ClosingIsGone, NoWorker, NoCli, Become, Move, InPhase, Hooked,
      ProcessGone, Listening, PingAnswers, ExecutorFree, Answered, Outcomes,
      Phases, Places
<1>1. CASE GameRestarts
  BY <1>1 DEF GameRestarts
<1>2. ASSUME NEW w \in Workers, SessionDetaches(w) PROVE ClosingIsGone'
  BY <1>2 DEF SessionDetaches
<1>3. ASSUME NEW w \in Workers, Bind(w) PROVE ClosingIsGone'
  BY <1>3 DEF Bind
<1>4. ASSUME NEW w \in Workers, BindFails(w) PROVE ClosingIsGone'
  BY <1>4 DEF BindFails
<1>5. ASSUME NEW w \in Workers,
             GuardLoads(w) \/ AgentLoads(w) \/ ConnectRetries(w)
      PROVE ClosingIsGone'
  <2>1. CASE GuardLoads(w)
    BY <2>1 DEF GuardLoads
  <2>2. CASE AgentLoads(w)
    BY <2>2 DEF AgentLoads
  <2>3. CASE ConnectRetries(w)
    BY <2>3 DEF ConnectRetries
  <2> QED
    BY <1>5, <2>1, <2>2, <2>3
<1>6. ASSUME NEW w \in Workers, StartupFails(w) PROVE ClosingIsGone'
  BY <1>6 DEF StartupFails
<1>7. ASSUME NEW w \in Workers, BridgeReady(w) PROVE ClosingIsGone'
  BY <1>7 DEF BridgeReady
<1>8. ASSUME NEW w \in Workers, BridgeFails(w) PROVE ClosingIsGone'
  BY <1>8 DEF BridgeFails
<1>9. ASSUME NEW w \in Workers, ResidentEnds(w) PROVE ClosingIsGone'
  BY <1>9 DEF ResidentEnds
<1>10. ASSUME NEW w \in Workers, ServeEnds(w) PROVE ClosingIsGone'
  BY <1>10 DEF ServeEnds
<1>11. ASSUME NEW w \in Workers, WorkerExits(w) PROVE ClosingIsGone'
  BY <1>11 DEF WorkerExits
<1>12. ASSUME NEW w \in Workers, TakeRequest(w) PROVE ClosingIsGone'
  BY <1>12 DEF TakeRequest
<1>13. ASSUME NEW w \in Workers, RejectRequest(w) PROVE ClosingIsGone'
  BY <1>13 DEF RejectRequest
<1>14. ASSUME NEW w \in Workers, RequestReturns(w) PROVE ClosingIsGone'
  BY <1>14 DEF RequestReturns
<1>15. ASSUME NEW c \in Clis, StartCli(c) PROVE ClosingIsGone'
  BY <1>15 DEF StartCli
<1>16. ASSUME NEW c \in Clis, PingAnswered(c) PROVE ClosingIsGone'
  BY <1>16 DEF PingAnswered
<1>17. ASSUME NEW c \in Clis, PingLost(c) PROVE ClosingIsGone'
  BY <1>17 DEF PingLost
<1>18. ASSUME NEW c \in Clis, CheckProcess(c) PROVE ClosingIsGone'
  BY <1>18 DEF CheckProcess
<1>19. ASSUME NEW c \in Clis, Connect(c) PROVE ClosingIsGone'
  BY <1>19 DEF Connect
<1>20. ASSUME NEW c \in Clis, CliFails(c) PROVE ClosingIsGone'
  BY <1>20 DEF CliFails
<1>21. ASSUME NEW c \in Clis, CliTimesOut(c) PROVE ClosingIsGone'
  BY <1>21 DEF CliTimesOut
<1>22. ASSUME NEW c \in Clis, CliEnds(c) PROVE ClosingIsGone'
  BY <1>22 DEF CliEnds
<1>23. ASSUME NEW c \in Clis, CliForgotten(c) PROVE ClosingIsGone'
  BY <1>23 DEF CliForgotten
<1>24. ASSUME NEW c \in Clis, Enqueue(c) PROVE ClosingIsGone'
  BY <1>24 DEF Enqueue
<1>25. CASE UNCHANGED vars
  BY <1>25 DEF vars
<1>26. QED
  BY <1>1, <1>2, <1>3, <1>4, <1>5, <1>6, <1>7, <1>8, <1>9, <1>10, <1>11,
     <1>12, <1>13, <1>14, <1>15, <1>16, <1>17, <1>18, <1>19, <1>20, <1>21,
         <1>22, <1>23, <1>24, <1>25
  DEF Next, WorkerStep, CliStep

\* A worker that exits takes its connections with it.
LEMMA ConnectedStep ==
  ASSUME Typing, Connected, [Next]_vars
  PROVE  Connected'
<1> USE WorkerAssumption DEF Typing, WorkerStates, CliStates, Connected,
      NoWorker, NoCli, Become, Move, InPhase, Hooked, ProcessGone,
      Listening, PingAnswers, ExecutorFree, Answered, Outcomes, Phases,
      Places
<1>1. CASE GameRestarts
  BY <1>1 DEF GameRestarts
<1>2. ASSUME NEW w \in Workers, SessionDetaches(w) PROVE Connected'
  BY <1>2 DEF SessionDetaches
<1>3. ASSUME NEW w \in Workers, Bind(w) PROVE Connected'
  BY <1>3 DEF Bind
<1>4. ASSUME NEW w \in Workers, BindFails(w) PROVE Connected'
  BY <1>4 DEF BindFails
<1>5. ASSUME NEW w \in Workers,
             GuardLoads(w) \/ AgentLoads(w) \/ ConnectRetries(w)
      PROVE Connected'
  <2>1. CASE GuardLoads(w)
    BY <2>1 DEF GuardLoads
  <2>2. CASE AgentLoads(w)
    BY <2>2 DEF AgentLoads
  <2>3. CASE ConnectRetries(w)
    BY <2>3 DEF ConnectRetries
  <2> QED
    BY <1>5, <2>1, <2>2, <2>3
<1>6. ASSUME NEW w \in Workers, StartupFails(w) PROVE Connected'
  BY <1>6 DEF StartupFails
<1>7. ASSUME NEW w \in Workers, BridgeReady(w) PROVE Connected'
  BY <1>7 DEF BridgeReady
<1>8. ASSUME NEW w \in Workers, BridgeFails(w) PROVE Connected'
  BY <1>8 DEF BridgeFails
<1>9. ASSUME NEW w \in Workers, ResidentEnds(w) PROVE Connected'
  BY <1>9 DEF ResidentEnds
<1>10. ASSUME NEW w \in Workers, ServeEnds(w) PROVE Connected'
  BY <1>10 DEF ServeEnds
<1>11. ASSUME NEW w \in Workers, WorkerExits(w) PROVE Connected'
  BY <1>11 DEF WorkerExits
<1>12. ASSUME NEW w \in Workers, TakeRequest(w) PROVE Connected'
  BY <1>12 DEF TakeRequest
<1>13. ASSUME NEW w \in Workers, RejectRequest(w) PROVE Connected'
  BY <1>13 DEF RejectRequest
<1>14. ASSUME NEW w \in Workers, RequestReturns(w) PROVE Connected'
  BY <1>14 DEF RequestReturns
<1>15. ASSUME NEW c \in Clis, StartCli(c) PROVE Connected'
  BY <1>15 DEF StartCli
<1>16. ASSUME NEW c \in Clis, PingAnswered(c) PROVE Connected'
  BY <1>16 DEF PingAnswered
<1>17. ASSUME NEW c \in Clis, PingLost(c) PROVE Connected'
  BY <1>17 DEF PingLost
<1>18. ASSUME NEW c \in Clis, CheckProcess(c) PROVE Connected'
  BY <1>18 DEF CheckProcess
<1>19. ASSUME NEW c \in Clis, Connect(c) PROVE Connected'
  BY <1>19 DEF Connect
<1>20. ASSUME NEW c \in Clis, CliFails(c) PROVE Connected'
  BY <1>20 DEF CliFails
<1>21. ASSUME NEW c \in Clis, CliTimesOut(c) PROVE Connected'
  BY <1>21 DEF CliTimesOut
<1>22. ASSUME NEW c \in Clis, CliEnds(c) PROVE Connected'
  BY <1>22 DEF CliEnds
<1>23. ASSUME NEW c \in Clis, CliForgotten(c) PROVE Connected'
  BY <1>23 DEF CliForgotten
<1>24. ASSUME NEW c \in Clis, Enqueue(c) PROVE Connected'
  BY <1>24 DEF Enqueue
<1>25. CASE UNCHANGED vars
  BY <1>25 DEF vars
<1>26. QED
  BY <1>1, <1>2, <1>3, <1>4, <1>5, <1>6, <1>7, <1>8, <1>9, <1>10, <1>11,
     <1>12, <1>13, <1>14, <1>15, <1>16, <1>17, <1>18, <1>19, <1>20, <1>21,
         <1>22, <1>23, <1>24, <1>25
  DEF Next, WorkerStep, CliStep

\* A request enters a queue only under the PID of the worker, and its
\* command is forgotten only when no worker holds it.
LEMMA HeldStep ==
  ASSUME Typing, Connected, HeldForItsGame, [Next]_vars
  PROVE  HeldForItsGame'
<1> USE WorkerAssumption DEF Typing, WorkerStates, CliStates, Connected,
      HeldForItsGame, Outstanding, NoWorker, NoCli, Become, Move, InPhase,
      Hooked, ProcessGone, Listening, PingAnswers, ExecutorFree, Answered,
      Outcomes, Phases, Places
<1>1. CASE GameRestarts
  BY <1>1 DEF GameRestarts
<1>2. ASSUME NEW w \in Workers, SessionDetaches(w) PROVE HeldForItsGame'
  BY <1>2 DEF SessionDetaches
<1>3. ASSUME NEW w \in Workers, Bind(w) PROVE HeldForItsGame'
  BY <1>3 DEF Bind
<1>4. ASSUME NEW w \in Workers, BindFails(w) PROVE HeldForItsGame'
  BY <1>4 DEF BindFails
<1>5. ASSUME NEW w \in Workers,
             GuardLoads(w) \/ AgentLoads(w) \/ ConnectRetries(w)
      PROVE HeldForItsGame'
  <2>1. CASE GuardLoads(w)
    BY <2>1 DEF GuardLoads
  <2>2. CASE AgentLoads(w)
    BY <2>2 DEF AgentLoads
  <2>3. CASE ConnectRetries(w)
    BY <2>3 DEF ConnectRetries
  <2> QED
    BY <1>5, <2>1, <2>2, <2>3
<1>6. ASSUME NEW w \in Workers, StartupFails(w) PROVE HeldForItsGame'
  BY <1>6 DEF StartupFails
<1>7. ASSUME NEW w \in Workers, BridgeReady(w) PROVE HeldForItsGame'
  BY <1>7 DEF BridgeReady
<1>8. ASSUME NEW w \in Workers, BridgeFails(w) PROVE HeldForItsGame'
  BY <1>8 DEF BridgeFails
<1>9. ASSUME NEW w \in Workers, ResidentEnds(w) PROVE HeldForItsGame'
  BY <1>9 DEF ResidentEnds
<1>10. ASSUME NEW w \in Workers, ServeEnds(w) PROVE HeldForItsGame'
  BY <1>10 DEF ServeEnds
<1>11. ASSUME NEW w \in Workers, WorkerExits(w) PROVE HeldForItsGame'
  BY <1>11 DEF WorkerExits
<1>12. ASSUME NEW w \in Workers, TakeRequest(w) PROVE HeldForItsGame'
  BY <1>12 DEF TakeRequest
<1>13. ASSUME NEW w \in Workers, RejectRequest(w) PROVE HeldForItsGame'
  BY <1>13 DEF RejectRequest
<1>14. ASSUME NEW w \in Workers, RequestReturns(w) PROVE HeldForItsGame'
  BY <1>14 DEF RequestReturns
<1>15. ASSUME NEW c \in Clis, StartCli(c) PROVE HeldForItsGame'
  BY <1>15 DEF StartCli
<1>16. ASSUME NEW c \in Clis, PingAnswered(c) PROVE HeldForItsGame'
  BY <1>16 DEF PingAnswered
<1>17. ASSUME NEW c \in Clis, PingLost(c) PROVE HeldForItsGame'
  BY <1>17 DEF PingLost
<1>18. ASSUME NEW c \in Clis, CheckProcess(c) PROVE HeldForItsGame'
  BY <1>18 DEF CheckProcess
<1>19. ASSUME NEW c \in Clis, Connect(c) PROVE HeldForItsGame'
  BY <1>19 DEF Connect
<1>20. ASSUME NEW c \in Clis, CliFails(c) PROVE HeldForItsGame'
  BY <1>20 DEF CliFails
<1>21. ASSUME NEW c \in Clis, CliTimesOut(c) PROVE HeldForItsGame'
  BY <1>21 DEF CliTimesOut
<1>22. ASSUME NEW c \in Clis, CliEnds(c) PROVE HeldForItsGame'
  BY <1>22 DEF CliEnds
<1>23. ASSUME NEW c \in Clis, CliForgotten(c) PROVE HeldForItsGame'
  BY <1>23 DEF CliForgotten
<1>24. ASSUME NEW c \in Clis, Enqueue(c) PROVE HeldForItsGame'
  BY <1>24 DEF Enqueue
<1>25. CASE UNCHANGED vars
  BY <1>25 DEF vars
<1>26. QED
  BY <1>1, <1>2, <1>3, <1>4, <1>5, <1>6, <1>7, <1>8, <1>9, <1>10, <1>11,
     <1>12, <1>13, <1>14, <1>15, <1>16, <1>17, <1>18, <1>19, <1>20, <1>21,
         <1>22, <1>23, <1>24, <1>25
  DEF Next, WorkerStep, CliStep

-----------------------------------------------------------------------------
(* A request runs once.                                                     *)

\* Queues and executors stand still, or a worker ends with what it holds; of a
\* command that has a request somewhere only the patience ends.
Undisturbed ==
  /\ \A w \in Workers :
       \/ worker'[w].requests = <<>> /\ worker'[w].running = None
       \/ /\ worker'[w].requests = worker[w].requests
          /\ worker'[w].running = worker[w].running
          /\ InPhase(w, {"closing"}) => worker'[w].phase = "closing"
  /\ \A c \in Clis :
       \/ /\ cli'[c].runs = cli[c].runs /\ cli'[c].answer = cli[c].answer
          /\ cli'[c].pc # "connected" \/ cli[c].pc = "connected"
          /\ cli[c].pc \in {"waiting", "over"} => cli'[c].pc \in {"waiting", "over"}
       \/ /\ cli[c].pc \notin {"waiting", "over"} \/ Outstanding(c) = {}
          /\ cli'[c].runs = 0 /\ cli'[c].answer = "none"

LEMMA UndisturbedKeepsOnce ==
  ASSUME Once, Undisturbed
  PROVE  Once'
<1> USE WorkerAssumption
<1>1. ASSUME NEW w \in Workers
      PROVE  /\ \A r \in Clis \cup {None} : Queued(w, r)' => Queued(w, r)
             /\ \A c \in Clis : Holds(w, c)' => Holds(w, c)
             /\ \A c \in Clis : worker'[w].running = c => worker[w].running = c
             /\ Queued(w, None)' => worker'[w].phase = "closing"
  <2>1. CASE worker'[w].requests = <<>> /\ worker'[w].running = None
    BY <2>1 DEF Queued, Holds
  <2>2. CASE /\ worker'[w].requests = worker[w].requests
             /\ worker'[w].running = worker[w].running
             /\ InPhase(w, {"closing"}) => worker'[w].phase = "closing"
    BY <2>2 DEF Once, OnePlace, Queued, Holds
  <2> QED
    BY <2>1, <2>2 DEF Undisturbed
<1>2. \A w \in Workers : \A i, j \in DOMAIN worker'[w].requests :
        worker'[w].requests[i] = worker'[w].requests[j] => i = j
  BY DEF Once, OnePlace, Undisturbed
<1>3. OnePlace'
  BY <1>1, <1>2 DEF Once, OnePlace, InPhase
<1>4. ASSUME NEW w \in Workers, NEW c \in Clis, Holds(w, c)
      PROVE  Outstanding(c) # {} /\ cli[c].pc \in {"waiting", "over"}
  BY <1>4 DEF Once, NotYetRun, Outstanding, Holds, Queued
<1>5. NotYetRun'
  BY <1>1, <1>4 DEF Once, NotYetRun, Undisturbed
<1>6. AnswersAreTrue'
  BY DEF Once, AnswersAreTrue, Undisturbed
<1> QED
  BY <1>3, <1>5, <1>6 DEF Once

\* Where a request is when another one is put at the end of a queue.
LEMMA AppendedAt ==
  ASSUME Typing, NEW w \in Workers, NEW r \in Clis \cup {None}, ~Queued(w, r),
         worker'[w].requests = Append(worker[w].requests, r),
         Once
  PROVE  /\ \A q \in Clis \cup {None} : Queued(w, q)' <=> Queued(w, q) \/ q = r
         /\ \A i, j \in DOMAIN worker'[w].requests :
              worker'[w].requests[i] = worker'[w].requests[j] => i = j
<1> DEFINE s == worker[w].requests
<1>1. s \in Seq(Clis \cup {None}) /\ Len(s) \in Nat
  BY DEF Typing, WorkerStates
<1>2. /\ DOMAIN s = 1..Len(s) /\ DOMAIN Append(s, r) = 1..(Len(s) + 1)
      /\ \A i \in 1..Len(s) : Append(s, r)[i] = s[i]
      /\ Append(s, r)[Len(s) + 1] = r
  BY <1>1
<1>3. \A i, j \in DOMAIN s : s[i] = s[j] => i = j
  BY DEF Once, OnePlace
<1>4. \A i \in DOMAIN s : s[i] # r
  BY DEF Queued
<1>5. worker'[w].requests = Append(s, r)
  OBVIOUS
<1>6. \A q \in Clis \cup {None} : Queued(w, q) <=> \E i \in DOMAIN s : s[i] = q
  BY DEF Queued
<1>7. \A q \in Clis \cup {None} :
        Queued(w, q)' <=> \E i \in DOMAIN Append(s, r) : Append(s, r)[i] = q
  BY <1>5 DEF Queued
<1> HIDE DEF s
<1>8. \A q \in Clis \cup {None} :
        (\E i \in DOMAIN Append(s, r) : Append(s, r)[i] = q)
          <=> (\E i \in DOMAIN s : s[i] = q) \/ q = r
  BY <1>1, <1>2
<1>9. \A i, j \in DOMAIN Append(s, r) : Append(s, r)[i] = Append(s, r)[j] => i = j
  BY <1>1, <1>2, <1>3, <1>4
<1> QED
  BY <1>5, <1>6, <1>7, <1>8, <1>9

\* ... and when the first of a queue is taken out of it.
LEMMA TakenFrom ==
  ASSUME Typing, Once, NEW w \in Workers, worker[w].requests # <<>>,
         worker'[w].requests = Tail(worker[w].requests)
  PROVE  /\ Head(worker[w].requests) \in Clis \cup {None}
         /\ Queued(w, Head(worker[w].requests))
         /\ \A q \in Clis \cup {None} :
              Queued(w, q)' <=> Queued(w, q) /\ q # Head(worker[w].requests)
         /\ \A i, j \in DOMAIN worker'[w].requests :
              worker'[w].requests[i] = worker'[w].requests[j] => i = j
<1> DEFINE s == worker[w].requests
<1>1. s \in Seq(Clis \cup {None}) /\ Len(s) \in Nat /\ Len(s) > 0
  BY DEF Typing, WorkerStates
<1>2. /\ DOMAIN s = 1..Len(s) /\ DOMAIN Tail(s) = 1..(Len(s) - 1)
      /\ \A i \in 1..(Len(s) - 1) : Tail(s)[i] = s[i + 1]
      /\ Head(s) = s[1] /\ Head(s) \in Clis \cup {None}
  BY <1>1
<1>3. \A i, j \in DOMAIN s : s[i] = s[j] => i = j
  BY DEF Once, OnePlace
<1>4. worker'[w].requests = Tail(s)
  OBVIOUS
<1>5. \A q \in Clis \cup {None} : Queued(w, q) <=> \E i \in DOMAIN s : s[i] = q
  BY DEF Queued
<1>6. \A q \in Clis \cup {None} :
        Queued(w, q)' <=> \E i \in DOMAIN Tail(s) : Tail(s)[i] = q
  BY <1>4 DEF Queued
<1>7. Head(worker[w].requests) = Head(s)
  OBVIOUS
<1> HIDE DEF s
<1>8. ASSUME NEW q \in Clis \cup {None}
      PROVE  (\E i \in DOMAIN Tail(s) : Tail(s)[i] = q)
               <=> (\E i \in DOMAIN s : s[i] = q) /\ q # Head(s)
  <2>1. ASSUME NEW i \in DOMAIN Tail(s), Tail(s)[i] = q
        PROVE  i + 1 \in DOMAIN s /\ s[i + 1] = q /\ q # Head(s)
    BY <1>1, <1>2, <1>3, <2>1
  <2>2. ASSUME NEW i \in DOMAIN s, s[i] = q, q # Head(s)
        PROVE  i - 1 \in DOMAIN Tail(s) /\ Tail(s)[i - 1] = q
    BY <1>1, <1>2, <2>2
  <2> QED
    BY <2>1, <2>2
<1>9. \A i, j \in DOMAIN Tail(s) : Tail(s)[i] = Tail(s)[j] => i = j
  <2> SUFFICES ASSUME NEW i \in DOMAIN Tail(s), NEW j \in DOMAIN Tail(s),
                      Tail(s)[i] = Tail(s)[j]
               PROVE  i = j
    OBVIOUS
  <2>1. i + 1 = j + 1
    BY <1>1, <1>2, <1>3
  <2> QED
    BY <1>1, <1>2, <2>1
<1>10. 1 \in DOMAIN s
  BY <1>1, <1>2
<1> QED
  BY <1>2, <1>4, <1>5, <1>6, <1>7, <1>8, <1>9, <1>10

\* A request that leaves its only place has run once, or not at all.
LEMMA AnsweredOnce ==
  ASSUME Typing, Once, NEW w \in Workers, NEW c \in Clis, Holds(w, c),
         NEW answer \in {"ok", "fault", "error"}, NEW runs \in {0, 1},
         answer = "ok" => runs = 1,
         cli' = [cli EXCEPT ![c] = Answered(c, answer, runs)],
         OnePlace', \A v \in Workers : ~Holds(v, c)',
         \A v \in Workers, d \in Clis : Holds(v, d)' => Holds(v, d)
  PROVE  Once'
<1>1. /\ cli[c].pc \in {"waiting", "over"} /\ cli[c].runs = 0
      /\ cli[c].answer = "none"
  BY DEF Once, NotYetRun
<1>2. cli[c] \in CliStates /\ cli' = [cli EXCEPT ![c] = cli'[c]]
      /\ c \in DOMAIN cli /\ cli'[c] = Answered(c, answer, runs)
  BY DEF Typing
<1>3. /\ cli'[c].runs = runs /\ cli'[c].pc # "connected"
      /\ cli'[c].answer \in {"none", answer}
  <2> DEFINE place == IF cli[c].pc # "waiting" THEN cli[c].pc
                      ELSE IF answer = "error" THEN "over" ELSE "ready"
             told  == IF cli[c].pc = "waiting" THEN answer ELSE cli[c].answer
  <2>1. Answered(c, answer, runs)
          = [cli[c] EXCEPT !.runs = cli[c].runs + runs, !.answer = told,
                            !.pc = place]
    BY <1>2 DEF Answered, CliStates
  <2>2. place # "connected" /\ told \in {"none", answer}
    BY <1>1
  <2>3. cli[c].runs + runs = runs
    BY <1>1
  <2> HIDE DEF place, told
  <2> QED
    BY <1>2, <2>1, <2>2, <2>3 DEF CliStates
<1>4. \A d \in Clis \ {c} : cli'[d] = cli[d]
  BY DEF Typing
<1>5. NotYetRun'
  <2>1. ASSUME NEW v \in Workers, NEW d \in Clis, Holds(v, d)'
        PROVE  cli'[d].pc \in {"waiting", "over"} /\ cli'[d].runs = 0
               /\ cli'[d].answer = "none"
    BY <1>4, <2>1 DEF Once, NotYetRun
  <2>2. ASSUME NEW d \in Clis, cli'[d].pc = "connected"
        PROVE  cli'[d].runs = 0 /\ cli'[d].answer = "none"
    BY <1>3, <1>4, <2>2 DEF Once, NotYetRun
  <2> QED
    BY <2>1, <2>2 DEF NotYetRun
<1>6. AnswersAreTrue'
  <2> SUFFICES ASSUME NEW d \in Clis
               PROVE  cli'[d].runs <= 1 /\ (cli'[d].answer = "ok" => cli'[d].runs = 1)
    BY DEF AnswersAreTrue
  <2>1. CASE d = c
    BY <1>3, <2>1
  <2>2. CASE d # c
    BY <1>4, <2>2 DEF Once, AnswersAreTrue
  <2> QED
    BY <2>1, <2>2
<1> QED
  BY <1>5, <1>6 DEF Once

\* The steps of a worker that are not of its queue: it is bound, attached, ends.
LEMMA WorkersUndisturbed ==
  ASSUME Typing, NEW w \in Workers,
         \/ SessionDetaches(w) \/ Bind(w) \/ BindFails(w)
         \/ GuardLoads(w) \/ AgentLoads(w) \/ ConnectRetries(w)
         \/ StartupFails(w) \/ BridgeReady(w) \/ BridgeFails(w)
         \/ ResidentEnds(w) \/ WorkerExits(w)
  PROVE  Undisturbed
<1> USE WorkerAssumption DEF Typing, WorkerStates, CliStates, Undisturbed,
      NoWorker, NoCli, Become, Move, InPhase, Hooked, Places
<1>1. CASE SessionDetaches(w)
  BY <1>1 DEF SessionDetaches
<1>2. CASE \/ Bind(w) \/ GuardLoads(w) \/ AgentLoads(w)
            \/ ConnectRetries(w) \/ BridgeReady(w) \/ BridgeFails(w)
  <2>1. CASE Bind(w)
    BY <2>1 DEF Bind
  <2>2. CASE GuardLoads(w)
    BY <2>2 DEF GuardLoads
  <2>5. CASE AgentLoads(w)
    BY <2>5 DEF AgentLoads
  <2>6. CASE ConnectRetries(w)
    BY <2>6 DEF ConnectRetries
  <2>3. CASE BridgeReady(w)
    BY <2>3 DEF BridgeReady
  <2>4. CASE BridgeFails(w)
    BY <2>4 DEF BridgeFails
  <2> QED
    BY <1>2, <2>1, <2>2, <2>3, <2>4, <2>5, <2>6
<1>3. CASE BindFails(w) \/ StartupFails(w) \/ ResidentEnds(w)
  <2>1. CASE BindFails(w)
    BY <2>1 DEF BindFails
  <2>2. CASE StartupFails(w)
    BY <2>2 DEF StartupFails
  <2>3. CASE ResidentEnds(w)
    BY <2>3 DEF ResidentEnds
  <2> QED
    BY <1>3, <2>1, <2>2, <2>3
<1>4. CASE WorkerExits(w)
  BY <1>4 DEF WorkerExits
<1> QED
  BY <1>1, <1>2, <1>3, <1>4

\* The steps of a command before its request is queued, and after.
LEMMA CommandsUndisturbed ==
  ASSUME Typing, NEW c \in Clis,
         \/ StartCli(c) \/ PingAnswered(c) \/ PingLost(c) \/ CheckProcess(c)
         \/ Connect(c) \/ CliFails(c) \/ CliTimesOut(c) \/ CliEnds(c)
         \/ CliForgotten(c)
  PROVE  Undisturbed
<1> USE WorkerAssumption DEF Typing, WorkerStates, CliStates, Undisturbed,
      NoWorker, NoCli, Become, Move, InPhase, Hooked, Places
<1>1. CASE StartCli(c)
  BY <1>1 DEF StartCli
<1>2. CASE PingAnswered(c) \/ CheckProcess(c)
  <2>1. CASE PingAnswered(c)
    BY <2>1 DEF PingAnswered
  <2>2. CASE CheckProcess(c)
    BY <2>2 DEF CheckProcess
  <2> QED
    BY <1>2, <2>1, <2>2
<1>3. CASE PingLost(c)
  BY <1>3 DEF PingLost
<1>4. CASE Connect(c)
  BY <1>4 DEF Connect
<1>5. CASE CliFails(c)
  BY <1>5 DEF CliFails
<1>6. CASE CliTimesOut(c) \/ CliEnds(c)
  <2>1. CASE CliTimesOut(c)
    BY <2>1 DEF CliTimesOut
  <2>2. CASE CliEnds(c)
    BY <2>2 DEF CliEnds
  <2> QED
    BY <1>6, <2>1, <2>2
<1>7. CASE CliForgotten(c)
  BY <1>7 DEF CliForgotten
<1> QED
  BY <1>1, <1>2, <1>3, <1>4, <1>5, <1>6, <1>7

\* Every step leaves a request in one place, and runs it when it leaves there.
LEMMA OnceStep ==
  ASSUME Typing, Connected, Once, [Next]_vars
  PROVE  Once'
<1> USE WorkerAssumption
<1>1. ASSUME NEW w \in Workers, ServeEnds(w) PROVE Once'
  <2>1. /\ worker[w].phase = "serving" /\ worker'[w].phase = "closing"
        /\ worker'[w].requests = Append(worker[w].requests, None)
        /\ worker'[w].running = worker[w].running
        /\ \A v \in Workers \ {w} : worker'[v] = worker[v]
        /\ cli' = cli
    BY <1>1 DEF ServeEnds, Typing, WorkerStates, InPhase
  <2>2. ~Queued(w, None)
    BY <2>1 DEF Once, OnePlace, InPhase
  <2>3. /\ \A q \in Clis \cup {None} : Queued(w, q)' <=> Queued(w, q) \/ q = None
        /\ \A i, j \in DOMAIN worker'[w].requests :
             worker'[w].requests[i] = worker'[w].requests[j] => i = j
    BY <2>1, <2>2, AppendedAt
  <2>4. \A v \in Workers \ {w} : \A q \in Clis \cup {None} : Queued(v, q)' <=> Queued(v, q)
    BY <2>1 DEF Queued
  <2>5. \A v \in Workers, c \in Clis : Holds(v, c)' <=> Holds(v, c)
    BY <2>1, <2>3, <2>4 DEF Holds
  <2>6. OnePlace'
    <3>1. \A u, v \in Workers, c \in Clis : Holds(u, c)' /\ Holds(v, c)' => u = v
      BY <2>5 DEF Once, OnePlace
    <3>2. \A v \in Workers, c \in Clis : ~(worker'[v].running = c /\ Queued(v, c)')
      BY <2>1, <2>3, <2>4 DEF Once, OnePlace
    <3>3. \A v \in Workers : \A i, j \in DOMAIN worker'[v].requests :
            worker'[v].requests[i] = worker'[v].requests[j] => i = j
      BY <2>1, <2>3 DEF Once, OnePlace
    <3>4. \A v \in Workers : Queued(v, None)' => worker'[v].phase = "closing"
      BY <2>1, <2>4 DEF Once, OnePlace, InPhase
    <3> QED
      BY <3>1, <3>2, <3>3, <3>4 DEF OnePlace, InPhase
  <2>7. NotYetRun'
    BY <2>1, <2>5 DEF Once, NotYetRun
  <2>8. AnswersAreTrue'
    BY <2>1 DEF Once, AnswersAreTrue
  <2> QED
    BY <2>6, <2>7, <2>8 DEF Once
<1>2. ASSUME NEW c \in Clis, Enqueue(c) PROVE Once'
  <2>w. PICK w \in Workers : w = cli[c].at
    BY <1>2 DEF Enqueue, Connected
  <2>1. cli[c].pc = "connected"
    BY <1>2 DEF Enqueue
  <2>2. /\ worker'[w].requests = Append(worker[w].requests, c)
        /\ worker'[w].running = worker[w].running
        /\ worker'[w].phase = worker[w].phase
        /\ \A v \in Workers \ {w} : worker'[v] = worker[v]
    BY <1>2, <2>w DEF Enqueue, Typing, WorkerStates
  <2>3. /\ cli'[c].pc = "waiting" /\ cli'[c].runs = cli[c].runs
        /\ cli'[c].answer = cli[c].answer
        /\ \A d \in Clis \ {c} : cli'[d] = cli[d]
    BY <1>2 DEF Enqueue, Move, Typing, CliStates
  <2>4. cli[c].runs = 0 /\ cli[c].answer = "none"
    BY <2>1 DEF Once, NotYetRun
  <2>5. \A v \in Workers : ~Holds(v, c)
    BY <2>1 DEF Once, NotYetRun
  <2>6. /\ \A q \in Clis \cup {None} : Queued(w, q)' <=> Queued(w, q) \/ q = c
        /\ \A i, j \in DOMAIN worker'[w].requests :
             worker'[w].requests[i] = worker'[w].requests[j] => i = j
    BY <2>1, <2>2, <2>5, AppendedAt DEF Holds
  <2>7. \A v \in Workers \ {w} : \A q \in Clis \cup {None} : Queued(v, q)' <=> Queued(v, q)
    BY <2>2 DEF Queued
  <2>8. \A v \in Workers, d \in Clis :
          Holds(v, d)' <=> Holds(v, d) \/ (v = w /\ d = c)
    BY <2>1, <2>2, <2>6, <2>7 DEF Holds
  <2>9. OnePlace'
    <3>1. \A u, v \in Workers, d \in Clis : Holds(u, d)' /\ Holds(v, d)' => u = v
      BY <2>5, <2>8 DEF Once, OnePlace
    <3>2. \A v \in Workers, d \in Clis : ~(worker'[v].running = d /\ Queued(v, d)')
      BY <2>1, <2>2, <2>5, <2>6, <2>7 DEF Once, OnePlace, Holds
    <3>3. \A v \in Workers : \A i, j \in DOMAIN worker'[v].requests :
            worker'[v].requests[i] = worker'[v].requests[j] => i = j
      BY <2>2, <2>6 DEF Once, OnePlace
    <3>4. \A v \in Workers : Queued(v, None)' => worker'[v].phase = "closing"
      BY <2>1, <2>2, <2>6, <2>7 DEF Once, OnePlace, InPhase
    <3> QED
      BY <3>1, <3>2, <3>3, <3>4 DEF OnePlace, InPhase
  <2>10. NotYetRun'
    BY <2>3, <2>4, <2>8 DEF Once, NotYetRun
  <2>11. AnswersAreTrue'
    BY <2>3, <2>4 DEF Once, AnswersAreTrue
  <2> QED
    BY <2>9, <2>10, <2>11 DEF Once
<1>3. ASSUME NEW w \in Workers, TakeRequest(w) \/ RejectRequest(w) PROVE Once'
  <2>h. PICK r : r = Head(worker[w].requests)
    OBVIOUS
  <2>e. ExecutorFree(w)
    BY <1>3 DEF TakeRequest, RejectRequest
  <2>t. /\ worker'[w].requests = Tail(worker[w].requests)
        /\ worker'[w].phase = worker[w].phase
        /\ \A v \in Workers \ {w} : worker'[v] = worker[v]
    <3>1. CASE TakeRequest(w)
      BY <3>1 DEF TakeRequest, Typing, WorkerStates
    <3>2. CASE RejectRequest(w)
      BY <3>2 DEF RejectRequest, Typing, WorkerStates
    <3> QED
      BY <1>3, <3>1, <3>2
  <2>1. /\ worker[w].running = None /\ worker[w].requests # <<>> /\ r # None
        /\ worker'[w].requests = Tail(worker[w].requests)
        /\ worker'[w].phase = worker[w].phase
        /\ \A v \in Workers \ {w} : worker'[v] = worker[v]
    BY <2>h, <2>e, <2>t DEF ExecutorFree
  <2>2. /\ r \in Clis \cup {None} /\ Queued(w, r)
        /\ \A q \in Clis \cup {None} : Queued(w, q)' <=> Queued(w, q) /\ q # r
        /\ \A i, j \in DOMAIN worker'[w].requests :
             worker'[w].requests[i] = worker'[w].requests[j] => i = j
    BY <2>1, <2>h, TakenFrom
  <2>3. r \in Clis /\ Holds(w, r)
    BY <2>1, <2>2 DEF Holds
  <2>4. \A v \in Workers \ {w} : \A q \in Clis \cup {None} : Queued(v, q)' <=> Queued(v, q)
    BY <2>1 DEF Queued
  <2>5. \A v \in Workers : \A i, j \in DOMAIN worker'[v].requests :
          worker'[v].requests[i] = worker'[v].requests[j] => i = j
    BY <2>1, <2>2 DEF Once, OnePlace
  <2>6. \A v \in Workers : Queued(v, None)' => worker'[v].phase = "closing"
    BY <2>1, <2>2, <2>4 DEF Once, OnePlace, InPhase
  <2>7. \A v \in Workers, d \in Clis : Holds(v, d)' => Holds(v, d)
    <3>1. worker'[w].running \in {None, r}
      BY <1>3, <2>1, <2>h DEF TakeRequest, RejectRequest, Typing, WorkerStates
    <3> QED
      BY <2>1, <2>2, <2>3, <2>4, <3>1 DEF Holds
  <2>8. \A u, v \in Workers, d \in Clis : Holds(u, d)' /\ Holds(v, d)' => u = v
    BY <2>7 DEF Once, OnePlace
  <2>9. \A v \in Workers, d \in Clis : ~(worker'[v].running = d /\ Queued(v, d)')
    <3>1. worker'[w].running \in {None, r}
      BY <1>3, <2>1, <2>h DEF TakeRequest, RejectRequest, Typing, WorkerStates
    <3> QED
      BY <2>1, <2>2, <2>4, <3>1 DEF Once, OnePlace
  <2>10. OnePlace'
    BY <2>5, <2>6, <2>8, <2>9 DEF OnePlace, InPhase
  <2>11. CASE TakeRequest(w)
    <3>1. cli' = cli
      BY <2>11 DEF TakeRequest
    <3>2. NotYetRun'
      BY <2>7, <3>1 DEF Once, NotYetRun
    <3>3. AnswersAreTrue'
      BY <3>1 DEF Once, AnswersAreTrue
    <3> QED
      BY <2>10, <3>2, <3>3 DEF Once
  <2>12. CASE RejectRequest(w)
    <3>1. cli' = [cli EXCEPT ![r] = Answered(r, "error", 0)]
      BY <2>12, <2>h DEF RejectRequest
    <3>2. worker'[w].running = None
      BY <2>1, <2>12 DEF RejectRequest, Typing, WorkerStates
    <3>3. \A v \in Workers : ~Holds(v, r)'
      BY <2>1, <2>2, <2>3, <2>7, <3>2 DEF Once, OnePlace, Holds
    <3> QED
      BY <2>3, <2>7, <2>10, <3>1, <3>3, AnsweredOnce
  <2> QED
    BY <1>3, <2>11, <2>12
<1>4. ASSUME NEW w \in Workers, RequestReturns(w) PROVE Once'
  <2>h. PICK r \in Clis : r = worker[w].running
    BY <1>4 DEF RequestReturns, Typing, WorkerStates
  <2>1. /\ worker'[w].running = None
        /\ worker'[w].requests = worker[w].requests
        /\ worker'[w].phase = worker[w].phase
        /\ \A v \in Workers \ {w} : worker'[v] = worker[v]
    BY <1>4 DEF RequestReturns, Typing, WorkerStates
  <2>2. PICK outcome \in Outcomes(w) :
          cli' = [cli EXCEPT ![r] = Answered(r, outcome[1], outcome[2])]
    BY <1>4, <2>h DEF RequestReturns
  <2>3. /\ outcome[1] \in {"ok", "fault", "error"} /\ outcome[2] \in {0, 1}
        /\ outcome[1] = "ok" => outcome[2] = 1
    BY <2>2 DEF Outcomes
  <2>4. Holds(w, r)
    BY <2>h DEF Holds
  <2>5. \A v \in Workers : \A q \in Clis \cup {None} : Queued(v, q)' <=> Queued(v, q)
    BY <2>1 DEF Queued
  <2>6. \A v \in Workers, d \in Clis : Holds(v, d)' => Holds(v, d)
    BY <2>1, <2>5 DEF Holds
  <2>7. OnePlace'
    <3>1. \A u, v \in Workers, d \in Clis : Holds(u, d)' /\ Holds(v, d)' => u = v
      BY <2>6 DEF Once, OnePlace
    <3>2. \A v \in Workers, d \in Clis : ~(worker'[v].running = d /\ Queued(v, d)')
      BY <2>1, <2>5 DEF Once, OnePlace
    <3>3. \A v \in Workers : \A i, j \in DOMAIN worker'[v].requests :
            worker'[v].requests[i] = worker'[v].requests[j] => i = j
      BY <2>1 DEF Once, OnePlace
    <3>4. \A v \in Workers : Queued(v, None)' => worker'[v].phase = "closing"
      BY <2>1, <2>5 DEF Once, OnePlace, InPhase
    <3> QED
      BY <3>1, <3>2, <3>3, <3>4 DEF OnePlace, InPhase
  <2>8. \A v \in Workers : ~Holds(v, r)'
    <3>1. ~Queued(w, r)
      BY <2>h DEF Once, OnePlace
    <3> QED
      BY <2>1, <2>4, <2>5, <2>6, <3>1 DEF Once, OnePlace, Holds
  <2> QED
    BY <2>1, <2>2, <2>3, <2>4, <2>6, <2>7, <2>8, AnsweredOnce
<1>5. CASE UNCHANGED vars \/ GameRestarts
  <2>1. Undisturbed
    BY <1>5 DEF Undisturbed, vars, GameRestarts, InPhase
  <2> QED
    BY <2>1, UndisturbedKeepsOnce
<1>6. ASSUME NEW w \in Workers,
             \/ SessionDetaches(w) \/ Bind(w) \/ BindFails(w)
             \/ GuardLoads(w) \/ AgentLoads(w) \/ ConnectRetries(w)
             \/ StartupFails(w) \/ BridgeReady(w) \/ BridgeFails(w)
             \/ ResidentEnds(w) \/ WorkerExits(w)
      PROVE  Once'
  <2>1. Undisturbed
    BY <1>6, WorkersUndisturbed
  <2> QED
    BY <2>1, UndisturbedKeepsOnce
<1>7. ASSUME NEW c \in Clis,
             \/ StartCli(c) \/ PingAnswered(c) \/ PingLost(c) \/ CheckProcess(c)
             \/ Connect(c) \/ CliFails(c) \/ CliTimesOut(c) \/ CliEnds(c)
             \/ CliForgotten(c)
      PROVE  Once'
  <2>1. Undisturbed
    BY <1>7, CommandsUndisturbed
  <2> QED
    BY <2>1, UndisturbedKeepsOnce
<1> QED
  BY <1>1, <1>2, <1>3, <1>4, <1>5, <1>6, <1>7 DEF Next, WorkerStep, CliStep

-----------------------------------------------------------------------------
(* No request is lost.                                                      *)

\* A step that lets no command start to wait, and that leaves alone every
\* worker a command still waits for, loses no request.
LEMMA WaitedFor ==
  ASSUME InHand,
         \A c \in Clis : cli'[c].pc = "waiting" =>
           /\ cli[c].pc = "waiting" /\ cli'[c].at = cli[c].at
           /\ worker'[cli[c].at].requests = worker[cli[c].at].requests
           /\ worker'[cli[c].at].running = worker[cli[c].at].running
  PROVE  InHand'
<1> SUFFICES ASSUME NEW c \in Clis, cli'[c].pc = "waiting"
             PROVE  Holds(cli[c].at, c)'
  BY DEF InHand
<1>1. Holds(cli[c].at, c) /\ cli'[c].at = cli[c].at
  BY DEF InHand
<1>2. QED
  BY <1>1 DEF Holds, Queued

\* Workers that come and go: none of them is one a command waits for, or its
\* connections break with it.
LEMMA WorkersKeepInHand ==
  ASSUME Typing, Connected, InHand, NEW w \in Workers,
         \/ SessionDetaches(w) \/ Bind(w) \/ BindFails(w)
         \/ GuardLoads(w) \/ AgentLoads(w) \/ ConnectRetries(w)
         \/ StartupFails(w) \/ BridgeReady(w) \/ BridgeFails(w)
         \/ ResidentEnds(w) \/ WorkerExits(w)
  PROVE  InHand'
<1> DEFINE Kept == \A c \in Clis : cli'[c].pc = "waiting" =>
             /\ cli[c].pc = "waiting" /\ cli'[c].at = cli[c].at
             /\ worker'[cli[c].at].requests = worker[cli[c].at].requests
             /\ worker'[cli[c].at].running = worker[cli[c].at].running
<1> USE DEF Typing, WorkerStates, CliStates, Connected, InPhase, Hooked,
      Become
<1>1. CASE SessionDetaches(w)
  BY <1>1, WaitedFor DEF SessionDetaches
<1>2. CASE Bind(w)
  BY <1>2, WaitedFor DEF Bind
<1>3. CASE BindFails(w)
  <2>1. Kept
    BY <1>3 DEF BindFails
  <2> QED
    BY <2>1, WaitedFor
<1>4. CASE GuardLoads(w) \/ AgentLoads(w) \/ ConnectRetries(w)
  <2>1. CASE GuardLoads(w)
    BY <2>1, WaitedFor DEF GuardLoads
  <2>2. CASE AgentLoads(w)
    BY <2>2, WaitedFor DEF AgentLoads
  <2>3. CASE ConnectRetries(w)
    BY <2>3, WaitedFor DEF ConnectRetries
  <2> QED
    BY <1>4, <2>1, <2>2, <2>3
<1>5. CASE StartupFails(w)
  <2>1. Kept
    BY <1>5 DEF StartupFails
  <2> QED
    BY <2>1, WaitedFor
<1>6. CASE BridgeReady(w)
  BY <1>6, WaitedFor DEF BridgeReady
<1>7. CASE BridgeFails(w)
  BY <1>7, WaitedFor DEF BridgeFails
<1>8. CASE ResidentEnds(w)
  <2>1. Kept
    BY <1>8 DEF ResidentEnds
  <2> QED
    BY <2>1, WaitedFor
<1>9. CASE WorkerExits(w)
  <2>1. Kept
    BY <1>9 DEF WorkerExits
  <2> QED
    BY <2>1, WaitedFor
<1> QED
  BY <1>1, <1>2, <1>3, <1>4, <1>5, <1>6, <1>7, <1>8, <1>9

\* Commands on their way to a request, and those that give up one.
LEMMA CommandsKeepInHand ==
  ASSUME Typing, Connected, InHand, NEW c \in Clis,
         \/ StartCli(c) \/ PingAnswered(c) \/ PingLost(c) \/ CheckProcess(c)
         \/ Connect(c) \/ CliFails(c) \/ CliTimesOut(c) \/ CliEnds(c)
         \/ CliForgotten(c)
  PROVE  InHand'
<1> USE DEF Typing, WorkerStates, CliStates, Connected, InPhase, Move, NoCli
<1>1. CASE PingLost(c)
  <2>1. /\ \A d \in Clis : cli'[d].pc = "waiting" =>
             cli[d].pc = "waiting" /\ cli'[d].at = cli[d].at
    BY <1>1 DEF PingLost
  <2>2. PICK w \in Workers : worker[w].phase = "none"
                             /\ \A v \in Workers \ {w} : worker'[v] = worker[v]
    BY <1>1 DEF PingLost
  <2>3. \A d \in Clis : cli[d].pc = "waiting" => cli[d].at \in Workers \ {w}
    BY <2>2
  <2> QED
    BY <2>1, <2>2, <2>3, WaitedFor
<1>2. CASE StartCli(c) \/ CliForgotten(c) \/ Connect(c)
  <2>1. /\ worker' = worker
        /\ \A d \in Clis : cli'[d].pc = "waiting" => d # c /\ cli'[d] = cli[d]
    <3>1. CASE StartCli(c)
      BY <3>1 DEF StartCli
    <3>2. CASE CliForgotten(c)
      BY <3>2 DEF CliForgotten
    <3>3. CASE Connect(c)
      BY <3>3 DEF Connect
    <3> QED
      BY <1>2, <3>1, <3>2, <3>3
  <2> QED
    BY <2>1, WaitedFor
<1>3. CASE \/ PingAnswered(c) \/ CheckProcess(c) \/ CliFails(c)
           \/ CliTimesOut(c) \/ CliEnds(c)
  <2>1. worker' = worker /\ \E place \in {"ping", "ready", "checked", "over"} :
          Move(c, place)
    BY <1>3 DEF PingAnswered, CheckProcess, CliFails, CliTimesOut, CliEnds
  <2>2. \A d \in Clis : cli'[d].pc = "waiting" => d # c /\ cli'[d] = cli[d]
    BY <2>1
  <2> QED
    BY <2>1, <2>2, WaitedFor
<1> QED
  BY <1>1, <1>2, <1>3

\* A command that is answered does not wait any more, and no other is moved.
LEMMA AnsweredKeepsInHand ==
  ASSUME Typing, InHand, NEW r \in Clis,
         NEW answer \in {"ok", "fault", "error"}, NEW runs \in Nat,
         cli' = [cli EXCEPT ![r] = Answered(r, answer, runs)],
         \A v \in Workers, d \in Clis \ {r} : Holds(v, d) => Holds(v, d)',
         Connected
  PROVE  InHand'
<1> SUFFICES ASSUME NEW d \in Clis, cli'[d].pc = "waiting"
             PROVE  Holds(cli[d].at, d)' /\ cli'[d].at = cli[d].at
  BY DEF InHand, Holds, Queued
<1>1. d # r
  <2> SUFFICES ASSUME d = r PROVE FALSE
    OBVIOUS
  <2>1. cli'[r].pc = Answered(r, answer, runs).pc
    BY DEF Typing
  <2>2. cli[r] \in CliStates
    BY DEF Typing
  <2>3. Answered(r, answer, runs).pc # "waiting"
    BY <2>2 DEF Answered, CliStates
  <2> QED
    BY <2>1, <2>3
<1>2. cli'[d] = cli[d]
  BY <1>1 DEF Typing
<1>3. Holds(cli[d].at, d) /\ cli[d].at \in Workers
  BY <1>2 DEF InHand, Connected
<1>4. Holds(cli[d].at, d)'
  BY <1>1, <1>2, <1>3 DEF Holds, Queued
<1> QED
  BY <1>2, <1>4

\* Queued, taken, run and answered, or queued too late: a request that is
\* waited for stays with its worker.
LEMMA InHandStep ==
  ASSUME Typing, Connected, Once, InHand, [Next]_vars
  PROVE  InHand'
<1> USE WorkerAssumption
<1>1. ASSUME NEW w \in Workers, ServeEnds(w) PROVE InHand'
  <2>1. /\ worker[w].phase = "serving"
        /\ worker'[w].requests = Append(worker[w].requests, None)
        /\ worker'[w].running = worker[w].running
        /\ \A v \in Workers \ {w} : worker'[v] = worker[v]
        /\ cli' = cli
    BY <1>1 DEF ServeEnds, Typing, WorkerStates, InPhase
  <2>2. ~Queued(w, None)
    BY <2>1 DEF Once, OnePlace, InPhase
  <2>3. \A q \in Clis \cup {None} : Queued(w, q) => Queued(w, q)'
    BY <2>1, <2>2, AppendedAt
  <2>4. \A v \in Workers, c \in Clis : Holds(v, c) => Holds(v, c)'
    BY <2>1, <2>3 DEF Holds, Queued
  <2>5. \A c \in Clis : cli'[c].pc = "waiting" =>
          cli[c].at \in Workers /\ cli'[c].at = cli[c].at /\ Holds(cli[c].at, c)
    BY <2>1 DEF Connected, InHand
  <2> QED
    BY <2>1, <2>4, <2>5 DEF InHand, Holds, Queued
<1>2. ASSUME NEW c \in Clis, Enqueue(c) PROVE InHand'
  <2>w. PICK w \in Workers : w = cli[c].at
    BY <1>2 DEF Enqueue, Connected
  <2>1. cli[c].pc = "connected"
    BY <1>2 DEF Enqueue
  <2>2. /\ worker'[w].requests = Append(worker[w].requests, c)
        /\ worker'[w].running = worker[w].running
        /\ \A v \in Workers \ {w} : worker'[v] = worker[v]
    BY <1>2, <2>w DEF Enqueue, Typing, WorkerStates
  <2>3. /\ cli'[c].at = w
        /\ \A d \in Clis \ {c} : cli'[d] = cli[d]
    BY <1>2, <2>w DEF Enqueue, Move, Typing, CliStates
  <2>4. ~Queued(w, c)
    BY <2>1 DEF Once, NotYetRun, Holds
  <2>5. \A q \in Clis \cup {None} : Queued(w, q)' <=> Queued(w, q) \/ q = c
    BY <2>2, <2>4, AppendedAt
  <2>6. \A v \in Workers, d \in Clis : Holds(v, d) => Holds(v, d)'
    BY <2>2, <2>5 DEF Holds, Queued
  <2> SUFFICES ASSUME NEW d \in Clis, cli'[d].pc = "waiting"
               PROVE  Holds(cli[d].at, d)'
    BY DEF InHand
  <2>7. CASE d = c
    BY <2>3, <2>5, <2>7 DEF Holds, Queued
  <2>8. CASE d # c
    <3>1. cli[d].at \in Workers /\ Holds(cli[d].at, d)
      BY <2>3, <2>8 DEF Connected, InHand
    <3>2. PICK v \in Workers : v = cli[d].at
      BY <3>1
    <3>3. Holds(v, d)' /\ cli'[d].at = v
      BY <2>3, <2>6, <2>8, <3>1, <3>2
    <3> QED
      BY <3>3 DEF Holds, Queued
  <2> QED
    BY <2>7, <2>8
<1>3. ASSUME NEW w \in Workers, TakeRequest(w) \/ RejectRequest(w) PROVE InHand'
  <2>h. PICK r : r = Head(worker[w].requests)
    OBVIOUS
  <2>1. /\ worker[w].running = None /\ worker[w].requests # <<>> /\ r # None
    BY <1>3, <2>h DEF TakeRequest, RejectRequest, ExecutorFree
  <2>2. /\ worker'[w].requests = Tail(worker[w].requests)
        /\ \A v \in Workers \ {w} : worker'[v] = worker[v]
    <3>1. CASE TakeRequest(w)
      BY <3>1 DEF TakeRequest, Typing, WorkerStates
    <3>2. CASE RejectRequest(w)
      BY <3>2 DEF RejectRequest, Typing, WorkerStates
    <3> QED
      BY <1>3, <3>1, <3>2
  <2>3. /\ r \in Clis /\ Queued(w, r)
        /\ \A q \in Clis \cup {None} : Queued(w, q)' <=> Queued(w, q) /\ q # r
    BY <2>1, <2>2, <2>h, TakenFrom
  <2>4. \A v \in Workers, d \in Clis \ {r} : Holds(v, d) => Holds(v, d)'
    <3>1. \A d \in Clis : worker[w].running # d
      BY <2>1
    <3> QED
      BY <2>2, <2>3, <3>1 DEF Holds, Queued
  <2>5. CASE RejectRequest(w)
    <3>1. cli' = [cli EXCEPT ![r] = Answered(r, "error", 0)]
      BY <2>5, <2>h DEF RejectRequest
    <3> QED
      BY <2>3, <2>4, <3>1, AnsweredKeepsInHand
  <2>6. CASE TakeRequest(w)
    <3>1. cli' = cli /\ worker'[w].running = r
      BY <2>6, <2>h DEF TakeRequest, Typing, WorkerStates
    <3> SUFFICES ASSUME NEW d \in Clis, cli'[d].pc = "waiting"
                 PROVE  Holds(cli[d].at, d)'
      BY DEF InHand
    <3>2. PICK v \in Workers : v = cli[d].at
      BY <3>1 DEF Connected
    <3>3. Holds(v, d)
      BY <3>1, <3>2 DEF InHand
    <3>4. CASE d = r
      <4>1. v = w
        BY <2>3, <3>3, <3>4 DEF Once, OnePlace, Holds
      <4> QED
        BY <3>1, <3>2, <3>4, <4>1 DEF Holds
    <3>5. CASE d # r
      BY <2>4, <3>1, <3>2, <3>3, <3>5 DEF Holds, Queued
    <3> QED
      BY <3>4, <3>5
  <2> QED
    BY <1>3, <2>5, <2>6
<1>4. ASSUME NEW w \in Workers, RequestReturns(w) PROVE InHand'
  <2>h. PICK r \in Clis : r = worker[w].running
    BY <1>4 DEF RequestReturns, Typing, WorkerStates
  <2>1. /\ worker'[w].requests = worker[w].requests
        /\ \A v \in Workers \ {w} : worker'[v] = worker[v]
    BY <1>4 DEF RequestReturns, Typing, WorkerStates
  <2>2. PICK outcome \in Outcomes(w) :
          cli' = [cli EXCEPT ![r] = Answered(r, outcome[1], outcome[2])]
    BY <1>4, <2>h DEF RequestReturns
  <2>3. outcome[1] \in {"ok", "fault", "error"} /\ outcome[2] \in Nat
    BY <2>2 DEF Outcomes
  <2>4. \A v \in Workers, d \in Clis \ {r} : Holds(v, d) => Holds(v, d)'
    BY <2>1, <2>h DEF Holds, Queued
  <2> QED
    BY <2>2, <2>3, <2>4, AnsweredKeepsInHand
<1>5. CASE UNCHANGED vars \/ GameRestarts
  BY <1>5 DEF vars, GameRestarts, InHand, Holds, Queued
<1>6. ASSUME NEW w \in Workers,
             \/ SessionDetaches(w) \/ Bind(w) \/ BindFails(w)
             \/ GuardLoads(w) \/ AgentLoads(w) \/ ConnectRetries(w)
             \/ StartupFails(w) \/ BridgeReady(w) \/ BridgeFails(w)
             \/ ResidentEnds(w) \/ WorkerExits(w)
      PROVE  InHand'
  BY <1>6, WorkersKeepInHand
<1>7. ASSUME NEW c \in Clis,
             \/ StartCli(c) \/ PingAnswered(c) \/ PingLost(c) \/ CheckProcess(c)
             \/ Connect(c) \/ CliFails(c) \/ CliTimesOut(c) \/ CliEnds(c)
             \/ CliForgotten(c)
      PROVE  InHand'
  BY <1>7, CommandsKeepInHand
<1> QED
  BY <1>1, <1>2, <1>3, <1>4, <1>5, <1>6, <1>7 DEF Next, WorkerStep, CliStep

-----------------------------------------------------------------------------
\* Init establishes every part.
LEMMA InitInv == Init => WorkerInv
<1> SUFFICES ASSUME Init PROVE WorkerInv
  OBVIOUS
<1>1. Typing
  <2>1. game \in 1..MaxGames
    BY WorkerAssumption DEF Init
  <2>2. worker \in [Workers -> WorkerStates]
    BY NoWorkerTyped DEF Init
  <2>3. cli \in [Clis -> CliStates]
    BY NoCliTyped DEF Init
  <2>4. QED
    BY <2>1, <2>2, <2>3 DEF Init, Typing
<1>2. PidsKnown
  BY DEF Init, PidsKnown, NoWorker, NoCli
<1>3. PortHeld
  BY WorkerAssumption DEF Init, PortHeld, InPhase, NoWorker
<1>4. ClosingIsGone
  BY DEF Init, ClosingIsGone, InPhase, NoWorker
<1>5. Connected
  BY DEF Init, Connected, NoCli
<1>6. HeldForItsGame
  BY DEF Init, HeldForItsGame, NoWorker
<1>7. Once
  BY WorkerAssumption DEF Init, Once, OnePlace, NotYetRun, Holds, Queued,
    AnswersAreTrue, NoWorker, NoCli
<1>8. InHand
  BY DEF Init, InHand, NoCli
<1>9. QED
  BY <1>1, <1>2, <1>3, <1>4, <1>5, <1>6, <1>7, <1>8 DEF WorkerInv

\* The inductive invariant holds of every behaviour of commands and workers.
THEOREM WorkerInvariance == Spec => []WorkerInv
<1>1. WorkerInv /\ [Next]_vars => WorkerInv'
  BY TypingStep, PidsStep, PortStep, ClosingStep, ConnectedStep, HeldStep,
    OnceStep, InHandStep
  DEF WorkerInv
<1>2. QED
  BY InitInv, <1>1, PTL DEF Spec

\* Two workers never serve one live game process: its commands, however
\* many, share one session (_WorkerServer.serve).
THEOREM OneServerPerGame == Spec => []OneServer
<1>1. WorkerInv => OneServer
  BY DEF WorkerInv, PortHeld, ClosingIsGone, OneServer, InPhase
<1>2. QED
  BY WorkerInvariance, <1>1, PTL

\* A queued request is executed only in the game process its command looked
\* up before it connected (_handle_connection, _execute_requests).
THEOREM RequestsRunInTheirGame == Spec => []RunsInItsGame
<1>1. WorkerInv => RunsInItsGame
  BY DEF WorkerInv, HeldForItsGame, RunsInItsGame
<1>2. QED
  BY WorkerInvariance, <1>1, PTL

\* A request that is answered has run, and none runs twice: not on a retry of
\* its command, nor after its command gave up (_execute_requests).
THEOREM AnswersTrue == Spec => []AnswersAreTrue
<1>1. WorkerInv => AnswersAreTrue
  BY DEF WorkerInv, Once
<1>2. QED
  BY WorkerInvariance, <1>1, PTL

\* A queue without repetitions is no longer than what there is to queue.
LEMMA QueueBounded ==
  ASSUME Typing, Once, NEW w \in Workers
  PROVE  Len(worker[w].requests) <= Cardinality(Clis) + 1
<1> DEFINE s == worker[w].requests
<1>1. s \in Seq(Clis \cup {None}) /\ Len(s) \in Nat
  BY DEF Typing, WorkerStates
<1>2. s \in [1..Len(s) -> Clis \cup {None}]
  BY <1>1
<1>3. \A i, j \in 1..Len(s) : s[i] = s[j] => i = j
  BY <1>2 DEF Once, OnePlace
<1>4. /\ IsFiniteSet(Clis \cup {None})
      /\ Cardinality(Clis \cup {None}) = Cardinality(Clis) + 1
      /\ Cardinality(Clis) \in Nat
  BY WorkerAssumption, FS_AddElement, FS_CardinalityType
<1>5. IsFiniteSet(1..Len(s)) /\ Cardinality(1..Len(s)) = Len(s)
  BY <1>1, FS_Interval
<1> HIDE DEF s
<1>6. ~(Cardinality(1..Len(s)) > Cardinality(Clis \cup {None}))
  BY <1>2, <1>3, <1>4, <1>5, FS_PigeonHole
<1>7. Len(s) <= Cardinality(Clis) + 1
  BY <1>1, <1>4, <1>5, <1>6
<1> QED
  BY <1>7 DEF s

\* The worker's queue, which the code does not bound, is bounded by the
\* commands that exist, whatever they retry and however often.
THEOREM WorkerTypes == Spec => []TypeOK
<1>1. WorkerInv => TypeOK
  BY QueueBounded DEF WorkerInv, TypeOK
<1>2. QED
  BY WorkerInvariance, <1>1, PTL

\* A worker takes its hooks out of the game by ResidentEnds, by WorkerExits
\* after its serve loop ended, or while it connects.
LEMMA HooksStep ==
  ASSUME Typing, Connected, ClosingIsGone, [Next]_vars
  PROVE  \A v \in Workers : Hooked(v) /\ ~Hooked(v)' /\ ~ProcessGone(v) =>
           InPhase(v, {"guarded"})
<1> DEFINE Kept == \A v \in Workers :
             Hooked(v) /\ ~Hooked(v)' /\ ~ProcessGone(v) =>
               InPhase(v, {"guarded"})
<1> USE WorkerAssumption DEF Typing, WorkerStates, CliStates, Connected,
      ClosingIsGone, NoWorker, NoCli, Become, Move, InPhase, Hooked,
      ProcessGone, Listening, PingAnswers, ExecutorFree, Answered, Outcomes,
      Phases, Places
<1>1. CASE GameRestarts
  BY <1>1 DEF GameRestarts
<1>2. ASSUME NEW w \in Workers, SessionDetaches(w) PROVE Kept
  BY <1>2 DEF SessionDetaches
<1>3. ASSUME NEW w \in Workers, Bind(w) PROVE Kept
  BY <1>3 DEF Bind
<1>4. ASSUME NEW w \in Workers, BindFails(w) PROVE Kept
  BY <1>4 DEF BindFails
<1>5. ASSUME NEW w \in Workers,
             GuardLoads(w) \/ AgentLoads(w) \/ ConnectRetries(w)
      PROVE Kept
  <2>1. CASE GuardLoads(w)
    BY <2>1 DEF GuardLoads
  <2>2. CASE AgentLoads(w)
    BY <2>2 DEF AgentLoads
  <2>3. CASE ConnectRetries(w)
    BY <2>3 DEF ConnectRetries
  <2> QED
    BY <1>5, <2>1, <2>2, <2>3
<1>6. ASSUME NEW w \in Workers, StartupFails(w) PROVE Kept
  BY <1>6 DEF StartupFails
<1>7. ASSUME NEW w \in Workers, BridgeReady(w) PROVE Kept
  BY <1>7 DEF BridgeReady
<1>8. ASSUME NEW w \in Workers, BridgeFails(w) PROVE Kept
  BY <1>8 DEF BridgeFails
<1>9. ASSUME NEW w \in Workers, ResidentEnds(w) PROVE Kept
  BY <1>9 DEF ResidentEnds
<1>10. ASSUME NEW w \in Workers, ServeEnds(w) PROVE Kept
  BY <1>10 DEF ServeEnds
<1>11. ASSUME NEW w \in Workers, WorkerExits(w) PROVE Kept
  BY <1>11 DEF WorkerExits
<1>12. ASSUME NEW w \in Workers, TakeRequest(w) PROVE Kept
  BY <1>12 DEF TakeRequest
<1>13. ASSUME NEW w \in Workers, RejectRequest(w) PROVE Kept
  BY <1>13 DEF RejectRequest
<1>14. ASSUME NEW w \in Workers, RequestReturns(w) PROVE Kept
  BY <1>14 DEF RequestReturns
<1>15. ASSUME NEW c \in Clis, StartCli(c) PROVE Kept
  BY <1>15 DEF StartCli
<1>16. ASSUME NEW c \in Clis, PingAnswered(c) PROVE Kept
  BY <1>16 DEF PingAnswered
<1>17. ASSUME NEW c \in Clis, PingLost(c) PROVE Kept
  BY <1>17 DEF PingLost
<1>18. ASSUME NEW c \in Clis, CheckProcess(c) PROVE Kept
  BY <1>18 DEF CheckProcess
<1>19. ASSUME NEW c \in Clis, Connect(c) PROVE Kept
  BY <1>19 DEF Connect
<1>20. ASSUME NEW c \in Clis, CliFails(c) PROVE Kept
  BY <1>20 DEF CliFails
<1>21. ASSUME NEW c \in Clis, CliTimesOut(c) PROVE Kept
  BY <1>21 DEF CliTimesOut
<1>22. ASSUME NEW c \in Clis, CliEnds(c) PROVE Kept
  BY <1>22 DEF CliEnds
<1>23. ASSUME NEW c \in Clis, CliForgotten(c) PROVE Kept
  BY <1>23 DEF CliForgotten
<1>24. ASSUME NEW c \in Clis, Enqueue(c) PROVE Kept
  BY <1>24 DEF Enqueue
<1>25. CASE UNCHANGED vars
  BY <1>25 DEF vars
<1>26. QED
  BY <1>1, <1>2, <1>3, <1>4, <1>5, <1>6, <1>7, <1>8, <1>9, <1>10, <1>11,
     <1>12, <1>13, <1>14, <1>15, <1>16, <1>17, <1>18, <1>19, <1>20, <1>21,
         <1>22, <1>23, <1>24, <1>25
  DEF Next, WorkerStep, CliStep

\* run_worker unloads hooks only from a game that is gone or a session that is
\* lost, whichever way the worker ends, except for a guard whose agent is not
\* loaded yet: _connect_once unloads that one when the agent fails.
THEOREM HooksStay == Spec => HooksOutliveTheGame
<1>1. WorkerInv /\ [Next]_vars
        => [\A w \in Workers : Hooked(w) /\ ~Hooked(w)' /\ ~ProcessGone(w) =>
              InPhase(w, {"guarded"})]_vars
  BY HooksStep DEF WorkerInv
<1>2. QED
  BY WorkerInvariance, <1>1, PTL DEF Spec, HooksOutliveTheGame

\* Whatever a command waits for can still be answered: no request is taken out
\* of a queue without an answer, and none sits in a worker that serves but
\* whose executor has ended (_execute_requests, _handle_connection, serve).
THEOREM NoneStranded == Spec => []NoRequestIsStranded
<1>1. WorkerInv => NoRequestIsStranded
  <2> SUFFICES ASSUME WorkerInv, NEW c \in Clis, cli[c].pc = "waiting"
               PROVE  /\ Holds(cli[c].at, c)
                      /\ \/ InPhase(cli[c].at, {"closing"})
                         \/ /\ InPhase(cli[c].at, {"serving"})
                            /\ \/ worker[cli[c].at].running # None
                               \/ ExecutorFree(cli[c].at)
    BY DEF NoRequestIsStranded
  <2>w. PICK w \in Workers : w = cli[c].at
    BY DEF WorkerInv, Connected
  <2>1. Holds(w, c) /\ InPhase(w, {"serving", "closing"})
    BY <2>w DEF WorkerInv, InHand, Connected
  <2>2. ASSUME InPhase(w, {"serving"}), worker[w].running = None
        PROVE  ExecutorFree(w)
    <3>1. Queued(w, c)
      BY <2>1, <2>2, WorkerAssumption DEF Holds
    <3>2. worker[w].requests # <<>>
      BY <3>1 DEF Queued
    <3>3. Queued(w, Head(worker[w].requests))
      <4>1. worker[w].requests \in Seq(Clis \cup {None})
        BY DEF WorkerInv, Typing, WorkerStates
      <4>2. /\ 1 \in DOMAIN worker[w].requests
            /\ Head(worker[w].requests) = worker[w].requests[1]
        BY <3>2, <4>1
      <4> QED
        BY <4>2 DEF Queued
    <3>4. ~Queued(w, None)
      BY <2>2 DEF WorkerInv, Once, OnePlace, InPhase
    <3> QED
      BY <2>2, <3>2, <3>3, <3>4 DEF ExecutorFree, InPhase
  <2> QED
    BY <2>w, <2>1, <2>2 DEF InPhase
<1>2. QED
  BY WorkerInvariance, <1>1, PTL
=============================================================================
