----------------------------- MODULE FridaWorker -----------------------------
(***************************************************************************)
(* The persistent Frida worker of one device, and the CLI processes that   *)
(* execute Lua through it.                                                 *)
(*                                                                         *)
(* Every CLI process asks the worker on the device's port to execute its   *)
(* requests; one that finds no worker for its game process launches one.   *)
(* A worker binds the port, injects a session with native hooks into the   *)
(* game, and serves: a thread per connection puts requests in a queue and  *)
(* one executor runs them.  The hooks must not be unloaded while the game  *)
(* lives.                                                                  *)
(***************************************************************************)
EXTENDS Integers, Sequences, FiniteSets

CONSTANTS
  Clis,          \* CLI processes that may exist at one time
  Workers,       \* worker processes that may exist at one time
  None,          \* Python's None: no worker, no request, the queue's stop mark
  MaxGames,      \* how often the game is started, to bound runs
  MaxResidents   \* failed workers that may stay resident, to bound runs

ASSUME WorkerAssumption ==
  /\ IsFiniteSet(Clis) /\ None \notin Clis \cup Workers
  /\ MaxGames \in Nat \ {0}
  /\ MaxResidents \in Nat

VARIABLES
  game,     \* the PID of the game
  port,     \* the worker bound to worker_port, or None
  worker,   \* every worker process
  cli       \* every CLI process

vars == <<game, port, worker, cli>>

\* run_worker: from its launch to its exit ("none").
Phases == {"none", "launched", "bound", "guarded", "attached", "serving",
           "closing", "resident"}

\* retried: connect has had its one retry.
NoWorker == [phase |-> "none", pid |-> 1, detached |-> FALSE,
             retried |-> FALSE, requests |-> <<>>, running |-> None]

\* at is the worker the connection of an execute goes to; runs counts how
\* often the request it carries has taken effect in a game.
NoCli == [pc |-> "idle", pid |-> 1, at |-> None, answer |-> "none", runs |-> 0]

Places == {"idle", "ping", "starting", "ready", "checked", "connected",
           "waiting", "over"}

-----------------------------------------------------------------------------
(* Reading the state *)

InPhase(w, phases) == worker[w].phase \in phases

\* The Houdini guard is in the game.  native_hooks_installed only says so once
\* the agent is there too, from "attached" on.
Hooked(w) ==
  InPhase(w, {"guarded", "attached", "serving", "closing", "resident"})

ProcessGone_UnlessRestarted(w) == worker[w].detached

\* _process_alive, negated, with an ADB that answers.
ProcessGone(w) == worker[w].detached \/ worker[w].pid # game

\* A connection to the port is accepted by a worker that listens.
Listening == port # None /\ InPhase(port, {"serving"})

PingAnswers(c) == Listening /\ worker[port].pid = cli[c].pid

Outstanding(c) ==
  {w \in Workers : \/ worker[w].running = c
                   \/ \E i \in DOMAIN worker[w].requests :
                        worker[w].requests[i] = c}

Move(c, place) == cli' = [cli EXCEPT ![c].pc = place]

Become(w, phase) == worker' = [worker EXCEPT ![w].phase = phase]

-----------------------------------------------------------------------------
(* The device *)

GameRestarts ==
  /\ game < MaxGames
  /\ game' = game + 1
  /\ UNCHANGED <<port, worker, cli>>

\* Frida reports it when the game dies, and when its own server does.
SessionDetaches(w) ==
  /\ Hooked(w)
  /\ worker' = [worker EXCEPT ![w].detached = TRUE]
  /\ UNCHANGED <<game, port, cli>>

-----------------------------------------------------------------------------
(* PersistentFridaClient *)

\* The command resolved the game's PID through ADB before it made a client.
StartCli(c) ==
  /\ cli[c].pc = "idle"
  /\ cli' = [cli EXCEPT ![c] = [NoCli EXCEPT !.pc = "ping", !.pid = game]]
  /\ UNCHANGED <<game, port, worker>>

\* connect, initialize_bridge and cached_state_address each ping again.
PingAnswered(c) ==
  /\ cli[c].pc \in {"ping", "starting"}
  /\ PingAnswers(c)
  /\ \E place \in {"ping", "ready"} : Move(c, place)
  /\ UNCHANGED <<game, port, worker>>

\* No answer within a second, from a worker that is there or is not: launch.
PingLost(c) ==
  /\ cli[c].pc = "ping"
  /\ \E w \in Workers :
       /\ InPhase(w, {"none"})
       /\ worker' = [worker EXCEPT
                       ![w] = [NoWorker EXCEPT !.phase = "launched",
                                               !.pid = cli[c].pid]]
  /\ Move(c, "starting")
  /\ UNCHANGED <<game, port>>

\* _require_same_foreground_process, before every execute_lua.
CheckProcess(c) ==
  /\ cli[c].pc = "ready" /\ cli[c].pid = game
  /\ Move(c, "checked")
  /\ UNCHANGED <<game, port, worker>>

Connect(c) ==
  /\ cli[c].pc = "checked" /\ Listening
  /\ cli' = [cli EXCEPT ![c] = [@ EXCEPT !.pc = "connected", !.at = port,
                                         !.answer = "none", !.runs = 0]]
  /\ UNCHANGED <<game, port, worker>>

\* Every way a command finds out by itself that it cannot go on: the start
\* deadline, another game process, a refused connection or request.
CliFails(c) ==
  /\ \/ cli[c].pc = "starting"
     \/ cli[c].pc = "ready" /\ cli[c].pid # game
     \/ cli[c].pc = "checked" /\ ~Listening
     \/ cli[c].pc = "connected" /\ worker[cli[c].at].pid # cli[c].pid
  /\ Move(c, "over")
  /\ UNCHANGED <<game, port, worker>>

CliTimesOut_Retries(c) ==
  /\ cli[c].pc = "waiting"
  /\ Move(c, "ready")
  /\ UNCHANGED <<game, port, worker>>

\* 120 seconds without an answer.  The error is not the transient one, so
\* _execute_lua_when_idle does not send the request again.
CliTimesOut(c) ==
  /\ cli[c].pc = "waiting"
  /\ Move(c, "over")
  /\ UNCHANGED <<game, port, worker>>

\* The command is finished, fails in another way, or is killed by its window.
CliEnds(c) ==
  /\ cli[c].pc \notin {"idle", "over"}
  /\ Move(c, "over")
  /\ UNCHANGED <<game, port, worker>>

\* Another command.  It is given the name of one that has left no request.
CliForgotten(c) ==
  /\ cli[c].pc = "over" /\ Outstanding(c) = {}
  /\ cli' = [cli EXCEPT ![c] = NoCli]
  /\ UNCHANGED <<game, port, worker>>

-----------------------------------------------------------------------------
(* run_worker *)

Bind(w) ==
  /\ InPhase(w, {"launched"}) /\ port = None
  /\ port' = w
  /\ Become(w, "bound")
  /\ UNCHANGED <<game, cli>>

BindFails(w) ==
  /\ InPhase(w, {"launched"}) /\ port # None
  /\ worker' = [worker EXCEPT ![w] = NoWorker]
  /\ UNCHANGED <<game, port, cli>>

(* _connect_once attaches a session, loads the guard, then the agent.       *)

GuardLoads(w) ==
  /\ InPhase(w, {"bound"}) /\ worker[w].pid = game
  /\ Become(w, "guarded")
  /\ UNCHANGED <<game, port, cli>>

AgentLoads(w) ==
  /\ InPhase(w, {"guarded"}) /\ ~ProcessGone(w)
  /\ worker' = [worker EXCEPT ![w].phase = "attached", ![w].retried = FALSE]
  /\ UNCHANGED <<game, port, cli>>

\* A lost connection: whatever was loaded is unloaded, the server recovered,
\* and the attempt made once more.
ConnectRetries(w) ==
  /\ InPhase(w, {"bound", "guarded"}) /\ ~worker[w].retried
  /\ worker' = [worker EXCEPT ![w].phase = "bound", ![w].retried = TRUE,
                              ![w].detached = FALSE]
  /\ UNCHANGED <<game, port, cli>>

\* Anything up to the agent's load fails.  A guard that was loaded is
\* unloaded and not remembered, and the worker exits.
StartupFails(w) ==
  /\ InPhase(w, {"bound", "guarded"})
  /\ port' = None
  /\ worker' = [worker EXCEPT ![w] = NoWorker]
  /\ UNCHANGED <<game, cli>>

BridgeReady(w) ==
  /\ InPhase(w, {"attached"})
  /\ Become(w, "serving")
  /\ UNCHANGED <<game, port, cli>>

Residents == {w \in Workers : InPhase(w, {"resident"})}

BridgeFails_Exits(w) ==
  /\ InPhase(w, {"attached"})
  /\ port' = None
  /\ worker' = [worker EXCEPT ![w] = NoWorker]
  /\ UNCHANGED <<game, cli>>

\* The port is given up, the process stays.
BridgeFails(w) ==
  /\ InPhase(w, {"attached"}) /\ Cardinality(Residents) < MaxResidents
  /\ port' = None
  /\ Become(w, "resident")
  /\ UNCHANGED <<game, cli>>

ResidentEnds(w) ==
  /\ InPhase(w, {"resident"}) /\ ProcessGone(w)
  /\ worker' = [worker EXCEPT ![w] = NoWorker]
  /\ UNCHANGED <<game, port, cli>>

ServeEnds_OnSilentAdb(w) ==
  /\ InPhase(w, {"serving"})
  /\ port' = None
  /\ worker' = [worker EXCEPT ![w].phase = "closing",
                              ![w].requests = Append(@, None)]
  /\ UNCHANGED <<game, cli>>

\* serve leaves its loop; ADB that does not answer counts as a live game.
ServeEnds(w) ==
  /\ InPhase(w, {"serving"}) /\ ProcessGone(w)
  /\ port' = None
  /\ worker' = [worker EXCEPT ![w].phase = "closing",
                              ![w].requests = Append(@, None)]
  /\ UNCHANGED <<game, cli>>

\* join gives the executor two seconds; then the session is closed, the
\* process exits, and every connection to it breaks.
WorkerExits(w) ==
  /\ InPhase(w, {"closing"})
  /\ worker' = [worker EXCEPT ![w] = NoWorker]
  /\ cli' = [c \in Clis |->
               IF cli[c].at = w /\ cli[c].pc \in {"connected", "waiting"}
               THEN [cli[c] EXCEPT !.pc = "over"] ELSE cli[c]]
  /\ UNCHANGED <<game, port>>

-----------------------------------------------------------------------------
(* _handle_connection and _execute_requests *)

Enqueue_AnyPid(c) ==
  LET w == cli[c].at
  IN  /\ cli[c].pc = "connected"
      /\ worker' = [worker EXCEPT ![w].requests = Append(@, c)]
      /\ Move(c, "waiting")
      /\ UNCHANGED <<game, port>>

\* The thread of the connection may queue its request after the stop mark.
Enqueue(c) ==
  LET w == cli[c].at
  IN  /\ cli[c].pc = "connected" /\ worker[w].pid = cli[c].pid
      /\ worker' = [worker EXCEPT ![w].requests = Append(@, c)]
      /\ Move(c, "waiting")
      /\ UNCHANGED <<game, port>>

ExecutorFree(w) ==
  /\ InPhase(w, {"serving", "closing"}) /\ worker[w].running = None
  /\ worker[w].requests # <<>> /\ Head(worker[w].requests) # None

\* What becomes of a command when its request comes back.  A transient fault
\* is retried from the check of the process on.
Answered(c, answer, runs) ==
  [cli[c] EXCEPT
     !.runs = @ + runs,
     !.answer = IF cli[c].pc = "waiting" THEN answer ELSE @,
     !.pc = IF cli[c].pc # "waiting" THEN @
            ELSE IF answer = "error" THEN "over" ELSE "ready"]

\* Silent ADB lets a request through to a game that is no longer there.
TakeRequest(w) ==
  /\ ExecutorFree(w) /\ ~worker[w].detached
  /\ worker' = [worker EXCEPT ![w].running = Head(worker[w].requests),
                              ![w].requests = Tail(@)]
  /\ UNCHANGED <<game, port, cli>>

RejectRequest(w) ==
  /\ ExecutorFree(w) /\ ProcessGone(w)
  /\ worker' = [worker EXCEPT ![w].requests = Tail(@)]
  /\ LET c == Head(worker[w].requests)
     IN  cli' = [cli EXCEPT ![c] = Answered(c, "error", 0)]
  /\ UNCHANGED <<game, port>>

\* A result is returned only by Lua that has run; a fault or an error may
\* come before the effect, or after it.
Outcomes(w) ==
  IF ProcessGone(w) THEN {<<"error", 0>>}
  ELSE {<<"ok", 1>>, <<"fault", 0>>, <<"fault", 1>>, <<"error", 0>>,
        <<"error", 1>>}

RequestReturns_Replays(w) ==
  /\ worker[w].running # None
  /\ \E outcome \in Outcomes(w) :
       LET c == worker[w].running
       IN  cli' = [cli EXCEPT ![c] = Answered(c, outcome[1], outcome[2])]
  /\ worker' = [worker EXCEPT ![w].running = None,
                              ![w].requests =
                                IF ProcessGone(w) THEN @
                                ELSE <<worker[w].running>> \o @]
  /\ UNCHANGED <<game, port>>

RequestReturns_ErrorsAreSilent(w) ==
  /\ worker[w].running # None
  /\ \E outcome \in Outcomes(w) :
       LET c == worker[w].running
       IN  cli' = IF outcome[1] = "error" THEN cli
                  ELSE [cli EXCEPT ![c] = Answered(c, outcome[1], outcome[2])]
  /\ worker' = [worker EXCEPT ![w].running = None]
  /\ UNCHANGED <<game, port>>

RequestReturns(w) ==
  /\ worker[w].running # None
  /\ \E outcome \in Outcomes(w) :
       LET c == worker[w].running
       IN  cli' = [cli EXCEPT ![c] = Answered(c, outcome[1], outcome[2])]
  /\ worker' = [worker EXCEPT ![w].running = None]
  /\ UNCHANGED <<game, port>>

-----------------------------------------------------------------------------

Init ==
  /\ game = 1
  /\ port = None
  /\ worker = [w \in Workers |-> NoWorker]
  /\ cli = [c \in Clis |-> NoCli]

CliStep(c) ==
  \/ StartCli(c) \/ PingAnswered(c) \/ PingLost(c) \/ CheckProcess(c)
  \/ Connect(c) \/ CliFails(c) \/ CliTimesOut(c) \/ CliEnds(c)
  \/ CliForgotten(c) \/ Enqueue(c)

WorkerStep(w) ==
  \/ Bind(w) \/ BindFails(w) \/ GuardLoads(w) \/ AgentLoads(w)
  \/ ConnectRetries(w) \/ StartupFails(w)
  \/ BridgeReady(w) \/ BridgeFails(w) \/ ResidentEnds(w) \/ ServeEnds(w)
  \/ WorkerExits(w) \/ TakeRequest(w) \/ RejectRequest(w) \/ RequestReturns(w)

Next ==
  \/ GameRestarts
  \/ \E w \in Workers : SessionDetaches(w) \/ WorkerStep(w)
  \/ \E c \in Clis : CliStep(c)

Spec == Init /\ [][Next]_vars

(* Fairness.  A process or thread that can take its next step takes it; no  *)
(* deadline of a request and no kill is assumed to happen.  The user keeps  *)
(* starting commands and does not close the window on each of them before   *)
(* it pings; an injection may fail, but not every one does.                 *)

CliProceeds(c) ==
  \/ StartCli(c) \/ CheckProcess(c) \/ Connect(c) \/ Enqueue(c)
  \/ CliFails(c) \/ CliForgotten(c)

MainProceeds(w) ==
  \/ Bind(w) \/ BindFails(w) \/ GuardLoads(w) \/ AgentLoads(w)
  \/ StartupFails(w) \/ ResidentEnds(w) \/ ServeEnds(w) \/ WorkerExits(w)

ExecutorProceeds(w) ==
  TakeRequest(w) \/ RejectRequest(w) \/ RequestReturns(w)

Fairness ==
  /\ \A c \in Clis :
       /\ WF_vars(CliProceeds(c))
       /\ SF_vars(PingAnswered(c) \/ PingLost(c))
  /\ \A w \in Workers :
       /\ WF_vars(MainProceeds(w))
       /\ WF_vars(ExecutorProceeds(w))
       /\ SF_vars(GuardLoads(w))
       /\ SF_vars(AgentLoads(w))
       /\ SF_vars(BridgeReady(w))

FairSpec == Spec /\ Fairness

-----------------------------------------------------------------------------
(* Properties *)

WorkerStates ==
  [phase : Phases, pid : 1..MaxGames, detached : BOOLEAN, retried : BOOLEAN,
   requests : Seq(Clis \cup {None}), running : Clis \cup {None}]

CliStates ==
  [pc : Places, pid : 1..MaxGames, at : Workers \cup {None},
   answer : {"none", "ok", "fault", "error"}, runs : Nat]

Typing ==
  /\ game \in 1..MaxGames
  /\ port \in Workers \cup {None}
  /\ worker \in [Workers -> WorkerStates]
  /\ cli \in [Clis -> CliStates]

\* Every command has at most one request in a worker's queue, so the queue,
\* which the code does not bound, never outgrows the commands.
TypeOK ==
  /\ Typing
  /\ \A w \in Workers : Len(worker[w].requests) <= Cardinality(Clis) + 1

\* Of the workers whose session reaches into the running game at most one
\* serves, although a restarted game, a lost ping or a failed injection may
\* have launched several: two would run Lua in the game side by side.
OneServer ==
  \A v, w \in Workers :
    /\ InPhase(v, {"serving", "closing"}) /\ ~ProcessGone(v)
    /\ InPhase(w, {"serving", "closing"}) /\ ~ProcessGone(w)
    => v = w

\* A request is run at most once however the connection, the command and
\* the worker end, and a command told "ok" had its request run.
AnswersAreTrue ==
  \A c \in Clis :
    /\ cli[c].runs <= 1
    /\ cli[c].answer = "ok" => cli[c].runs = 1

\* A request is run by a worker of the game process its command looked up.
RunsInItsGame ==
  \A w \in Workers : worker[w].running # None =>
    cli[worker[w].running].pid = worker[w].pid

\* run_worker, "keep the process resident until the target dies": a worker
\* takes its hooks out of a live game, whose session is not lost, only inside
\* connect, when the guard is in and the agent is not.
HooksOutliveTheGame ==
  [][\A w \in Workers : Hooked(w) /\ ~Hooked(w)' /\ ~ProcessGone(w) =>
       InPhase(w, {"guarded"})]_vars

\* A command never has to wait for the deadline of its request: the executor
\* or the end of the worker answers it, also when it was queued too late.
EveryRequestAnswered ==
  \A c \in Clis : cli[c].pc = "waiting" ~> cli[c].pc # "waiting"

\* However often the game is restarted or the session is lost, commands that
\* keep coming bring up a worker of the game process there is.
ServedAgain ==
  []<>(\E w \in Workers : InPhase(w, {"serving"}) /\ worker[w].pid = game)

=============================================================================
