# Verification of mumu_autotask

`mumu_autotask` drives one mobile game inside several MuMu emulators.  A Tk
launcher opens one manager window per device; every operation of a window is
one CLI subprocess; the CLI talks to a persistent Frida worker of the device,
which injects Lua into the running game and reads its answer back.

This directory holds TLA+ modules translated from that code, the TLC runs that
check them on small instances, and theorems about them checked by TLAPS.
Paths below are relative to `src/mumu_autotask/` of the repository unless they
say otherwise; `README.md:n` is the README of the repository.

Running things, in this directory:

    tlc -workers 2 -config slots.cfg MCHuntSlots      # a run
    tlapm HuntSlotsProofs.tla                         # the proofs of a module

`PROJECT.json` lists every run, the source lines of every definition, the
mutants (a plausible bug for each property, under which TLC must find the
property violated), the hazards and the theorems.

## 1. Inventory

### The parts

| Part | State it keeps | Operations | Talks to |
| --- | --- | --- | --- |
| Manager window (`gui.py` 1906-4645) | `busy`, `current_items`, `hunt_batch`, `_slot_wait_running`, timers, the generations of the world and yeti loops | buttons, callbacks of finished commands, timers, close | dispatcher, CLI commands through `gui_backend.py` |
| Slot batch (`gui.py` 924-1178) | a state and an outcome per target, flags of the claim and of the reconciliation | `next_dispatch_target`, `mark_*`, `begin_claim`, ... | its window only |
| Wave batch (`gui.py` 276-807) | waves of targets, the phase of the present wave, outcomes | `prepare_current_wave`, `begin_wait`, `complete_current_wave`, ... | its controller only; made only where no Tk window exists |
| Task dispatcher (`gui.py` 1181-1233) | a queue of results, the count of running threads | `submit`, `_drain` every 80 ms | one thread per command |
| Launcher (`gui.py` 1482-1903) | managers by serial, serials closed by hand | refresh devices, open and close managers | windows, CLI |
| CLI runner (`gui_backend.py` 589-787) | running processes by serial | `run`, `run_json_stream`, `cancel_serial` | subprocesses |
| Intelligence commands (`cli.py` 1614-3078) | none beyond the game's | inspect, march, battle, wait, claim | worker or driver, game |
| World monster loop (`cli.py` 3250-3738, `gui.py` 2920-3428) | marches on the road, capacity, level | search, commit, verify, poll, stop | game; window by JSON lines |
| Yeti rally loop (`cli.py` 3772-4055, `gui.py` 2755-2912) | the phase, the locked target | spawn, commit, wait, stop | game; window by JSON lines |
| Frida worker (`frida_worker.py`) | a bridge session, a queue of requests, a bound port | launch, serve, execute, stay resident | one worker process per device, localhost TCP |
| Frida driver (`frida_driver.py`) | the session; locks and generations of a server recovery | attach, execute, recover the server and retry once | frida-server on the device, ADB |
| Lua state scanner (`lua_state.py`) | none | find and verify the idle main state | ADB |
| ADB, configuration, MuMu manager, HTTP, kingdom guard, preferences | none, or one file | I/O | device, files |
| Agent and native bridge (`frida_agent.js`, `native/mumu_bridge.c`) | a pending call inside the game | run Lua on the game's thread | driver |

### How they interact

Three ways.  *Callbacks*: `TaskDispatcher.submit` runs a command on a thread
and puts its result in a queue; `_drain` runs the callback on the Tk thread,
up to 80 ms (or a whole queue) later.  Between the reading a command made and
the callback that applies it, the user may close the window or switch the
role, and the game goes on.  *Processes*: a window and its CLI subprocesses
share nothing but arguments, output and signals; the subprocesses of a device
share the worker's port.  *The game*: all of them read and write quests and
marches that the server, and the player's own hands, move as well.

### What is hard, and what makes each part correct

* **Slot batch.** Results arrive late, for windows or batches that are gone; a
  failed command may have had its effect; `_drain` swallows exceptions, so one
  receipt that does not find its target in the expected state locks the window
  for good; retry timers outlive what set them.  Correct means: one operation
  at a time in a game process; a target is called done only when the game is
  done with it; rewards are claimed once, and only when everything is done;
  the summary is true; a batch ends.
* **Worker.** Many commands may find no worker at once; the game may be
  restarted at any point; Frida sessions are lost; injection fails half way;
  clients give up on requests that still run; hooks must not be unloaded from
  a live game (it crashes).  Correct means: one serving session per game
  process; a request runs at most once, in the game process it was made for;
  every request is answered; after a restart there is a worker again.
* **World and yeti loops.** A stopped CLI process needs seconds to end while
  the window already allows the next one; a commit may be lost between request
  and verification; a state may be left only by an event that was missed.
  Correct means: no march is counted twice or forgotten, marches stay within
  the capacity, late events of an earlier loop change nothing.
* **Intelligence commands.** A bridge fault repeats a script that has already
  run; the client of the game shows a march later than the server made it;
  another command uses the same globals.  Correct means: a request is made
  once, what is reported as sent was sent, two requests do not ask for the
  same heroes, every command ends.
* **Server recovery.** Several users of one frida-server find it dead at once;
  ADB stops waiting for the restart script, which may go on.  Correct means:
  one recovery at a time, none after one that has succeeded meanwhile, every
  operation retried at most once, no second server, and no call that hangs.
* **Wave batch.** Its receipts leave some targets in doubt.  Correct means what
  it means for the slot batch, and that the next wave waits for this one.

The full list of hazards, each at its line and with the properties that would
catch it, is in `PROJECT.json`.

## 2. The modules

| Module | What it is |
| --- | --- |
| `IntelCommands` | the quests of a role on the server, and the commands run against them |
| `HuntSlots` | the slot batch and the window that drives it; extends `IntelCommands` |
| `HuntWaves` | the wave batch and the controller that drives it; extends `IntelCommands` |
| `IntelBatch` | what a batch promises, whichever scheduler runs it (abstract) |
| `MarchCommands` | what happens inside march-intel, battle-intel and batch-intel |
| `FridaWorker` | the worker processes of a device and the commands that use them |
| `ServerRecovery` | the restart of a device's Frida server by callers that find it dead |
| `WorldLoop` | the world monster loop, its game and the window that follows it |
| `YetiLoop` | the yeti rally loop, its game and the window that follows it |
| `HuntSlotsProofs` | the inductive invariant `IInv` of `HuntSlots`, its theorems, and the proof that `HuntSlots` implements `IntelBatch` |
| `HuntWavesProofs` | the same for `HuntWaves` |
| `MarchCommandsProofs` | the inductive invariant `MarchInv` of `MarchCommands` and its theorems |
| `FridaWorkerProofs` | the inductive invariant `WorkerInv` of `FridaWorker` and its theorems |
| `YetiLoopProofs` | the inductive invariant `IInv` of `YetiLoop` and its theorems |
| `WorldLoopProofs` | the inductive invariants `SlotInv` and `WindowInv` of `WorldLoop` and its theorems |
| `ServerRecoveryProofs` | the inductive invariant of `ServerRecovery` and its theorems |
| `MC...` | the same, for TLC |

`HuntSlots` and `HuntWaves` compose a scheduler with the commands it submits
and the game they act on, and implement the same `IntelBatch`.
`MarchCommands` looks into the one step that `IntelCommands` makes of a
command.  `ServerRecovery` is below `FridaWorker`, where a recovery is part of
`ConnectRetries`.  The loops stand beside them: each has its window, its processes and
its game in one module.

### IntelCommands and HuntSlots

A target is its place in the canonical order of `build_task_queue` (monsters
first).  `quest[t]` is its state on the server.  `tasks` holds the commands
whose callback has not run: a command is *submitted* (a record with result
"running"), *runs* (one atomic effect on `quest`, and a receipt), and is
*drained* (its callback).  Everything else may happen between those moments.
A command may fail before it has any effect (`CommandFails`: a wrong role, a
lost worker, a time-out, a kill), and a march or a claim may fail after it
(`MarchUnproved`, `ClaimIntel(k, "error")`).

Every callback is one action, as Tk runs it: `SlotDispatchFinished` marks the
batch and then, in the same step, dispatches the next target, requests a wait,
claims or finishes.  The batch it has marked so far is passed as `b` through
`DispatchNext`, `SlotRequestWait`, `StartClaim` and `FinishHuntBatch`, which
are the methods of the same names.  `batch.live = FALSE` stands for
`hunt_batch = None`; `win` numbers the windows opened one after the other, and
a callback of an earlier one finds `Mine(k)` false (`StaleResult`).

The buttons are guarded by `busy`, as `_set_busy` disables them.  Closing is
not: `close` (4600) lets the user confirm.  (README.md:106-108 says closing is
disabled while marches are dispatched; the models follow the code.)

`IntelBatch` states the promise over five observable variables: statuses only
move forward; a target becomes done only when the game has finished with it;
the claim is made once, with everything done; "verified" is said only when the
game lists no target any more, or in one case more, which the code allows and
which `Misread` names: the reading after the claim was made of another role.
`HuntSlots!Promise` maps the batch onto it, and `KeepsPromise` is checked and
proved: every step of a window is a step of `IntelBatch` or a stutter.

The second case comes of two things.  The CLI's `expected_role` is a name, and
a role of another kingdom may bear it: `ForeignReading` is a reading under such
a namesake, which lists none of the targets, so that all of them read as
MISSING, and whose receipt the window refuses for its kingdom (result
"refused").  And `_claim_verified` asks a refused receipt all the same which
targets remain (gui.py 4452-4463): with none, `verify_claim_absence` sets
`claim_verified`, and `summary` looks at that before it looks at the error.
`ClaimVerified` does the same.  A foreign role of another name is refused by
the Lua and is an error like any other (`CommandFails`), after which nothing is
verified.  A command reads the kingdom once, when it starts (cli.py 4289), and
the statuses later; a switch to a namesake between the two, whose receipt would
be accepted, is not modelled.

### HuntWaves

The controller of a manager that has no Tk window (`_use_slot_scheduler` is
false) cuts the monsters into waves of `Concurrency`; hero and rescue quests
join the first one.  A wave is one batch-intel command.  Its record `found`
holds the targets it has sent so far and `held` those the stamina refused;
what neither names is in doubt (`dispatch_error`) and is settled by one
inspection: what can still be started was not sent, what cannot did set out.
A wait that fails is followed by one inspection too, and there is no retry
without end, so that `BatchEnds` needs nothing of the role or of recalls, where
the slot batch does.  An inspection under another role is an error, as the
role guard of a running batch makes it.  The reading after a claim may be of a
namesake, as in `HuntSlots`.  Left out: the branch of
`prepare_current_wave` for a target that vanished before its wave, which the
controller cannot reach, since it passes its own targets as the listed ones;
closing and opening, which this controller has not.

### MarchCommands

`command[c]` is a CLI process: the targets it has left, the stage of the
present one, and a result per target.  Each action is one Lua script, which
runs in one go: inspect, prepare, commit, verify.  `cache` and `snapshot` are
the two globals of the game that the scripts of *all* commands share; the
client of the game shows a march when the server has made it, and the server
answers `requests` in order, or refuses.  `Answers` is
`_execute_lua_when_idle`: the script has run, and either its receipt arrives
or a transient fault makes it run again.  A script that makes a request may
raise after it, for monsters, heroes and rescues alike: the command then
reports an error for a request that is on its way.

Found while modelling, and visible in the properties: a hero or rescue quest
of a batch is reported as sent at once, with a fixed status and no proof
(cli.py 2544-2556).  The Lua of a hero battle refuses a second start
(`_pveBattleStartMap`), the one of a rescue does not, so that a fault after it
sends it twice.  A repeated commit finds its prepared march used up, unless
another command has prepared one for the same target meanwhile: with two
faults, one that repeats a preparation and one that repeats a commit, two
commands make three requests for one monster.  That is the bound of
`RequestsMatchResults`: a request more than there are commands takes two
faults, whatever the number of commands, and a command alone with its target
makes one.
Left out: `GO_INVOKED` and the first status, which verification always
overwrites, dry runs, and levels, stamina and soldiers, which are choices of
`Prepares`.  That this module does inside a command what the one step of
`IntelCommands` says is argued here and not checked: a command that ends with
"dispatched" made its request and, for monsters, saw it granted
(`DispatchedIsTrue`); one that ends with "blocked" made none; one that ends
with an error may have (`MarchUnproved`).

### FridaWorker

`worker[w]` is a worker process from its launch (`run_worker`) to its exit:
"launched", "bound" (it has the port), "guarded" (the Houdini guard is in the
game, the agent is not), "attached" (both are, the bridge is not), "serving", "closing" (it has left the accept loop), "resident" (its start
failed with hooks in place, it has given the port back and stays).  `cli[c]`
is a CLI process on its way through `ensure_started`, the check of the process
before each request, the connection, and the wait for the answer.  `game` is
the PID of the game; a restart makes another one.  Between any two of these
moments everything else may happen: the game is restarted, the session is
lost, the command is killed, the connection thread is slow.

Abstractions: a ping is answered or not by the state of the port at that
moment; the address of the Lua state kept by the worker is left out, because
the scanner verifies it before it is used; a game that died and was not started again is seen through `detached`, since
`_process_alive` counts an ADB that raises as a live game; the recovery of the
Frida server inside `connect` is part of `ConnectRetries`, which unloads
whatever the first attempt had loaded and makes the second and last one.  A
session that is lost between the load of the agent and the
`_session_detached.clear()` after it (frida_driver.py 567-577) is forgotten by
the code; the model has no such instant, and its session is lost before or
after.  The name
of a command that has ended is given to another command once no worker holds a
request of it, and a worker that exited may be launched again: both keep the
number of processes finite without limiting how many there are in a run.

### WorldLoop

`session[s]` is the s-th start of the loop: the thread of the window
("submitted"), its CLI process (from "starting" to "verifying", each place a
stage of `_execute_world_monster_loop`), its end ("over") and the callback of
its thread ("drained").  `search` and `known` are the two globals the Lua of
the loop leaves in the game.  They belong to the game and not to a session:
the search of one session takes the callback of another's out, a session may
read, commit or verify what another one searched, and the receipts refuse it
then.  `march` is the list of marches the server created, the player's own
included; requests and searches are answered later.  `events[g]` is the
queue of the g-th start with the output before it; `out` is the queue a
process was given, which the lambda of `start_world_hunt` reads when its
thread runs.  A stop may come before that: it then cancels nothing, the thread
goes on and starts a process nobody stops (`missed`), and if the user has begun
another start meanwhile, that process is given the queue of the new one
(`shared`).  Both are history of the model, and only the properties read them.

A step of the process is one Lua command, because the Lua of a command runs
in one go; a bridge fault after that repeats it (`Fault`).  `filling` stands
for both loops of `_execute_world_monster_loop`: with `count` below the limit
it searches, otherwise it polls what it tracks, or reads the capacity when it
tracks nothing.  Stamina, levels, formations and the player's choice of a
concurrency are left out; what ends the loop because of them is `CliFails`.
A drain takes one event and `WorldHuntLoopFinished` all that are left, since
the output of a process that ended is complete.  What a session knew is
dropped when it ends, and so are the events of a stopped one, which nobody
reads; both only keep the states few.  The callbacks of single hunts and
polls (gui.py 3155-3428) are left out: the window calls none of them.

### YetiLoop

`session[s]` is the s-th start of the loop.  A reading of the status chooses
the next command (`ReadStatus`), a rally (`Commit`) or a summons (`SpawnSent`)
follows, and between them the game, the player and an older session act.
`orderly` is chosen in `Init` and stays: in an orderly game the server grants
what it can, no rally begins and ends between two polls (`unread` is who has
not yet read the last change), and no answer is lost.  The two liveness
properties speak of orderly games only; in others `waiting_departure` and
`spawning` do last for ever, which the code accepts (cli.py 3945, 4041).
`ChoosesRally` keeps the branch on `dispatch_attempted` (cli.py 3962), although
the loop never gets there: a rally it attempted leaves it in
`waiting_departure`.  The launch of the process is one step with its submission:
the launch race is that of `WorldLoop`, whose code is the same, and a yeti loop
that a stop has missed makes four times the states, which liveness leaves no
room for.  A stopped session still acts beside its successor here until it
looks at its stop.

### ServerRecovery

`call[c]` is a caller on its way through an action, `script[n]` the restart
script of the n-th call, which may outlive it.  The script is modelled command
by command (find, check, terminate, kill, wait, start, poll), one step each;
its look at /proc is one step, and a pid is not given again while a script
remembers it.  Its exit 28 is unreachable, since one endpoint has one
listener.  `holder` and `generation` are the lock and the counter of a
*program*: the tests and the contract of the class are about threads of one
process, where each real process has one client.  README.md:73-74 has
recoveries of one serial serialised; that holds within a program only, since a
CLI process and the resident worker have a lock each.  Two more observations:
a caller whose failure is older than a recovery that it did not see reads the
generation after that recovery (frida_driver.py:281) and restarts a healthy
server, once; and the push of a missing binary goes to ADB's default device,
without `-s` (frida_driver.py:268).

## 3. The runs

| Run | Instance | What it shows |
| --- | --- | --- |
| `slots` | 3 monsters, 1 hero or rescue quest, 2 slots, 1 window, recalls | receipts find their target, slots are bounded, the batch keeps its promise |
| `slots_live` | 1 monster, 1 hero or rescue quest, 1 slot, 2 windows | one operation at a time, results of a closed window do not disturb the next; a batch left on its role ends |
| `waves` | 2 monsters in 2 waves, 1 hero or rescue quest, recalls | the next wave waits, marches are bounded, the same promise is kept, every batch ends |
| `march` | 2 commands; 2 monsters, or 1 monster twice, or a hero and a rescue quest; 2 teams, 2 marches, 1 fault | no more requests than commands and faults explain, one for a command alone; true reports, different formations, every command ends |
| `worker` | 2 commands, 3 workers, 2 starts of the game, 1 resident | safety of the worker; commands and workers are interchangeable |
| `worker_live` | 1 command at a time, 2 workers, 3 starts, 1 resident | every request is answered; a worker of the present game comes back |
| `recovery` | 2 threads of a program, 3 calls, 3 pids, 2 faults | one recovery at a time, retries that follow one, one server, no call that hangs |
| `world` | 2 sessions, 2 monsters, 2 slots, 2 marches, 2 requests, 1 new Lua state or repeated script | an old and a new loop in one game, stops before the launch included: the window shows exactly what its own loop dispatched, a loop runs unseen only if its stop missed it, a tracked march is not taken for a new one |
| `world_refill` | 2 sessions, 1 monster, 2 slots, 2 marches, 1 request | a free slot is used while a loop runs, with an older loop beside it, which may never stop |
| `yeti` | 2 sessions, 2 yetis, 1 item, 1 fault | one summons and one rally a round, to the locked yeti; in an orderly game every wait ends |
| `world_late` | 2 sessions, 1 slot | a loop shows dispatches of another one (violated) |
| `slots_role_switch` | 2 monsters, 1 slot | a batch does not stop when the role is switched for good (violated) |

**Bounds.** Three monsters on two slots are the least with which a slot is
refilled while another march is on the road and one is left pending; the
fourth target needs no slot.  Two windows are the least with which a callback
finds a later window.  Two waves are the least with which one can begin too
early.  For the worker, three processes allow one that serves,
one that stays resident and one that starts; two commands race for the port
and share a queue; two starts of the game give a worker of the old and of the
new process.  `MaxWindows`, `MaxGames` and `MaxResidents` only bound runs: the
theorems hold for all values.  `MaxResidents` stands for no limit of the code.

The lists of `march` are the least with which a batch prepares a march while
another is not visible yet, two commands ask for the same target, and requests
without a proof are made.  One fault is enough to repeat any one script after
its effect; the two faults that make a request more than there are commands
are beyond the time of a run, and beyond its instance nothing is needed of
them: the bound is proved for any number (the same configuration with
`MaxFaults = 2` passes in three minutes, and has states with three requests of
two commands for one monster).  The three calls of `recovery` let one thread recover, another
find that done, and a third arrive when a script still runs that nobody waits
for; with two faults the server fails and ADB stops waiting.  Three pids leave
one free while two are remembered.

For the worker's liveness, two workers are the least of which one stays
resident, or keeps a session of an old game, while the other is launched, and
three starts of the game let each of them lose its own.

For the world loop, two sessions give an old and a new one; two marches on
two slots let each session track one, or one of them both.  One monster is
enough for `world_refill`, since only whether a search was answered matters to
it; its fault is left to `world`, where a slot is not waited for.  `MaxFaults`
bounds runs only, new Lua states and repeated scripts together; a fault is
repeated for at most five seconds in the code.  Two yetis are the least with
which another one takes the place of the locked one.

**The violated runs.** Each checks a sentence of README.md, or of a comment,
against the code.
(1) README.md:19-21: switching the role during the flow stops it at once.
`_slot_wait_finished` answers every failed wait with another one a second
later; nothing tells a wrong role from a slow bridge, so the batch goes on for
ever.
(2) The comment at gui.py:2936-2937: a later run never consumes an event of a
stopped one.  The queue is read, and the process registered, when the thread
runs; a stop before that cancels nothing, and after another start the thread
gives its process the new queue.

**Where the code departs from its documents.** Two runs show it, above.  Four
more departures have no run of their own, because a property of a passing run
names each as its exception, and holds of everything else:

* README.md:126-128: a batch does not report success while a target is still
  there after the claim.  It does when the reading after the claim is of a
  namesake of the role (see `HuntSlots` above); `Misread` of `IntelBatch` is
  that case, and `KeepsPromise` allows no other.
* The comment at frida_worker.py:534-536: after the guard is installed, any
  failure keeps the worker resident, so that no live trampoline is unloaded.
  `_connect_once` loads the guard and then the agent; when the agent fails, it
  unloads the guard from a game that is alive (frida_driver.py 550-567), and
  `native_hooks_installed`, set only after both, lets the worker exit.
  `HooksOutliveTheGame` is about the guard from its load on, and its one
  exception is a worker in the phase "guarded".
* A loop that is stopped before its process is registered goes on, although the
  window says that it was stopped, until another stop on the device.
  `NoLoopRunsUnseen` names that loop (`missed`) and the one the window gave up
  because it read an error of such a loop in its own queue (`shared`);
  `CountsAreExact` and `EndShowsAll` except the window whose queue was taken.
* README.md:118-122 describes waves, of which the next starts when all of this
  one is proved over, and a concurrency that is the most marches on the road.
  A window uses `HuntSlotBatch`, which refills single slots, and gives the slot
  of a march that was accepted but not verified in time away.  `HuntWaveBatch`
  keeps both sentences (`NextWaveWaits`, `MarchesOnTheRoadBounded` in `waves`).

**Fairness.** `HuntSlots`: weak fairness of running commands (each has a
deadline after which `CliRunner.run` kills it), of callbacks and of the retry
timer (Tk's loop), and of the return of a march.  Strong fairness of
`StatusRead` is an assumption about the device: a reading repeated for ever on
the right role is not refused for ever.  Nothing is assumed of the player,
except that `BatchEnds` speaks of behaviours that stay on the role and runs
without recalls: a recalled march makes its target available again, no wait
ever reports it, and the batch does wait until the window is closed.
`HuntWaves`: weak fairness of commands and callbacks, and of nothing else.
`MarchCommands`: weak fairness of a command's scripts; the server need never
answer.
`FridaWorker`: weak fairness of every thread and process; strong fairness of a
ping (the user does not kill every command before it pings) and of
`GuardLoads`, `AgentLoads` and `BridgeReady` (not every injection fails).  No fairness of time-outs,
kills, lost sessions or restarts: `EveryRequestAnswered` therefore says that
the 120 second deadline of a request is never what ends the waiting.
`ServerRecovery`: weak fairness of every script and every caller, none of the
server, of an abandoned script or of whoever else takes the port.
`WorldLoop`: weak fairness of the game and its server (a search and a request
are answered, a request perhaps with no march), of the process, of its
deadlines and of the threads and timers of the window.  Nothing is assumed of
the player, of marches (they need not return) or of faults, which are finitely
many.
`YetiLoop`: the process and the window weakly; the answers of the server, the
end of a rally and the departure of a yeti strongly, because in an orderly
game they wait for polls; `Commit` strongly, since marches and stamina do not
forbid a rally for ever.  Nothing of the player.

## 4. The proofs

The arguments are inductive invariants that TLC checked on the small instances
before they were proved.

**HuntSlots** (assumptions `TargetsAssumption`, `SlotsAssumption`: any number
of targets, 1 to 4 slots, any number of windows).  No property is inductive
alone, because what a callback does depends on what the batch was when its
command was submitted.  `IInv` says, for each kind of command, what the batch
must look like while that command is outstanding (`Awaits`), that receipts
stay true until they are drained (`Truthful`: a finished quest stays finished),
that outcomes match states (`Consistent`), and that the window is busy exactly
while something is outstanding.  The proof has one lemma per helper
(`FinishKeepsIInv`, `ClaimKeepsIInv`, `WaitKeepsIInv`, `DispatchKeepsIInv`)
and one per action.  Results: `TypeCorrect`, `OneOperation`, `ReceiptsMatch`,
`SlotsStayBounded`, `WaitsAreFull`, `ResolvedOutcomesAreReal`, `ClaimsAreDue`.

**HuntSlots implements IntelBatch** (the second half of `HuntSlotsProofs`;
the same assumptions; `PromiseKept`).  Every step is of one of a few kinds (`Kinds`): the
batch moves forward, ends, is abandoned or started, stands still, is misread,
or time passes in the game; each kind is an action of `IntelBatch` or a stutter.  That
a callback moves forward is `Moved`, which is transitive: the marks of a
receipt come first and the dispatch, claim or reconciliation after them, in
the same step.  That no other callback ends the batch needs one invariant
beside `IInv`, `ReconciledLast`: once failures were reconciled there is nothing
left to wait for.  The `IF` of `Status` comes before its `CASE`, because the
state of a target outside the batch would satisfy two of its guards.

**HuntWaves** (assumptions `TargetsAssumption`, `WavesAssumption`: any number
of targets, waves of 1 to 4 monsters).  Besides `Awaits` and `Truthful`, as for
the slots, `IInv` says how the batch is cut while it goes on: behind the current
wave every target has its outcome and no march is on the road (`Behind`), ahead
of it nothing was sent (`Ahead`).  Neither is true of a batch that was stopped,
of which marches may still be on the road; there what remains is `Over`,
`Ordered` and `OneWave`, the last because a stop gives up only the wave it
stops in.  `OneWave` and `Behind` put all marches on the road into one wave, and
`WaveSize` bounds a wave by `Concurrency`: the number of monsters of the batch
before a monster maps its wave into `Concurrency` places, and two monsters
with the same number are one (`RanksOfWave`).  Results: `WaveTypes`,
`ReceiptsMatchTheWave`, `WavesInOrder`, `RoadIsBounded`.

**HuntWaves implements IntelBatch** (the second half of `HuntWavesProofs`;
the same assumptions; `WavesKeepPromise`).  The same kinds of steps, without the one
that abandons a batch, since this controller is not closed.  That only a
verified claim or a reconciliation ends a batch follows from `IInv` alone: the
reconciliation is attempted only when all waves are done, and a callback before
that finds a wave that is not.

**FridaWorker** (assumption `WorkerAssumption`; any finite set of commands, any
workers, any number of restarts).  `WorkerInv`: the port belongs to exactly
the worker between its bind and the end of its accept loop; a worker that has
left the loop has lost its game, and a lost game does not come back because
PIDs only grow; a connected command is connected to a worker that exists; a
held request belongs to a command that looked up the PID of its worker, also
after that command has ended.  `Once` says where a request is: in one place, a
queue or an executor, and it has not run while it is there, so leaving that
place is the one time it runs, also for a command that gave up waiting.  A
queue that holds nobody twice is no longer than there are commands, plus the
stop mark, by the pigeonhole theorem of the library.  `InHand` is the converse:
the worker a command waits for has its request, since only an answer takes it
out of there and a worker that exits breaks its connections.  Results:
`WorkerTypes`, `OneServerPerGame`, `RequestsRunInTheirGame`, `AnswersTrue`,
`HooksStay` (an action property), and one that no run checks by name:
`NoneStranded`, that the worker of a waiting command is closing, runs a
request, or can take the next one of its queue, whose first entry is no stop
mark while it serves.  That is the safety half of `EveryRequestAnswered`; the
other half is that threads run.

**ServerRecovery** (assumption `RecoveryAssumption`; any callers, programs,
pids, calls and faults).  The invariant adds two facts to the properties: a
caller has observed no generation that is yet to come (`ObservedBefore`), and
while scripts have not overlapped, at most one runs and what it knows of the
servers is still true (`Alone`), which a server that dies by itself does not
disturb.  Results: `Types`, `Serial`, `Retries`, `OneAtMost`.

**YetiLoop** (assumption `YetiAssumption`; any sessions, yetis, items,
requests and faults).  A session does not count what it sent; it remembers
that it asked for a summons and that it rallied, and forgets both when it locks
a target.  `RoundFine` says why nothing is sent twice all the same: a summons is
only asked for without a lock, a lock is left only at the end of the round or
of the session, and a session that rallied holds one; each fault may have
repeated one request.  `LastGoesTo` says to whom the last request of a session
goes, and survives that older requests are answered.  There is one lemma per
kind of step.  Results: `Types`, `OneOfEachARound`, `LastRallyIsForTheLock`.

**WorldLoop** (assumption `WorldAssumption`; any monsters, slots, marches,
sessions, requests and faults; nothing of the order of a launch and a stop).  `SlotInv` is about a session and the
game it shares with the others: a session counts at least the marches it
tracks (`Fits`) and searches only with a slot to spare, so that its count,
which it takes from a new inspection every round, stays within the slots; a
march it tracks on the road is in the list that the last request recorded
(`NotNew`), also when the request was that of an older session which the
window has left.  `WindowInv` is about the sessions and the window: an
unstopped session is the one the window shows, or one its stop has missed, or
one that was given up with a shared queue; and of a start whose queue no other
took, an error is the last event, and what the window has seen together with
what is queued is what the session verified, without a repetition.  Results:
`WorldTypes`, `TrackedStayOld`, `ShownIsExact`, `UnseenAreStopped` and
`NothingIsDropped` (an action property).

**MarchCommands** (assumption `MarchAssumption`; any quests, teams and target
lists, any finite set of commands, any number of marches and faults).  A
command process remembers its list and a stage and nothing else, so `InOrder`
says what these tell of the past: what was sent has a result or is the target
at hand, what is being prepared was not sent, what is being verified was.
`OnceAlone` adds the cache: while a march for a target is prepared, a command
alone with that target has not asked for it.  With other commands about, that
is false, and `Budget` takes its place, an amount rather than a state: twice
the requests for a monster, plus one for a prepared march, is at most the
commands that have prepared it for the last time, plus those that have
committed it for the last time, plus the faults.  A commit spends a prepared
march (two for the request, less one for the cache) and is the last of its
command or was a fault; a preparation adds one and is the last or was a fault.
Both sets are among the commands that ask for the target, which gives the
bound.  `Queued` and `Explained` follow a request to its march: a command comes
to its next target only with a result for this one, and a result "dispatched"
for a monster has a march.  `SnapshotCovers` is why a shared snapshot does not
make a report false: whoever overwrites it, every march that was on the map at
this command's request and still is, is in it, since marches leave the map and
never come back to it.  The proof reduces the scripts to three kinds of steps
(`GoesOn`, `MakesRequest`, `GameMoves`; `NextKinds`), of which each part of the
invariant has one lemma.  Results: `MarchTypes`, `RequestsCounted`,
`FormationsApart`, `DispatchesAreTrue` (an action property), and two that no
run checks: `HeroesAskedOnce`, that two requests for one hero quest never wait
at the server, whichever commands ask, and that a quest the client takes for
started has its request there; and `CommandsOnlyGoForward`, that a step leaves
a command alone, brings it nearer to its end, or is a counted fault, which
leaves of `CommandsEnd` that scripts return.

**Only model-checked:** liveness (`BatchEnds`, `EveryRequestAnswered`,
`ServedAgain`, `CallsEnd`, `CommandsEnd`, `FreeSlotIsUsed`, `DepartureIsSeen`,
`RoundsGoOn`), which is beyond TLAPS here.

## 5. Not modelled, and why

Pure I/O and parsing without state of its own: ADB's output, configuration,
MuMu manager, HTTP and workflow, kingdom guard, the Lua state scanner, the
parsers of receipts; what can fail in them is a failure of the command that
uses them.  Preferences (one file, written by the Tk thread alone).  The
launcher: it runs on the Tk thread alone, and its only effect on a manager,
closing and opening its window, is in `HuntSlots`.  `HuntBatchQueue`, which
only tests use, and the callbacks of single world hunts (gui.py 3155-3428),
which no window calls.  The agent in the game: its result, a transient fault
or an error, before or after the effect, is a choice of the models above it.
The older tapped march and the scene toggle, whose Lua changes what the screen
shows.  Research tools and recordings.

## 6. What is left

1. `MarchCommands` as a checked refinement of the one step of `IntelCommands`.
2. A composition of one window, its loops and the worker: one control flow per
   game process across all of them.
3. The safety half of the other liveness properties, for each that something
   can always be done, as `NoRequestIsStranded` says of the worker, and a measure
   that every fair step brings down, as `CommandsGoForward` has for the commands.
