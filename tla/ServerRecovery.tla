---------------------------- MODULE ServerRecovery ----------------------------
(***************************************************************************)
(* The recovery of the Frida server of one emulator.                       *)
(*                                                                         *)
(* A caller of FridaLuaClient runs an action against the server.  If the   *)
(* connection fails it recovers the server and runs the action once more.  *)
(* A recovery is a shell script that ADB runs on the emulator: it finds    *)
(* the server's process, ends it, waits for its endpoint and starts a new  *)
(* one.  Callers of one program share a lock and a generation number;      *)
(* programs (a CLI process, a resident worker) share only the emulator.    *)
(*                                                                         *)
(* A script that ADB stops waiting for may die or run on.  Every wait of   *)
(* the script ends with what it waited for or without it.                  *)
(***************************************************************************)
EXTENDS Integers, FiniteSets

CONSTANTS
  Callers,    \* clients and the threads that use them
  Programs,   \* processes of the operating system
  ProgramOf,  \* the program of every caller
  Servers,    \* pids a server may get
  None,
  Foreign,    \* a process that is not the server
  MaxCalls,   \* calls of all callers, to bound runs
  MaxFaults   \* server deaths, lost connections and timeouts, to bound runs

ASSUME RecoveryAssumption ==
  /\ ProgramOf \in [Callers -> Programs]
  /\ None \notin Servers \cup Callers
  /\ Foreign \notin Servers \cup {None}
  /\ MaxCalls \in Nat \ {0} /\ MaxFaults \in Nat

VARIABLES
  alive,       \* processes with the server's path and command line
  endpoint,    \* who listens at the forwarded port, or None
  deaf,        \* servers that listen and do not answer
  binary,      \* the server is installed on the emulator
  faults,
  script,      \* the script of every call, which may outlive the call
  overlapped,  \* two scripts have been running at the same time
  call,        \* the call every caller is in
  holder,      \* who holds the recovery lock of a program, or None
  generation,  \* _SERVER_RECOVERY_GENERATIONS of a program
  calls

device  == <<alive, endpoint, deaf, binary>>
program == <<call, holder, generation, calls>>
vars    == <<alive, endpoint, deaf, binary, faults, script, overlapped,
             call, holder, generation, calls>>

Numbers == 1..MaxCalls

NoCall   == [pc |-> "idle", n |-> 0, observed |-> 0]
NoScript == [at |-> "none", old |-> None]

Working   == {"count", "check", "term", "stopping", "killed", "free", "poll"}
Running   == {n \in Numbers : script[n].at \in Working}
At(n, at) == script[n].at = at
In(c, pc) == call[c].pc = pc

\* Past its waits for the old server the script has no use for its pid.
Goes(n, at) ==
  script' = [script EXCEPT
    ![n] = [at |-> at,
            old |-> IF at \in {"term", "stopping", "killed"} THEN @.old ELSE None]]

Moves(c, pc) == call' = [call EXCEPT ![c].pc = pc]
Ends(c) == call' = [call EXCEPT ![c] = NoCall]

Faulty == faults < MaxFaults /\ faults' = faults + 1

\* Does the server answer?
Answers == endpoint \in Servers \ deaf

-----------------------------------------------------------------------------
(* The emulator.                                                           *)

\* A server that finds its endpoint taken exits.
Binds(p) ==
  /\ p \in alive
  /\ endpoint # p
  /\ IF endpoint = None
     THEN endpoint' = p /\ UNCHANGED alive
     ELSE alive' = alive \ {p} /\ UNCHANGED endpoint
  /\ UNCHANGED <<deaf, binary, faults, script, overlapped, program>>

\* A mutant of Dies: the port stays taken.
Dies_Listening(p) ==
  /\ alive' = alive \ {p}
  /\ UNCHANGED <<endpoint, deaf, binary>>

Dies(p) ==
  /\ alive' = alive \ {p}
  /\ endpoint' = IF endpoint = p THEN None ELSE endpoint
  /\ deaf' = deaf \ {p}
  /\ UNCHANGED binary

ServerFails ==
  /\ Faulty
  /\ \/ \E p \in alive : Dies(p)
     \/ /\ endpoint \in Servers
        /\ deaf' = deaf \cup {endpoint}
        /\ UNCHANGED <<alive, endpoint, binary>>
     \/ /\ endpoint = None
        /\ endpoint' = Foreign
        /\ UNCHANGED <<alive, deaf, binary>>
  /\ UNCHANGED <<script, overlapped, program>>

ForeignLeaves ==
  /\ endpoint = Foreign
  /\ endpoint' = None
  /\ UNCHANGED <<alive, deaf, binary, faults, script, overlapped, program>>

-----------------------------------------------------------------------------
(* The script that restarts the server, exits 20 to 30 as "failed".        *)

\* More than one server is an error, one is the server to end.
Counts(n) ==
  /\ At(n, "count")
  /\ \/ /\ Cardinality(alive) > 1
        /\ Goes(n, "failed")
     \/ \E old \in Servers \cup {None} :
          /\ alive = {old} \ {None}
          /\ script' = [script EXCEPT ![n] = [at |-> "check", old |-> old]]
  /\ UNCHANGED <<device, faults, overlapped, program>>

\* Whoever listens must be that one server.
Checks(n) ==
  /\ At(n, "check")
  /\ Goes(n, IF endpoint \notin {None, script[n].old} THEN "failed"
             ELSE IF script[n].old = None THEN "free" ELSE "term")
  /\ UNCHANGED <<device, faults, overlapped, program>>

\* The server is told to end, unless it is gone already.
Terminates(n) ==
  /\ At(n, "term")
  /\ Goes(n, IF script[n].old \in alive THEN "stopping" ELSE "failed")
  /\ UNCHANGED <<device, faults, overlapped, program>>

\* A mutant of Stops: a server that cannot be killed is left behind.
Stops_Careless(n) ==
  /\ At(n, "stopping") \/ At(n, "killed")
  /\ \/ /\ Dies(script[n].old)
        /\ Goes(n, "free")
     \/ /\ script[n].old \in alive
        /\ Goes(n, IF At(n, "stopping") THEN "killed" ELSE "free")
        /\ UNCHANGED device
  /\ UNCHANGED <<faults, overlapped, program>>

\* The old server ends, or two seconds pass: it is killed, and then given up.
Stops(n) ==
  /\ At(n, "stopping") \/ At(n, "killed")
  /\ \/ /\ Dies(script[n].old)
        /\ Goes(n, "free")
     \/ /\ script[n].old \in alive
        /\ Goes(n, IF At(n, "stopping") THEN "killed" ELSE "failed")
        /\ UNCHANGED device
  /\ UNCHANGED <<faults, overlapped, program>>

\* A server is started as soon as nobody listens.  A pid is not reused while a
\* script remembers it.
Starts(n) ==
  /\ At(n, "free")
  /\ \/ /\ endpoint # None
        /\ Goes(n, "failed")
        /\ UNCHANGED alive
     \/ /\ endpoint = None
        /\ Goes(n, "poll")
        /\ IF binary
           THEN \E p \in Servers \ (alive \cup {script[m].old : m \in Numbers}) :
                  alive' = alive \cup {p}
           ELSE UNCHANGED alive
  /\ UNCHANGED <<endpoint, deaf, binary, faults, overlapped, program>>

\* A server listens, or five seconds pass.
Polls(n) ==
  /\ At(n, "poll")
  /\ Goes(n, IF endpoint \in Servers THEN "ok" ELSE "failed")
  /\ UNCHANGED <<device, faults, overlapped, program>>

\* A script that nobody waits for fails to write its message, or is killed.
Abandoned(n) ==
  /\ n \in Running
  /\ \A c \in Callers : call[c].n # n
  /\ Goes(n, "failed")
  /\ UNCHANGED <<device, faults, overlapped, program>>

ScriptStep(n) ==
  \/ Counts(n) \/ Checks(n) \/ Terminates(n) \/ Stops(n)
  \/ Starts(n) \/ Polls(n)

-----------------------------------------------------------------------------
(* The callers.                                                            *)

\* inspect_process or connect.
Calls(c) ==
  /\ In(c, "idle")
  /\ calls < MaxCalls
  /\ calls' = calls + 1
  /\ call' = [call EXCEPT ![c] = [pc |-> "first", n |-> calls + 1, observed |-> 0]]
  /\ UNCHANGED <<device, faults, script, overlapped, holder, generation>>

\* The action returns, or raises what is not a connection failure.
ActionEnds(c) ==
  /\ In(c, "first") \/ In(c, "retry")
  /\ Answers
  /\ Ends(c)
  /\ UNCHANGED <<device, faults, script, overlapped, holder, generation, calls>>

\* The connection fails, though the server may be well.  A second failure goes
\* to the caller.
ConnectionFails(c) ==
  /\ In(c, "first") \/ In(c, "retry")
  /\ IF Answers THEN Faulty ELSE UNCHANGED faults
  /\ IF In(c, "first") THEN Moves(c, "recover") ELSE Ends(c)
  /\ UNCHANGED <<device, script, overlapped, holder, generation, calls>>

\* The forward is not found, or the server is missing and cannot be installed.
CannotRecover(c) ==
  /\ In(c, "recover")
  /\ Faulty
  /\ Ends(c)
  /\ UNCHANGED <<device, script, overlapped, holder, generation, calls>>

\* _ensure_server_binary, then the generation is read before the lock is taken.
Observes(c) ==
  /\ In(c, "recover")
  /\ binary' = TRUE
  /\ call' = [call EXCEPT ![c].pc = "locking",
                          ![c].observed = generation[ProgramOf[c]]]
  /\ UNCHANGED <<alive, endpoint, deaf, faults, script, overlapped, holder,
                 generation, calls>>

\* Another caller has recovered the server since.
AlreadyRecovered(c) ==
  /\ In(c, "locking")
  /\ holder[ProgramOf[c]] = None
  /\ generation[ProgramOf[c]] # call[c].observed
  /\ Moves(c, "retry")
  /\ UNCHANGED <<device, faults, script, overlapped, holder, generation, calls>>

\* A mutant of Launches: the generation is not read again under the lock.
Launches_Again(c) ==
  /\ In(c, "locking")
  /\ holder[ProgramOf[c]] = None
  /\ holder' = [holder EXCEPT ![ProgramOf[c]] = c]
  /\ Moves(c, "running")
  /\ Goes(call[c].n, "count")
  /\ overlapped' = (overlapped \/ Running # {})
  /\ UNCHANGED <<device, faults, generation, calls>>

Launches(c) ==
  /\ In(c, "locking")
  /\ holder[ProgramOf[c]] = None
  /\ generation[ProgramOf[c]] = call[c].observed
  /\ holder' = [holder EXCEPT ![ProgramOf[c]] = c]
  /\ Moves(c, "running")
  /\ Goes(call[c].n, "count")
  /\ overlapped' = (overlapped \/ Running # {})
  /\ UNCHANGED <<device, faults, generation, calls>>

Releases(c) == holder' = [holder EXCEPT ![ProgramOf[c]] = None]

\* A mutant of ScriptAnswers: a success is not made known.
ScriptAnswers_Quiet(c) ==
  /\ In(c, "running")
  /\ Releases(c)
  /\ \/ /\ At(call[c].n, "ok")
        /\ Moves(c, "retry")
     \/ /\ At(call[c].n, "failed")
        /\ Ends(c)
  /\ UNCHANGED <<device, faults, script, overlapped, calls, generation>>

ScriptAnswers(c) ==
  /\ In(c, "running")
  /\ Releases(c)
  /\ \/ /\ At(call[c].n, "ok")
        /\ generation' = [generation EXCEPT ![ProgramOf[c]] = call[c].observed + 1]
        /\ Moves(c, "retry")
     \/ /\ At(call[c].n, "failed")
        /\ Ends(c)
        /\ UNCHANGED generation
  /\ UNCHANGED <<device, faults, script, overlapped, calls>>

\* A mutant of TimesOut: the lock is not released when the shell raises.
TimesOut_Locked(c) ==
  /\ In(c, "running")
  /\ Faulty
  /\ Ends(c)
  /\ UNCHANGED <<device, script, overlapped, holder, generation, calls>>

\* ADB waits ten seconds, which is less than the script may take.
TimesOut(c) ==
  /\ In(c, "running")
  /\ Faulty
  /\ Releases(c)
  /\ Ends(c)
  /\ UNCHANGED <<device, script, overlapped, generation, calls>>

CallerStep(c) ==
  \/ ActionEnds(c) \/ ConnectionFails(c) \/ CannotRecover(c) \/ Observes(c)
  \/ AlreadyRecovered(c) \/ Launches(c) \/ ScriptAnswers(c) \/ TimesOut(c)

-----------------------------------------------------------------------------
Init ==
  /\ \E p \in Servers : alive \in {{}, {p}}
  /\ endpoint \in alive \cup {None}
  /\ deaf = {}
  /\ binary \in BOOLEAN /\ (alive # {} => binary)
  /\ faults = 0
  /\ script = [n \in Numbers |-> NoScript]
  /\ overlapped = FALSE
  /\ call = [c \in Callers |-> NoCall]
  /\ holder = [p \in Programs |-> None]
  /\ generation = [p \in Programs |-> 0]
  /\ calls = 0

Next ==
  \/ \E p \in Servers : Binds(p)
  \/ ServerFails \/ ForeignLeaves
  \/ \E n \in Numbers : ScriptStep(n) \/ Abandoned(n)
  \/ \E c \in Callers : Calls(c) \/ CallerStep(c)

Spec == Init /\ [][Next]_vars

\* Every script goes on until it exits, every caller until its call is over.
FairSpec ==
  /\ Spec
  /\ \A n \in Numbers : WF_vars(ScriptStep(n))
  /\ \A c \in Callers : WF_vars(CallerStep(c))

-----------------------------------------------------------------------------
TypeOK ==
  /\ alive \subseteq Servers
  /\ endpoint \in alive \cup {None, Foreign}
  /\ deaf \subseteq alive \cap {endpoint}
  /\ binary \in BOOLEAN /\ overlapped \in BOOLEAN
  /\ faults \in 0..MaxFaults
  /\ script \in [Numbers -> [at : Working \cup {"none", "ok", "failed"},
                             old : Servers \cup {None}]]
  /\ call \in [Callers -> [pc : {"idle", "first", "recover", "locking",
                                 "running", "retry"},
                           n : 0..MaxCalls, observed : Nat]]
  /\ holder \in [Programs -> Callers \cup {None}]
  /\ generation \in [Programs -> Nat]
  /\ calls \in 0..MaxCalls

\* A program runs one recovery at a time, and only for a caller that has seen
\* no other recovery succeed since it asked (frida_driver.py:recover, and
\* test_recovery_is_serialized_per_adb_serial).
OneRecoveryAtATime ==
  \A c \in Callers : In(c, "running") =>
    /\ holder[ProgramOf[c]] = c
    /\ generation[ProgramOf[c]] = call[c].observed

\* An action is repeated only after a recovery that succeeded since the caller
\* asked for one, its own or another's.
RetryFollowsRecovery ==
  \A c \in Callers : In(c, "retry") =>
    generation[ProgramOf[c]] > call[c].observed

\* As long as scripts do not overlap there is at most one server process: a
\* script starts one only after the one it found has gone.  More than one ends
\* every later script with exit 20.
OneServer == ~overlapped => Cardinality(alive) <= 1

\* Every call comes to an end: no failed, late or abandoned script keeps the
\* lock.
CallsEnd == \A c \in Callers : ~In(c, "idle") ~> In(c, "idle")

=============================================================================
