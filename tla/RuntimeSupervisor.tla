------------------------- MODULE RuntimeSupervisor -------------------------
(***************************************************************************)
(* RuntimeSupervisor of the desktop app (sidecar_supervisor.rs), which     *)
(* keeps one runtime host process; the control client it talks through     *)
(* (sidecar_protocol.rs); and its callers: RuntimeRouter (runtime_router   *)
(* .rs) with its one active turn, the commands that ask the runtime        *)
(* something, and the maintenance of the memory database (commands.rs).    *)
(*                                                                         *)
(* An action is the code between two awaits.  A wait for an answer of the  *)
(* runtime has a time limit, so it may fail at any time; writing a request *)
(* has none of its own (see FairSpec).  The runtime may exit at any time.  *)
(* Process identities are reused once nobody holds one.                    *)
(***************************************************************************)
EXTENDS Integers, FiniteSets

CONSTANTS
    Callers,      \* concurrent tasks of the desktop app
    Processes,    \* identities of runtime processes
    MaxFailures,  \* MAX_FAILURES_IN_WINDOW
    None

ASSUME CallersAssumption ==
    /\ None \notin Callers \cup Processes
    /\ IsFiniteSet(Callers) /\ IsFiniteSet(Processes)
    /\ Cardinality(Processes) > Cardinality(Callers) + 1
ASSUME MaxFailuresAssumption == MaxFailures \in Nat \ {0}

VARIABLES
    connection,   \* RuntimeConnectionState, without the development fixture
    recent, old,  \* recent_failures: how many lie within FAILURE_WINDOW, how many before it
    managed,      \* the managed runtime
    alive,        \* the runtime processes that run
    gate,         \* who holds startup_gate
    storage,      \* who holds runtime_storage_gate
    active,       \* the router's active turn
    pc, stage,    \* where each caller stands, and in which of its calls
    client        \* the runtime whose client, or whose process, the caller holds

vars == <<connection, recent, old, managed, alive, gate, storage, active, pc, stage, client>>

Stages == {"none", "accept", "simulate", "request", "cancel", "stop"}
Steps == {"idle", "ensure", "gate", "look", "ping", "backoff", "start", "launch", "installed",
          "send", "await", "superseded", "failed", "count", "down", "take", "stopping",
          "maintenance"}

TypeOK ==
    /\ connection \in {"Cold", "Unavailable", "Starting", "Ready", "RestartBackoff",
                       "Quarantined", "ShuttingDown", "Stopped"}
    /\ recent \in Nat /\ old \in Nat
    /\ managed \in Processes \cup {None}
    /\ alive \subseteq Processes
    /\ gate \in Callers \cup {None}
    /\ storage \in Callers \cup {None}
    /\ active \in Callers \cup {None}
    /\ pc \in [Callers -> Steps]
    /\ stage \in [Callers -> Stages]
    /\ client \in [Callers -> Processes \cup {None}]

Init ==
    /\ connection \in {"Cold", "Unavailable"}
    /\ recent = 0 /\ old = 0
    /\ managed = None /\ alive = {}
    /\ gate = None /\ storage = None /\ active = None
    /\ pc = [c \in Callers |-> "idle"]
    /\ stage = [c \in Callers |-> "none"]
    /\ client = [c \in Callers |-> None]

GoTo(c, step) == pc' = [pc EXCEPT ![c] = step]
Forget(c) == client' = [client EXCEPT ![c] = None]

----------------------------------------------------------------------------
(* The calls.                                                              *)

\* start_simulation and the maintenance commands take runtime_storage_gate first; a cancel
\* without an active turn does not reach the supervisor
Begin(c, s) ==
    /\ pc[c] = "idle"
    /\ stage' = [stage EXCEPT ![c] = s]
    /\ \/ s = "request" /\ GoTo(c, "ensure") /\ UNCHANGED storage
       \/ s = "cancel" /\ active # None /\ GoTo(c, "ensure") /\ UNCHANGED storage
       \/ /\ s \in {"accept", "stop"}
          /\ storage = None /\ storage' = c
          /\ GoTo(c, IF s = "stop" /\ active = None THEN "down" ELSE "ensure")
    /\ UNCHANGED <<connection, recent, old, managed, alive, gate, active, client>>

\* a call is over: the turn gives up its slot, a gate is dropped with its guard, and
\* RuntimeRouter::shutdown goes on from its cancel to the supervisor's shutdown
Over(c) ==
    /\ GoTo(c, IF stage[c] = "stop" THEN "down" ELSE "idle")
    /\ stage' = IF stage[c] = "stop" THEN stage ELSE [stage EXCEPT ![c] = "none"]
    /\ storage' = IF stage[c] = "accept" THEN None ELSE storage
    /\ active' = IF active = c THEN None ELSE active
    /\ Forget(c)

\* RuntimeRouter::start, once the runtime is ready: the slot, then the spawned task calls
\* simulate, which makes the runtime ready once more.  Playback leases may be refused.  The
\* slot, the lease and the end of the storage gate are one step, for nothing here looks at
\* the slot in between
TurnAccepted(c) ==
    /\ stage[c] = "accept" /\ active = None
    /\ active' = c
    /\ storage' = None
    /\ stage' = [stage EXCEPT ![c] = "simulate"]
    /\ GoTo(c, "ensure")
    /\ Forget(c)

\* ensure_ready returns, and with it the guard of startup_gate
ReturnsClient(c, p) ==
    /\ gate' = None
    /\ \/ TurnAccepted(c)
       \/ stage[c] = "accept" /\ Over(c)
       \/ /\ stage[c] # "accept"
          /\ GoTo(c, "send")
          /\ client' = [client EXCEPT ![c] = p]
          /\ UNCHANGED <<storage, active, stage>>

ReturnsError(c) == Over(c) /\ gate' = IF gate = c THEN None ELSE gate

----------------------------------------------------------------------------
(* ensure_ready.                                                           *)

EnsureReady(c) ==
    /\ pc[c] = "ensure"
    /\ \/ connection = "Quarantined" /\ ReturnsError(c)
       \/ connection # "Quarantined" /\ GoTo(c, "gate")
          /\ UNCHANGED <<gate, storage, active, stage, client>>
    /\ UNCHANGED <<connection, recent, old, managed, alive>>

\* Mutant: a caller does not wait for the startup gate.
TakeGateWithoutWaiting(c) ==
    /\ pc[c] = "gate"
    /\ gate' = c
    /\ GoTo(c, "look")
    /\ UNCHANGED <<connection, recent, old, managed, alive, storage, active, stage, client>>

TakeGate(c) ==
    /\ pc[c] = "gate" /\ gate = None
    /\ gate' = c
    /\ GoTo(c, "look")
    /\ UNCHANGED <<connection, recent, old, managed, alive, storage, active, stage, client>>

\* live_client: no runtime, an exited one, one to be pinged, or try_wait fails
LiveClient(c) ==
    /\ pc[c] = "look"
    /\ \/ /\ managed = None
          /\ GoTo(c, "backoff")
          /\ UNCHANGED <<gate, storage, active, stage, client>>
       \/ /\ managed # None
          /\ GoTo(c, IF managed \in alive THEN "ping" ELSE "failed")
          /\ client' = [client EXCEPT ![c] = managed]
          /\ UNCHANGED <<gate, storage, active, stage>>
       \/ managed # None /\ ReturnsError(c)
    /\ UNCHANGED <<connection, recent, old, managed, alive>>

PingAnswered(c) ==
    /\ pc[c] = "ping" /\ client[c] \in alive
    /\ ReturnsClient(c, client[c])
    /\ UNCHANGED <<connection, recent, old, managed, alive>>

PingFails(c) ==
    /\ pc[c] = "ping"
    /\ GoTo(c, "failed")
    /\ UNCHANGED <<connection, recent, old, managed, alive, gate, storage, active, stage, client>>

\* apply_backoff looks at the failures, then sleeps
ApplyBackoff(c) ==
    /\ pc[c] = "backoff"
    /\ \/ recent + old >= MaxFailures /\ ReturnsError(c)
       \/ recent + old < MaxFailures /\ GoTo(c, "start")
          /\ UNCHANGED <<gate, storage, active, stage, client>>
    /\ UNCHANGED <<connection, recent, old, managed, alive>>

Held == {client[c] : c \in Callers} \cup {managed} \cup alive

\* set_starting, and launch up to the spawned process
Launch(c) ==
    /\ pc[c] = "start"
    /\ connection' = "Starting"
    /\ LET p == CHOOSE q \in Processes : q \notin Held IN
       /\ alive' = alive \cup {p}
       /\ client' = [client EXCEPT ![c] = p]
    /\ GoTo(c, "launch")
    /\ UNCHANGED <<recent, old, managed, gate, storage, active, stage>>

\* descriptor, control stream, handshake and first ping
LaunchSucceeds(c) ==
    /\ pc[c] = "launch" /\ client[c] \in alive
    /\ managed' = client[c]
    /\ GoTo(c, "installed")
    /\ UNCHANGED <<connection, recent, old, alive, gate, storage, active, stage, client>>

SetReady(c) ==
    /\ pc[c] = "installed"
    /\ connection' = "Ready"
    /\ ReturnsClient(c, client[c])
    /\ UNCHANGED <<recent, old, managed, alive>>

\* Mutant: a failed launch is tried again at once, uncounted.
LaunchFailsRetries(c) ==
    /\ pc[c] = "launch"
    /\ alive' = alive \ {client[c]}
    /\ Forget(c)
    /\ GoTo(c, "start")
    /\ UNCHANGED <<connection, recent, old, managed, gate, storage, active, stage>>

\* the child is killed with its handle (kill_on_drop)
LaunchFails(c) ==
    /\ pc[c] = "launch"
    /\ alive' = alive \ {client[c]}
    /\ Forget(c)
    /\ GoTo(c, "failed")
    /\ UNCHANGED <<connection, recent, old, managed, gate, storage, active, stage>>

\* Mutant: the runtime is forgotten and runs on.
KillManagedDetaches(c) ==
    /\ pc[c] \in {"failed", "superseded"}
    /\ managed' = None
    /\ GoTo(c, "count")
    /\ UNCHANGED <<connection, recent, old, alive, gate, storage, active, stage, client>>

\* the first half of record_failure: whatever runtime is managed now is killed
KillManaged(c) ==
    /\ pc[c] \in {"failed", "superseded"}
    /\ managed' = None
    /\ alive' = alive \ {managed}
    /\ GoTo(c, "count")
    /\ UNCHANGED <<connection, recent, old, gate, storage, active, stage, client>>

\* the second half: failures outside the window are dropped.  ensure_ready goes on after
\* the failure of an old runtime and returns after the failure of a new one, as every
\* other call does
RecordFailure(c) ==
    /\ pc[c] = "count"
    /\ recent' = recent + 1 /\ old' = 0
    /\ connection' = IF recent + 1 >= MaxFailures THEN "Quarantined" ELSE "RestartBackoff"
    /\ IF gate = c /\ client[c] # None
       THEN GoTo(c, "backoff") /\ Forget(c) /\ UNCHANGED <<gate, storage, active, stage>>
       ELSE ReturnsError(c)
    /\ UNCHANGED <<managed, alive>>

----------------------------------------------------------------------------
(* The control client.                                                     *)

\* cancel raises the generation and answers every older request of its session, pings
\* included, with Cancelled
Superseded(c) ==
    {d \in Callers \ {c} : client[d] = client[c] /\ pc[d] \in {"await", "ping"}}

Send(c) ==
    /\ pc[c] = "send"
    /\ LET gone == IF stage[c] \in {"cancel", "stop"} /\ client[c] \in alive
                   THEN Superseded(c) ELSE {}
       IN pc' = [d \in Callers |-> IF d = c THEN "await"
                                   ELSE IF d \in gone THEN "superseded" ELSE pc[d]]
    /\ UNCHANGED <<connection, recent, old, managed, alive, gate, storage, active, stage, client>>

\* a result, or an error reported by the runtime
Answered(c) ==
    /\ pc[c] = "await" /\ client[c] \in alive
    /\ Over(c)
    /\ UNCHANGED <<connection, recent, old, managed, alive, gate>>

\* any other error: disconnected, timed out, malformed
RequestFails(c) ==
    /\ pc[c] = "await"
    /\ GoTo(c, "failed")
    /\ UNCHANGED <<connection, recent, old, managed, alive, gate, storage, active, stage, client>>

----------------------------------------------------------------------------
(* shutdown, and the maintenance of the memory database that follows it.   *)

SetShuttingDown(c) ==
    /\ pc[c] = "down"
    /\ connection' = "ShuttingDown"
    /\ GoTo(c, "take")
    /\ UNCHANGED <<recent, old, managed, alive, gate, storage, active, stage, client>>

TakeManaged(c) ==
    /\ pc[c] = "take"
    /\ managed' = None
    /\ client' = [client EXCEPT ![c] = managed]
    /\ GoTo(c, "stopping")
    /\ UNCHANGED <<connection, recent, old, alive, gate, storage, active, stage>>

\* the taken process has exited, or was killed; the caller replaces the database
Stopped(c) ==
    /\ pc[c] = "stopping"
    /\ alive' = alive \ {client[c]}
    /\ Forget(c)
    /\ connection' = "Stopped"
    /\ GoTo(c, "maintenance")
    /\ UNCHANGED <<recent, old, managed, gate, storage, active, stage>>

MaintenanceDone(c) ==
    /\ pc[c] = "maintenance"
    /\ GoTo(c, "idle")
    /\ stage' = [stage EXCEPT ![c] = "none"]
    /\ storage' = None
    /\ UNCHANGED <<connection, recent, old, managed, alive, gate, active, client>>

----------------------------------------------------------------------------
Exit(p) ==
    /\ p \in alive
    /\ alive' = alive \ {p}
    /\ UNCHANGED <<connection, recent, old, managed, gate, storage, active, pc, stage, client>>

\* the oldest recent failure leaves the window; only the next failure drops it
TimePasses ==
    /\ recent > 0
    /\ recent' = recent - 1 /\ old' = old + 1
    /\ UNCHANGED <<connection, managed, alive, gate, storage, active, pc, stage, client>>

Step(c) ==
    \/ EnsureReady(c) \/ LiveClient(c) \/ PingAnswered(c) \/ PingFails(c)
    \/ ApplyBackoff(c) \/ Launch(c) \/ LaunchSucceeds(c) \/ SetReady(c) \/ LaunchFails(c)
    \/ KillManaged(c) \/ RecordFailure(c)
    \/ Send(c) \/ Answered(c) \/ RequestFails(c)
    \/ SetShuttingDown(c) \/ TakeManaged(c) \/ Stopped(c) \/ MaintenanceDone(c)

Next ==
    \/ \E c \in Callers: (\E s \in Stages: Begin(c, s)) \/ TakeGate(c) \/ Step(c)
    \/ \E p \in Processes: Exit(p)
    \/ TimePasses

Spec == Init /\ [][Next]_vars

\* Every step of a caller ends.  Waiting for an answer, a descriptor or the end of a process
\* has a time limit.  The client's writer lock and write_frame are outside it: a write that
\* the runtime does not read stands still until the runtime is killed, at the latest by the
\* caller whose earlier request runs out of time, and then fails with the pipe.  The tokio
\* mutexes serve their waiters in turn.
FairSpec == Spec /\ \A c \in Callers: WF_vars(Step(c)) /\ SF_vars(TakeGate(c))

----------------------------------------------------------------------------
(* Properties.                                                             *)

Stopping == {client[c] : c \in {d \in Callers : pc[d] = "stopping"}}
Launching == {client[c] : c \in {d \in Callers : pc[d] = "launch"}}

\* At most one runtime runs, not counting one that is being shut down, although failures
\* are recorded, and runtimes killed and launched, by callers that know nothing of one
\* another.
OneRuntime == \A p, q \in alive \ Stopping: p = q

\* A runtime that runs can still be stopped: it is the managed one, or some caller is
\* about to make it so, or to stop it.
NoOrphanedRuntime == alive \subseteq {managed} \cup Launching \cup Stopping

\* The router's slot belongs to a turn that is still under way, whatever its runtime did,
\* so that a later turn is not refused for ever.
SlotNotLeaked == active # None => stage[active] = "simulate" /\ pc[active] # "idle"

\* Every call returns: a runtime that hangs, exits or cannot be launched leaves nobody
\* waiting at the startup gate.
CallsReturn == \A c \in Callers: pc[c] # "idle" ~> pc[c] = "idle"

----------------------------------------------------------------------------
(* Statements of the repository that the code refutes.                     *)

\* "Cancellation | Superseded/late event | Ignore safely" (docs/reference/error-codes.md):
\* a request that was superseded by a cancellation does not harm the runtime.
SupersededIsIgnored ==
    [][\A c \in Callers: pc[c] = "superseded" /\ pc'[c] # "superseded" => alive \subseteq alive']_vars

\* "The runtime host owns the only live writer to this database. Stop it before the
\* workspace performs its validated, atomic replacement" (commands.rs).
MaintenanceIsExclusive == (\E c \in Callers: pc[c] = "maintenance") => alive = {}

\* "Runtime was quarantined [...]; restart the application" (sidecar_supervisor.rs).
QuarantineIsFinal == [][connection = "Quarantined" => connection' = "Quarantined"]_vars
=============================================================================
