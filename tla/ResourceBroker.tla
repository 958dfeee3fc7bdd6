--------------------------- MODULE ResourceBroker ---------------------------
(***************************************************************************)
(* The resource broker of crates/runtime-core/src/resource_broker.rs: it   *)
(* admits, queues, drops and cancels jobs, keeps the reservations of the   *)
(* admitted ones, the ledger of models resident on the GPU, the health of  *)
(* targets and the binding of an utterance to the target that speaks it.   *)
(*                                                                         *)
(* Every operation is one critical section of the broker's mutex and hence *)
(* one action, with two refinements.  The telemetry snapshot is read       *)
(* before the mutex is taken, so a call may decide by a time a little      *)
(* older than the state it finds.  And the loop of poll_ready is a step    *)
(* per queued job, during which `todo' (not empty) holds the mutex.        *)
(*                                                                         *)
(* Callers are not modelled: any operation may be called with any          *)
(* arguments, an admitted job may end at any time and a job id may be      *)
(* submitted again after that.  What a call returns and the diagnostics    *)
(* are left out; a call that fails (a telemetry error, an unknown model)   *)
(* changes nothing and is left out too.                                    *)
(***************************************************************************)
EXTENDS BrokerPressure, RoutingPolicy, Functions

CONSTANTS
    None,
    Jobs, Job,        \* job ids; Job[j]: the ResourceJob submitted under id j
    Targets, Target,  \* target ids; Target[t]: its ComputeTarget
    Models, Model,    \* model ids; Model[m]: the ModelResidencySpec registered for m
    Envelopes,        \* the envelopes warm-up may measure
    Utterances,
    Samples,          \* what telemetry may report, without its time: a BudgetSnapshot, and the
                      \* BrokerAccountedGpuUsage, which is read after it under a lock of its own
    VramCeiling, TransientAllowance, TransientGrace,
    OomFailuresBeforeQuarantine, QuarantineTime,
    SnapshotLag,      \* how much older than the state a snapshot may be
    Skew,             \* by how much an accounting may exceed the usage it is read with
    MaxTime           \* bound: the clock stops here

Amounts == [ram : Nat, resident : Nat, transient : Nat]
ActiveRecords == [target : Targets, outputStarted : BOOLEAN, cancelled : BOOLEAN,
                  overageEnds : Nat \cup {None}, charged : Amounts]
SnapshotRecords == [time : Nat, vramUsed : Nat, vramBudget : Nat, ramUsed : Nat, ramBudget : Nat,
                    gpu : 0 .. 100, accountedResident : Nat, accountedTransient : Nat]
EnvelopeRecords == [resident : Nat, p99 : Nat]
LedgerStates == {"Unregistered", "Cold", "Warming", "Loaded", "InFlight", "Evicting", "Quarantined"}
LedgerRecords == [state : LedgerStates, jobs : Nat, envelope : EnvelopeRecords, until : Nat,
                  disturbed : SUBSET {"registered", "cleared"}]

ASSUME NoneAssumption ==
    None \notin Jobs /\ None \notin Targets /\ None \notin Models /\ None \notin ActiveRecords

ASSUME JobAssumption ==
    /\ IsFiniteSet(Jobs)
    /\ \A j \in Jobs : /\ Job[j].foreground \in BOOLEAN
                       /\ Job[j].targets \in Seq(Targets)
                       /\ Job[j].utterance \in Utterances \cup {None}

ASSUME TargetAssumption ==
    \A t \in Targets : /\ Target[t].gpu \in {"None", "Shared", "Exclusive"}
                       /\ Target[t].model \in Models \cup {None}
                       /\ Target[t].ram \in Nat
                       /\ Target[t].resident \in Nat
                       /\ Target[t].transient \in Nat

ASSUME ModelAssumption ==
    /\ IsFiniteSet(Models)
    /\ \A m \in Models : Model[m].envelope \in EnvelopeRecords
    /\ Envelopes \subseteq EnvelopeRecords

ASSUME BrokerAssumption ==
    /\ Samples \subseteq SnapshotRecords
    /\ VramCeiling \in Nat
    /\ TransientAllowance \in Nat
    /\ TransientGrace \in Nat
    /\ QuarantineTime \in Nat
    /\ OomFailuresBeforeQuarantine \in Nat \ {0}
    /\ MaxTime \in Nat

\* The two reads of a sample may be torn: the accounting may claim allocations that the
\* usage does not show yet, or no longer.  Skew names the largest such claim.
ASSUME SkewAssumption ==
    /\ Skew \in Nat
    /\ \A s \in Samples : s.accountedResident + s.accountedTransient <= s.vramUsed + Skew

VARIABLES
    now,         \* telemetry's monotonic_ms
    active,      \* j -> ActiveRecord, None while j is not active
    queued,      \* the queued jobs
    ahead,       \* j -> the queued jobs with a lower `sequence' than the queued job j
    reserved,    \* Reservations: ram, resident, transient
    gpuLeases,   \* Reservations.gpu_leases
    exclusive,   \* Reservations.exclusive_gpu_job
    foreground,  \* Reservations.foreground_turn_job
    health,      \* t -> TargetHealth
    ledger,      \* m -> ModelResidencyRecord, state "Unregistered" when there is none
    binding,     \* u -> the target bound by mark_output_started, or None
    todo, snap   \* poll_ready in progress: jobs still to look at, and its snapshot

jobVars == <<active, queued, ahead, reserved, gpuLeases, exclusive, foreground>>
pollVars == <<todo, snap>>
brokerVars == <<pressureVars, jobVars, now, health, ledger, binding, pollVars>>

-----------------------------------------------------------------------------
(***************************************************************************)
(* Amounts.  u64 sums saturate and differences stop at zero; the amounts   *)
(* modelled are far from u64::MAX.                                         *)
(***************************************************************************)
Monus(a, b) == IF a < b THEN 0 ELSE a - b

ActiveJobs == {j \in Jobs : active[j] # None}

\* A snapshot: what telemetry reports and the time at which it was read.
Snapshots ==
    {[sample EXCEPT !.time = t] :
        sample \in Samples, t \in {t \in 0 .. now : t + SnapshotLag >= now}}

\* registered_model_for_target.
Registered(t) ==
    LET m == Target[t].model
    IN  /\ m # None
        /\ ledger[m].state # "Unregistered"
        /\ Model[m].target = t
        /\ Model[m].gpu = Target[t].gpu

\* The target needs no model of the ledger, or its model is loaded.
Servable(t) ==
    LET m == Target[t].model
    IN  m # None => (ledger[m].state # "Unregistered"
                       => Registered(t) /\ ledger[m].state \in {"Loaded", "InFlight"})

\* effective_job_estimate: the ledger already counts a registered model's
\* resident memory.
Estimate(t) ==
    IF Registered(t)
    THEN [ram |-> Target[t].ram, resident |-> 0,
          transient |-> Higher(Target[t].transient, ledger[Target[t].model].envelope.p99)]
    ELSE [ram |-> Target[t].ram, resident |-> Target[t].resident,
          transient |-> Target[t].transient]

HoldsResidentMemory(m) ==
    \/ ledger[m].state \in {"Warming", "Loaded", "InFlight", "Evicting"}
    \/ ledger[m].state = "Quarantined" /\ ledger[m].jobs > 0

LedgerResident ==
    SumFunctionOnSet([m \in Models |-> ledger[m].envelope.resident],
                     {m \in Models : HoldsResidentMemory(m)})

Ceiling(s) == Lower(VramCeiling, s.vramBudget)

\* The game's and the broker's VRAM without counting twice what telemetry
\* already sees of the broker's; `extra' is added to the resident part.
VramInUse(s, extra) ==
    s.vramUsed + Monus(reserved.resident + LedgerResident + extra, s.accountedResident)
               + Monus(reserved.transient, s.accountedTransient)

Overshoot(s, t) ==
    Monus(VramInUse(s, 0) + Estimate(t).resident + Estimate(t).transient, Ceiling(s))

\* A mistake: short transients are let through whatever their size.
FitsAnyTransient(s, t) ==
    /\ Servable(t)
    /\ s.ramUsed + reserved.ram + Estimate(t).ram <= s.ramBudget
    /\ VramInUse(s, 0) + Estimate(t).resident <= Ceiling(s)
    /\ Overshoot(s, t) = 0 \/ Target[t].duration \in 1 .. TransientGrace

\* target_fits.
Fits(s, t) ==
    /\ Servable(t)
    /\ s.ramUsed + reserved.ram + Estimate(t).ram <= s.ramBudget
    /\ VramInUse(s, 0) + Estimate(t).resident <= Ceiling(s)
    /\ \/ Overshoot(s, t) = 0
       \/ /\ Overshoot(s, t) <= TransientAllowance
          /\ Target[t].duration \in 1 .. TransientGrace

\* The band of the largest of the three ratios, in percent.
Band(s) ==
    LET AtLeast(pct) == \/ VramInUse(s, 0) * 100 >= pct * Ceiling(s)
                        \/ (s.ramUsed + reserved.ram) * 100 >= pct * s.ramBudget
                        \/ s.gpu >= pct
        Above(pct)   == \/ VramInUse(s, 0) * 100 > pct * Ceiling(s)
                        \/ (s.ramUsed + reserved.ram) * 100 > pct * s.ramBudget
                        \/ s.gpu > pct
    IN  IF AtLeast(90) THEN 4
        ELSE IF Above(82) THEN 3
        ELSE IF AtLeast(75) THEN 2
        ELSE IF Above(65) THEN 1
        ELSE 0

-----------------------------------------------------------------------------
(***************************************************************************)
(* Choosing a target.                                                      *)
(***************************************************************************)
PrivacyAllows(j, i) ==
    LET t == Job[j].targets[i]
        p == Job[j].targets[1]
    IN  IF i = 1 THEN BrokerAllows(Job[j].privacy, Target[t].provider)
        ELSE BrokerAllowsFallback(Job[j].privacy, Target[p].provider, Target[t].provider)

Quarantined(t, time) ==
    \/ health[t].until > time
    \/ \E m \in Models : /\ Model[m].target = t
                          /\ ledger[m].state = "Quarantined"
                          /\ ledger[m].until > time

BoundTo(j) == IF Job[j].utterance = None THEN None ELSE binding[Job[j].utterance]

\* Mistakes: an exclusive job looks only for another exclusive one, ...
ResidencyAvailableToExclusive(j, t) ==
    /\ Job[j].foreground => foreground = None
    /\ Servable(t)
    /\ Target[t].gpu # "None" => exclusive = None

\* ... or the job is admitted without a look at the foreground slot, as if
\* only the model and the GPU mattered.
ResidencyAvailableWithoutSlot(j, t) ==
    /\ Servable(t)
    /\ Target[t].gpu = "Shared" => exclusive = None
    /\ Target[t].gpu = "Exclusive" => gpuLeases = 0

\* residency_available.
ResidencyAvailable(j, t) ==
    /\ Job[j].foreground => foreground = None
    /\ Servable(t)
    /\ Target[t].gpu = "Shared" => exclusive = None
    /\ Target[t].gpu = "Exclusive" => gpuLeases = 0

Eligible(j, i, s) ==
    LET t == Job[j].targets[i]
    IN  /\ BoundTo(j) \in {None, t}
        /\ PrivacyAllows(j, i)
        /\ ~Quarantined(t, s.time)
        /\ Fits(s, t)
        /\ ResidencyAvailable(j, t)

\* select_target_locked: the primary if it is eligible, else the first fallback
\* that is.
Selects(j, i, s) ==
    /\ i \in DOMAIN Job[j].targets
    /\ Eligible(j, i, s)
    /\ \A k \in 1 .. i - 1 : ~Eligible(j, k, s)

Placeable(j, s) == \E i \in DOMAIN Job[j].targets : Eligible(j, i, s)

\* terminal_rejection: waiting cannot help (privacy, binding), or every
\* authorized target is quarantined.
Hopeless(j, s) ==
    LET allowed == {Job[j].targets[i] : i \in {i \in DOMAIN Job[j].targets : PrivacyAllows(j, i)}}
    IN  \/ BoundTo(j) # None /\ BoundTo(j) \notin allowed
        \/ \A t \in allowed : Quarantined(t, s.time)

IsLate(j, s) == Job[j].deadline # None /\ s.time > Job[j].deadline
IsStale(j, s) == Job[j].visual /\ s.time > Job[j].captured + Job[j].maxAge

-----------------------------------------------------------------------------
(***************************************************************************)
(* Reserving and releasing.                                                *)
(***************************************************************************)
\* expire_transient_overages_locked: the records after it.
Expired(time) ==
    [j \in Jobs |->
        IF active[j] # None /\ active[j].overageEnds # None /\ time > active[j].overageEnds
        THEN [active[j] EXCEPT !.cancelled = TRUE]
        ELSE active[j]]

\* A model's record when a job starts to run on it.
ModelReserved(m) ==
    [state |-> "InFlight", jobs |-> ledger[m].jobs + 1,
     envelope |-> ledger[m].envelope, until |-> ledger[m].until,
     disturbed |-> ledger[m].disturbed]

\* admit_locked and reserve.  The record's `charged' is history: what was
\* reserved for the job, which the code does not remember.
Admit(j, t, s) ==
    /\ active' = [Expired(s.time) EXCEPT ![j] =
          [target |-> t, outputStarted |-> FALSE, cancelled |-> FALSE,
           overageEnds |-> IF Overshoot(s, t) > 0 THEN s.time + TransientGrace ELSE None,
           charged |-> Estimate(t)]]
    /\ reserved' = [ram |-> reserved.ram + Estimate(t).ram,
                    resident |-> reserved.resident + Estimate(t).resident,
                    transient |-> reserved.transient + Estimate(t).transient]
    /\ gpuLeases' = IF Target[t].gpu # "None" THEN gpuLeases + 1 ELSE gpuLeases
    /\ exclusive' = IF Target[t].gpu = "Exclusive" THEN j ELSE exclusive
    /\ foreground' = IF Job[j].foreground THEN j ELSE foreground
    /\ ledger' = IF Registered(t)
                 THEN [ledger EXCEPT ![Target[t].model] = ModelReserved(Target[t].model)]
                 ELSE ledger

\* Mistakes: release gives back the target's declared figures although the
\* model's measured ones were reserved, ...
RefundDeclared(t) ==
    [ram |-> Target[t].ram, resident |-> Target[t].resident, transient |-> Target[t].transient]

\* ... marks the model idle when the first of its jobs ends, ...
ModelReleasedEarly(m) ==
    [ledger[m] EXCEPT !.jobs = Monus(@, 1), !.state = IF @ = "InFlight" THEN "Loaded" ELSE @]

\* ... or marks it idle whatever happened to it while the job ran.
ModelReleasedBlindly(m) ==
    [ledger[m] EXCEPT !.jobs = Monus(@, 1), !.state = IF ledger[m].jobs <= 1 THEN "Loaded" ELSE @]

\* What release gives back: not what was reserved, but the estimate computed
\* again from the ledger as it is now.
Refund(t) == Estimate(t)

\* A model's record when a job that ran on it ends.
ModelReleased(m) ==
    [state |-> IF ledger[m].state = "InFlight" /\ ledger[m].jobs <= 1 THEN "Loaded"
               ELSE ledger[m].state,
     jobs |-> Monus(ledger[m].jobs, 1),
     envelope |-> ledger[m].envelope, until |-> ledger[m].until,
     disturbed |-> ledger[m].disturbed]

\* finish_lease's half of the bookkeeping, release.
Release(j) ==
    LET t == active[j].target
        m == Target[t].model
    IN  /\ active' = [active EXCEPT ![j] = None]
        /\ reserved' = [ram |-> Monus(reserved.ram, Refund(t).ram),
                        resident |-> Monus(reserved.resident, Refund(t).resident),
                        transient |-> Monus(reserved.transient, Refund(t).transient)]
        /\ gpuLeases' = IF Target[t].gpu # "None" THEN Monus(gpuLeases, 1) ELSE gpuLeases
        /\ exclusive' = IF exclusive = j THEN None ELSE exclusive
        /\ foreground' = IF foreground = j THEN None ELSE foreground
        /\ ledger' = IF Registered(t) THEN [ledger EXCEPT ![m] = ModelReleased(m)] ELSE ledger

-----------------------------------------------------------------------------
(***************************************************************************)
(* Submitting.                                                             *)
(***************************************************************************)
Unlocked == todo = {}

\* What every call that samples does first: overages expire, pressure follows.
Observe(s) ==
    /\ active' = Expired(s.time)
    /\ UpdatePressure(Band(s), 0)
    /\ UNCHANGED <<reserved, gpuLeases, exclusive, foreground, ledger>>

\* A mistake: only the active jobs are searched for a duplicate.
KnownActive(j) == active[j] # None

Known(j) == active[j] # None \/ j \in queued

\* drop_before_admission, with the pressure just updated.
DroppedOnArrival(j, s) ==
    \/ Job[j].policy = "DropIfLate" /\ IsLate(j, s)
    \/ IsStale(j, s)
    \/ /\ Job[j].visual
       /\ Job[j].policy = "DropUnderPressure"
       /\ NewPressure(Band(s)) # "Green"

\* The queued jobs that j supersedes.
Superseded(j) ==
    {q \in queued : /\ Job[j].policy = "Supersede"
                    /\ Job[q].policy = "Supersede"
                    /\ Job[q].key = Job[j].key}

\* The jobs of S leave the queue.
Dequeue(S) ==
    /\ queued' = queued \ S
    /\ ahead' = [k \in Jobs |-> IF k \in S THEN {} ELSE ahead[k] \ S]

Considered(j, s) == Unlocked /\ ~Known(j) /\ ~DroppedOnArrival(j, s)

SubmitTurnedAway(j, s) ==
    /\ Unlocked
    /\ Known(j) \/ DroppedOnArrival(j, s)
    /\ Observe(s)
    /\ UNCHANGED <<queued, ahead, now, health, binding, pollVars>>

SubmitAdmitted(j, s) ==
    /\ Considered(j, s)
    /\ \E i \in DOMAIN Job[j].targets :
          Selects(j, i, s) /\ Admit(j, Job[j].targets[i], s)
    /\ UpdatePressure(Band(s), 0)
    /\ Dequeue(Superseded(j))
    /\ UNCHANGED <<now, health, binding, pollVars>>

\* Rejected for good, or dropped because nothing fits; what j superseded is gone
\* all the same.
SubmitRejected(j, s) ==
    /\ Considered(j, s)
    /\ ~Placeable(j, s)
    /\ Hopeless(j, s) \/ Job[j].policy = "DropUnderPressure"
    /\ Observe(s)
    /\ Dequeue(Superseded(j))
    /\ UNCHANGED <<now, health, binding, pollVars>>

SubmitQueued(j, s) ==
    /\ Considered(j, s)
    /\ ~Placeable(j, s)
    /\ ~Hopeless(j, s)
    /\ Job[j].policy # "DropUnderPressure"
    /\ active' = Expired(s.time)
    /\ UpdatePressure(Band(s), 1)
    /\ queued' = (queued \ Superseded(j)) \cup {j}
    /\ ahead' = [k \in Jobs |-> IF k = j THEN queued \ Superseded(j)
                               ELSE IF k \in Superseded(j) THEN {}
                               ELSE ahead[k] \ Superseded(j)]
    /\ UNCHANGED <<reserved, gpuLeases, exclusive, foreground, ledger, now, health, binding, pollVars>>

Submit(j, s) ==
    SubmitTurnedAway(j, s) \/ SubmitAdmitted(j, s) \/ SubmitRejected(j, s) \/ SubmitQueued(j, s)

-----------------------------------------------------------------------------
(***************************************************************************)
(* poll_ready, one queued job per step, and refresh_pressure.              *)
(***************************************************************************)
RefreshPressure(s) ==
    /\ Unlocked
    /\ Observe(s)
    /\ UNCHANGED <<queued, ahead, now, health, binding, pollVars>>

PollStart(s) ==
    /\ Unlocked
    /\ queued # {}
    /\ Observe(s)
    /\ todo' = queued
    /\ snap' = s
    /\ UNCHANGED <<queued, ahead, now, health, binding>>

\* queue_order: priority, then deadline, then the order of submission.
Before(j, k) ==
    LET Due(q) == IF Job[q].deadline = None THEN MaxTime + 1 ELSE Job[q].deadline
    IN  \/ Job[j].priority > Job[k].priority
        \/ /\ Job[j].priority = Job[k].priority
           /\ Due(j) < Due(k) \/ (Due(j) = Due(k) /\ j \in ahead[k])

PollNext(j) ==
    /\ j \in todo
    /\ \A k \in todo \ {j} : Before(j, k)
    /\ todo' = todo \ {j}
    /\ snap' = IF todo' = {} THEN None ELSE snap

Dropped(j) == (Job[j].policy = "DropIfLate" /\ IsLate(j, snap)) \/ IsStale(j, snap)

PollDrops(j) ==
    /\ PollNext(j)
    /\ Dropped(j)
    /\ Dequeue({j})
    /\ UNCHANGED <<pressureVars, active, reserved, gpuLeases, exclusive, foreground,
                   ledger, now, health, binding>>

PollAdmits(j) ==
    /\ PollNext(j)
    /\ ~Dropped(j)
    /\ \E i \in DOMAIN Job[j].targets :
          Selects(j, i, snap) /\ Admit(j, Job[j].targets[i], snap)
    /\ Dequeue({j})
    /\ UNCHANGED <<pressureVars, now, health, binding>>

PollKeeps(j) ==
    /\ PollNext(j)
    /\ ~Dropped(j)
    /\ ~Placeable(j, snap)
    /\ UNCHANGED <<pressureVars, jobVars, ledger, now, health, binding>>

PollStep == \E j \in Jobs : PollDrops(j) \/ PollAdmits(j) \/ PollKeeps(j)

-----------------------------------------------------------------------------
(***************************************************************************)
(* The life of a lease.                                                    *)
(***************************************************************************)
Cancel(j) ==
    /\ Unlocked
    /\ \/ j \in queued /\ Dequeue({j}) /\ UNCHANGED active
       \/ /\ active[j] # None
          /\ active' = [active EXCEPT ![j].cancelled = TRUE]
          /\ UNCHANGED <<queued, ahead>>
    /\ UNCHANGED <<pressureVars, reserved, gpuLeases, exclusive, foreground, ledger,
                   now, health, binding, pollVars>>

\* finish_lease: ResourceLease::complete, or its drop.
FinishLease(j, completed) ==
    /\ Unlocked
    /\ active[j] # None
    /\ Release(j)
    /\ health' = IF completed
                 THEN [health EXCEPT ![active[j].target] = [ooms |-> 0, until |-> 0]]
                 ELSE health
    /\ UNCHANGED <<pressureVars, queued, ahead, now, binding, pollVars>>

MarkOutputStarted(j) ==
    /\ Unlocked
    /\ active[j] # None
    /\ active' = [active EXCEPT ![j].outputStarted = TRUE]
    /\ binding' = IF Job[j].utterance = None THEN binding
                  ELSE [binding EXCEPT ![Job[j].utterance] = active[j].target]
    /\ UNCHANGED <<pressureVars, queued, ahead, reserved, gpuLeases, exclusive, foreground,
                   ledger, now, health, pollVars>>

FinishUtterance(u) ==
    /\ Unlocked
    /\ binding' = [binding EXCEPT ![u] = None]
    /\ UNCHANGED <<pressureVars, jobVars, ledger, now, health, pollVars>>

\* report_oom.  The count is saturated at the threshold it is compared with.
ReportOom(j, s) ==
    LET t == active[j].target
        m == Target[t].model
        ooms == Lower(health[t].ooms + 1, OomFailuresBeforeQuarantine)
        quarantine == ooms = OomFailuresBeforeQuarantine
        until == s.time + QuarantineTime
    IN  /\ Unlocked
        /\ active[j] # None
        /\ health' = [health EXCEPT ![t] =
              [ooms |-> ooms, until |-> IF quarantine THEN until ELSE @.until]]
        /\ ledger' = IF quarantine /\ m # None /\ ledger[m].state # "Unregistered"
                     THEN [ledger EXCEPT ![m].state = "Quarantined", ![m].until = until]
                     ELSE ledger
        /\ UNCHANGED <<pressureVars, jobVars, now, binding, pollVars>>

-----------------------------------------------------------------------------
(***************************************************************************)
(* The ledger of resident models.                                          *)
(***************************************************************************)
JobsOn(m) == {j \in ActiveJobs : Target[active[j].target].model = m}

ChangeLedger(m, record) ==
    /\ Unlocked
    /\ ledger' = [ledger EXCEPT ![m] = record]
    /\ UNCHANGED <<pressureVars, jobVars, now, health, binding, pollVars>>

\* The record's `disturbed' is history: what happened to the model under running jobs.
Disturbed(m, what) == ledger[m].disturbed \cup (IF JobsOn(m) = {} THEN {} ELSE {what})

\* register_model_residency; model and target ids are unique in the ledger.  It
\* does not look at the jobs that already run on the model's target.
RegisterModel(m) ==
    /\ ledger[m].state = "Unregistered"
    /\ \A n \in Models : Model[n].target = Model[m].target => ledger[n].state = "Unregistered"
    /\ ChangeLedger(m, [state |-> "Cold", jobs |-> 0, envelope |-> Model[m].envelope, until |-> 0,
                        disturbed |-> Disturbed(m, "registered")])

BeginWarming(m, s) ==
    /\ ledger[m].state = "Cold"
    /\ VramInUse(s, 0) + ledger[m].envelope.resident <= Ceiling(s)
    /\ ChangeLedger(m, [ledger[m] EXCEPT !.state = "Warming"])

MarkLoaded(m, measured, s) ==
    /\ ledger[m].state = "Warming"
    /\ VramInUse(s, measured.resident - ledger[m].envelope.resident) <= Ceiling(s)
    /\ ChangeLedger(m, [ledger[m] EXCEPT !.state = "Loaded", !.envelope = measured])

\* begin_model_eviction and mark_model_cold, by transition_idle_model.
TransitionIdle(m, from, to) ==
    /\ ledger[m].state = from
    /\ ledger[m].jobs = 0
    /\ ChangeLedger(m, [ledger[m] EXCEPT !.state = to])

QuarantineModel(m, until) ==
    /\ ledger[m].state # "Unregistered"
    /\ ChangeLedger(m, [ledger[m] EXCEPT !.state = "Quarantined", !.until = until])

\* clear_model_quarantine: nor does it look at the jobs still running on the model.
ClearQuarantine(m, s) ==
    /\ ledger[m].state = "Quarantined"
    /\ s.time >= ledger[m].until
    /\ ChangeLedger(m, [ledger[m] EXCEPT !.state = "Cold", !.until = 0,
                                         !.disturbed = Disturbed(m, "cleared")])

LedgerStep ==
    \E m \in Models :
        \/ RegisterModel(m)
        \/ \E s \in Snapshots :
              \/ BeginWarming(m, s)
              \/ \E measured \in Envelopes : MarkLoaded(m, measured, s)
              \/ ClearQuarantine(m, s)
        \/ TransitionIdle(m, "Loaded", "Evicting")
        \/ TransitionIdle(m, "Evicting", "Cold")
        \/ \E until \in 0 .. MaxTime : QuarantineModel(m, until)

-----------------------------------------------------------------------------
\* Telemetry's clock.
Tick ==
    /\ Unlocked
    /\ now < MaxTime
    /\ now' = now + 1
    /\ UNCHANGED <<pressureVars, jobVars, ledger, health, binding, pollVars>>

BrokerInit ==
    /\ PressureInit
    /\ now = 0
    /\ active = [j \in Jobs |-> None]
    /\ queued = {}
    /\ ahead = [j \in Jobs |-> {}]
    /\ reserved = [ram |-> 0, resident |-> 0, transient |-> 0]
    /\ gpuLeases = 0
    /\ exclusive = None
    /\ foreground = None
    /\ health = [t \in Targets |-> [ooms |-> 0, until |-> 0]]
    /\ ledger = [m \in Models |-> [state |-> "Unregistered", jobs |-> 0,
                                   envelope |-> Model[m].envelope, until |-> 0,
                                   disturbed |-> {}]]
    /\ binding = [u \in Utterances |-> None]
    /\ todo = {}
    /\ snap = None

Next ==
    \/ \E s \in Snapshots :
          \/ \E j \in Jobs : Submit(j, s) \/ ReportOom(j, s)
          \/ RefreshPressure(s)
          \/ PollStart(s)
    \/ PollStep
    \/ \E j \in Jobs :
          \/ Cancel(j)
          \/ MarkOutputStarted(j)
          \/ \E completed \in BOOLEAN : FinishLease(j, completed)
    \/ \E u \in Utterances : FinishUtterance(u)
    \/ LedgerStep
    \/ Tick

Spec == BrokerInit /\ [][Next]_brokerVars

-----------------------------------------------------------------------------
(***************************************************************************)
(* Properties.                                                             *)
(***************************************************************************)
\* The types of the broker's state.
TypeOK ==
    /\ PressureTypeOK
    /\ now \in Nat
    /\ active \in [Jobs -> ActiveRecords \cup {None}]
    /\ queued \subseteq Jobs
    /\ ahead \in [Jobs -> SUBSET Jobs]
    /\ reserved \in Amounts
    /\ gpuLeases \in Nat
    /\ exclusive \in Jobs \cup {None}
    /\ foreground \in Jobs \cup {None}
    /\ health \in [Targets -> [ooms : Nat, until : Nat]]
    /\ ledger \in [Models -> LedgerRecords]
    /\ binding \in [Utterances -> Targets \cup {None}]
    /\ todo \subseteq queued
    /\ todo # {} => snap \in SnapshotRecords

\* The foreground slot (foreground_turn_job) is held by the one active job that
\* speaks for a turn, through every order of submits, polls, releases: it is
\* neither lost to a job that ended nor shared by two.
SlotHeldByItsJob ==
    \A j \in Jobs : foreground = j <=> (active[j] # None /\ Job[j].foreground)

\* gpu_leases and exclusive_gpu_job are kept apart from `active': together they
\* must ensure that a job with an Exclusive GPU lease overlaps no other GPU job
\* ("No other GPU-resident job may overlap this lease").
ExclusiveRunsAlone ==
    \A j, k \in ActiveJobs :
        j # k /\ Target[active[j].target].gpu = "Exclusive" => Target[active[k].target].gpu = "None"

\* Nothing of the kind `what' happened to a model while a job ran on it.
Never(what) == \A m \in Models : what \notin ledger[m].disturbed

\* release computes what it gives back anew, from a ledger that changed since
\* reserve.  Whatever changed, it gives back exactly the job's RAM and no resident
\* VRAM of another job.  Unless a model was registered under a running job, it gives
\* back all of the job's resident VRAM; and unless a model was registered or its
\* quarantine cleared under one, exactly what reserve took, through warm-ups,
\* quarantines and out-of-memory reports in between: nothing is reserved when
\* nothing runs.
ReservationsCoverActiveJobs ==
    LET Sum(F(_)) == SumFunction([j \in ActiveJobs |-> F(active[j].charged)])
    IN  /\ reserved.ram = Sum(LAMBDA c : c.ram)
        /\ reserved.resident >= Sum(LAMBDA c : c.resident)
        /\ Never("registered") =>
              /\ reserved.resident = Sum(LAMBDA c : c.resident)
              /\ Never("cleared") => reserved.transient = Sum(LAMBDA c : c.transient)

\* All VRAM the broker has promised, to jobs and to models, stays within the
\* configured ceiling plus the transient allowance, whichever way samples,
\* warm-ups, measurements and admissions interleave: samples torn between their
\* two locks cost at most Skew, once and not once per job.  (A model whose
\* quarantine is cleared under its jobs drops out of the sum and comes back
\* unchecked when it is quarantined again, so such a ledger is excepted.)
NeverOvercommitted ==
    Never("cleared") => reserved.resident + LedgerResident + reserved.transient
                           <= VramCeiling + TransientAllowance + Skew

\* While a job runs on a registered model the ledger keeps the model: it is in
\* flight or quarantined, never loaded-and-evictable, evicting, warming or cold,
\* and the count of its jobs is right, unless the model was registered or cleared
\* under a running job.  Even then the count is never too high, so that a model
\* whose jobs have ended can be evicted; and the jobs it does count keep it, as
\* long as it is not cleared under them.
ModelKeptWhileInFlight ==
    \A m \in Models :
        LET users == {j \in JobsOn(m) : Registered(active[j].target)}
            kept  == ledger[m].state \in {"InFlight", "Quarantined"}
        IN  /\ ledger[m].jobs <= Cardinality(users)
            /\ "cleared" \notin ledger[m].disturbed => (ledger[m].jobs > 0 => kept)
            /\ ledger[m].disturbed = {} => /\ users # {} => kept
                                           /\ ledger[m].jobs = Cardinality(users)

\* The test loaded_model_cannot_be_evicted_while_a_job_is_in_flight: no eviction begins
\* while a job runs that was admitted on the loaded model (one that is charged for no
\* resident memory of its own, since the ledger counts it).  The test has one job; with
\* two the code does not keep it.  A job that was running when the model was registered
\* is not counted at its start but is at its end, and the model then counts as idle under
\* the second job.
NoEvictionInFlight ==
    [][\A m \in Models :
          ledger[m].state = "Loaded" /\ ledger'[m].state = "Evicting"
            => \A j \in JobsOn(m) : active[j].charged.resident = Target[active[j].target].resident
      ]_brokerVars

\* A model leaves quarantine only by clear_model_quarantine after its time, not
\* because a job that was running on it ends.  (Test
\* repeated_oom_quarantines_residency_until_explicit_expiry_clear.)
QuarantineOutlivesJobs ==
    [][\A m \in Models :
          ledger[m].state = "Quarantined" /\ ledger'[m].state # "Quarantined"
            => ledger'[m].state = "Cold" /\ now >= ledger[m].until]_brokerVars

\* "Keep only the newest queued job with this coalescing key" (DropPolicy): at
\* most one queued job has a given key.  And every job has one place in the
\* queue and none when it is active, so that poll_ready meets the jobs in one
\* order and cannot admit one twice.
QueueIsCoherent ==
    /\ \A j, k \in queued :
          (/\ j # k
           /\ Job[j].policy = "Supersede"
           /\ Job[k].policy = "Supersede") => Job[j].key # Job[k].key
    /\ \A j \in queued : active[j] = None /\ ahead[j] \subseteq queued \ {j}
    /\ \A j, k \in queued : j # k => (j \in ahead[k] <=> k \notin ahead[j])

Slot == INSTANCE ForegroundSlot WITH Owners <- Jobs, holder <- foreground

\* The broker implements the foreground slot that TurnSupervisor relies on: the
\* slot never passes from one job to another without having been free.
ImplementsForegroundSlot == Slot!Spec

\* mark_output_started's comment: "From this point onward an utterance's model
\* binding is immutable".  Two jobs of an utterance admitted on different targets
\* before either began to speak both write the binding, so this is violated.
BindingIsImmutable ==
    [][\A u \in Utterances : binding[u] # None => binding'[u] \in {binding[u], None}]_brokerVars
=============================================================================
