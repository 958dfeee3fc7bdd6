----------------------- MODULE ResourceBroker_proofs ------------------------
(***************************************************************************)
(* The resource broker, for any jobs, targets, models and snapshots.       *)
(*                                                                         *)
(* Leases: the foreground slot belongs to the one foreground job, a job    *)
(* with the GPU to itself overlaps no other GPU job, and the broker        *)
(* implements ForegroundSlot.  The reservations are redundant with         *)
(* `active', so the invariant says how they agree: gpu_leases counts the   *)
(* GPU jobs, exclusive_gpu_job names the exclusive one, and no job that is *)
(* queued (or still to be looked at by a poll) is active, for such a job   *)
(* would be reserved twice.                                                *)
(*                                                                         *)
(* Ledger: a model in use is kept and its jobs are counted, the            *)
(* reservations are the sum of the charges of the active jobs, and the     *)
(* VRAM promised stays under the ceiling, its transient allowance and the  *)
(* skew of a torn sample.  release looks the model of a job up again       *)
(* instead of remembering what was reserved, so these rest on how the      *)
(* answer may have moved: a model registered under a running job lowers    *)
(* the job's resident estimate and never raises it, and one cleared under  *)
(* a job may change its transient estimate.                                *)
(***************************************************************************)
EXTENDS ResourceBroker, FiniteSetTheorems, TLAPS

Gpu(j) == Target[active[j].target].gpu
GpuJobs == {j \in Jobs : active[j] # None /\ Gpu(j) # "None"}

LeasesCounted == gpuLeases = Cardinality(GpuJobs)

ExclusiveNamed == \A j \in Jobs : exclusive = j <=> (active[j] # None /\ Gpu(j) = "Exclusive")

QueuedAreIdle == \A j \in queued : active[j] = None

LeaseInv == SlotHeldByItsJob /\ ExclusiveRunsAlone /\ LeasesCounted /\ ExclusiveNamed

\* Job k is active in f, on the same target and at the same charge, if and only if
\* it is active now.
SameJob(k, f) ==
    /\ f[k] = None <=> active[k] = None
    /\ active[k] # None => f[k].target = active[k].target /\ f[k].charged = active[k].charged

IInv == TypeOK /\ FloorIsKept /\ QueuedAreIdle /\ LeaseInv

\* The foreground slot is left alone, granted when free, or given back.
SlotStep == Slot!Next \/ UNCHANGED foreground

-----------------------------------------------------------------------------
(***************************************************************************)
(* Facts about the helpers.                                                *)
(***************************************************************************)
\* A snapshot is a sample with a time.
LEMMA SnapshotType ==
    ASSUME TypeOK, NEW s \in Snapshots
    PROVE  s \in SnapshotRecords /\ s.time \in Nat
BY BrokerAssumption DEF Snapshots, SnapshotRecords, TypeOK

\* What is charged for a target is an amount.
LEMMA EstimateType ==
    ASSUME TypeOK, NEW t \in Targets
    PROVE  Estimate(t) \in Amounts
<1>1. CASE Registered(t)
  <2>1. Target[t].model \in Models
    BY <1>1, TargetAssumption DEF Registered
  <2>2. ledger[Target[t].model].envelope.p99 \in Nat
    BY <2>1 DEF TypeOK, EnvelopeRecords, LedgerRecords
  <2> QED
    BY <1>1, <2>2, TargetAssumption DEF Estimate, Amounts, Higher
<1>2. CASE ~Registered(t)
  BY <1>2, TargetAssumption DEF Estimate, Amounts
<1> QED
  BY <1>1, <1>2

\* Expiring overages cancels jobs but neither starts nor ends one.
LEMMA ExpiredKeepsJobs ==
    ASSUME TypeOK, NEW time \in Nat
    PROVE  /\ Expired(time) \in [Jobs -> ActiveRecords \cup {None}]
           /\ \A j \in Jobs : SameJob(j, Expired(time))
<1> SUFFICES ASSUME NEW j \in Jobs
             PROVE  /\ Expired(time)[j] \in ActiveRecords \cup {None}
                    /\ SameJob(j, Expired(time))
  BY DEF Expired
<1>1. active[j] # None => /\ active[j] \in ActiveRecords
                          /\ [active[j] EXCEPT !.cancelled = TRUE] \in ActiveRecords
                          /\ [active[j] EXCEPT !.cancelled = TRUE].target = active[j].target
                          /\ [active[j] EXCEPT !.cancelled = TRUE].charged = active[j].charged
  BY DEF TypeOK, ActiveRecords
<1> QED
  BY <1>1, NoneAssumption DEF Expired, SameJob, TypeOK

\* An evaluation of the pressure keeps its types and the floor of the ladder.
LEMMA PressureStepType ==
    ASSUME PressureTypeOK, NEW band, NEW escalations \in {0, 1}, UpdatePressure(band, escalations)
    PROVE  PressureTypeOK' /\ FloorIsKept'
<1>1. NewPressure(band) \in Levels
  BY DEF PressureTypeOK, NewPressure, Levels
<1>2. Floor(NewPressure(band)) \in 0 .. 2
  BY <1>1 DEF Levels, Floor
<1> DEFINE level   == NewPressure(band)
           floored == Higher(degradation, Floor(level))
           greens  == IF level = "Green" THEN Lower(greenSamples + 1, RecoveryGreenSamples) ELSE 0
           recover == greens = RecoveryGreenSamples /\ floored > 0
<1>3. floored \in 0 .. Ladder
  BY <1>2, PressureAssumption DEF PressureTypeOK, Higher
<1>4. greens \in 0 .. RecoveryGreenSamples
  BY PressureAssumption DEF PressureTypeOK, Lower
<1>5. /\ pressure' = level
      /\ greenSamples' = IF recover THEN 0 ELSE greens
      /\ degradation' = Lower(Ladder, (IF recover THEN floored - 1 ELSE floored) + escalations)
  BY DEF UpdatePressure
<1> HIDE DEF floored, greens
<1>6. degradation' \in 0 .. Ladder
  BY <1>3, <1>5, PressureAssumption DEF Lower
<1>7. degradation' >= Floor(level)
  <2>1. floored >= Floor(level)
    BY <1>2 DEF Higher, floored, PressureTypeOK
  <2>2. recover => Floor(level) = 0
    BY PressureAssumption DEF greens, Floor
  <2> QED
    BY <1>2, <1>3, <1>5, <2>1, <2>2, PressureAssumption DEF Lower
<1> QED
  BY <1>1, <1>4, <1>5, <1>6, <1>7, PressureAssumption DEF PressureTypeOK, FloorIsKept, Floor

\* The GPU jobs can be counted.
LEMMA GpuJobsFinite ==
    IsFiniteSet(GpuJobs) /\ Cardinality(GpuJobs) \in Nat
BY JobAssumption, FS_Subset, FS_CardinalityType DEF GpuJobs

\* A step that starts and ends no job and leaves the reservations alone keeps
\* them in agreement.
LEMMA SameJobs ==
    ASSUME LeaseInv,
           \A j \in Jobs : SameJob(j, active'),
           UNCHANGED <<gpuLeases, exclusive, foreground>>
    PROVE  LeaseInv'
<1>1. ActiveJobs' = ActiveJobs
  BY DEF ActiveJobs, SameJob
<1>2. \A j \in ActiveJobs : Gpu(j)' = Gpu(j)
  BY DEF ActiveJobs, Gpu, SameJob
<1>3. GpuJobs' = GpuJobs
  BY <1>1, <1>2 DEF ActiveJobs, GpuJobs
<1>4. SlotHeldByItsJob'
  BY DEF LeaseInv, SlotHeldByItsJob, SameJob
<1>5. ExclusiveRunsAlone'
  BY <1>1, <1>2 DEF LeaseInv, ExclusiveRunsAlone, Gpu
<1>6. LeasesCounted'
  BY <1>3 DEF LeaseInv, LeasesCounted
<1>7. ExclusiveNamed'
  BY <1>2 DEF LeaseInv, ExclusiveNamed, ActiveJobs, SameJob
<1> QED
  BY <1>4, <1>5, <1>6, <1>7 DEF LeaseInv

-----------------------------------------------------------------------------
(***************************************************************************)
(* Admitting and releasing.                                                *)
(***************************************************************************)
\* admit_locked keeps the types, and the other jobs as they are.
LEMMA AdmitType ==
    ASSUME TypeOK, NEW j \in Jobs, NEW t \in Targets, NEW s, s.time \in Nat, Admit(j, t, s)
    PROVE  /\ active' \in [Jobs -> ActiveRecords \cup {None}]
           /\ active'[j] # None /\ active'[j].target = t
           /\ \A k \in Jobs \ {j} : SameJob(k, active')
           /\ reserved' \in Amounts /\ gpuLeases' \in Nat
           /\ exclusive' \in Jobs \cup {None} /\ foreground' \in Jobs \cup {None}
           /\ ledger' \in [Models -> LedgerRecords]
<1> DEFINE rec == [target |-> t, outputStarted |-> FALSE, cancelled |-> FALSE,
                   overageEnds |-> IF Overshoot(s, t) > 0 THEN s.time + TransientGrace ELSE None,
                   charged |-> Estimate(t)]
<1>1. Estimate(t) \in Amounts
  BY EstimateType
<1>2. rec \in ActiveRecords
  BY <1>1, BrokerAssumption DEF ActiveRecords
<1>3. rec # None
  BY <1>2, NoneAssumption
<1>4. active' = [Expired(s.time) EXCEPT ![j] = rec]
  BY DEF Admit
<1> HIDE DEF rec
<1>5. rec.target = t
  BY DEF rec
<1>6. active' \in [Jobs -> ActiveRecords \cup {None}] /\ active'[j] = rec
  BY <1>2, <1>4, ExpiredKeepsJobs
<1>7. \A k \in Jobs \ {j} : active'[k] = Expired(s.time)[k]
  BY <1>4, ExpiredKeepsJobs
<1>8. reserved' \in Amounts /\ gpuLeases' \in Nat
  BY <1>1 DEF Admit, TypeOK, Amounts
<1>9. exclusive' \in Jobs \cup {None} /\ foreground' \in Jobs \cup {None}
  BY DEF Admit, TypeOK
<1>10. ledger' \in [Models -> LedgerRecords]
  <2>1. CASE Registered(t)
    <3>1. Target[t].model \in Models
      BY <2>1, TargetAssumption DEF Registered
    <3>2. ModelReserved(Target[t].model) \in LedgerRecords
      BY <3>1 DEF TypeOK, LedgerStates, LedgerRecords, ModelReserved
    <3>3. ledger' = [ledger EXCEPT ![Target[t].model] = ModelReserved(Target[t].model)]
      BY <2>1 DEF Admit
    <3> QED
      BY <3>1, <3>2, <3>3 DEF TypeOK
  <2>2. CASE ~Registered(t)
    BY <2>2 DEF Admit, TypeOK
  <2> QED
    BY <2>1, <2>2
<1>11. \A k \in Jobs \ {j} : SameJob(k, active')
  BY <1>7, ExpiredKeepsJobs DEF SameJob
<1> QED
  BY <1>3, <1>5, <1>6, <1>8, <1>9, <1>10, <1>11

\* A job that is not active yet and finds the slot and the GPU available is
\* admitted without disturbing the agreement.
LEMMA AdmitLeases ==
    ASSUME TypeOK, LeaseInv, NEW j \in Jobs, NEW t \in Targets, NEW s, s.time \in Nat,
           active[j] = None, ResidencyAvailable(j, t), Admit(j, t, s)
    PROVE  LeaseInv'
<1>1. /\ active'[j] # None /\ active'[j].target = t
      /\ \A k \in Jobs \ {j} : (active'[k] = None <=> active[k] = None)
      /\ \A k \in Jobs \ {j} : active[k] # None => active'[k].target = active[k].target
  BY AdmitType DEF SameJob
<1>2. Gpu(j)' = Target[t].gpu /\ \A k \in Jobs \ {j} : active[k] # None => Gpu(k)' = Gpu(k)
  BY <1>1 DEF Gpu
<1>3. SlotHeldByItsJob'
  <2>1. SlotHeldByItsJob
    BY DEF LeaseInv
  <2>2. CASE Job[j].foreground
    <3>1. foreground = None /\ foreground' = j
      BY <2>2 DEF ResidencyAvailable, Admit
    <3> QED
      BY <1>1, <2>1, <2>2, <3>1, NoneAssumption DEF SlotHeldByItsJob
  <2>3. CASE ~Job[j].foreground
    <3>1. foreground' = foreground
      BY <2>3 DEF Admit
    <3>2. foreground # j
      BY <2>1, <2>3 DEF SlotHeldByItsJob
    <3> QED
      BY <1>1, <2>1, <2>3, <3>1, <3>2 DEF SlotHeldByItsJob
  <2> QED
    BY <2>2, <2>3, JobAssumption
<1>4. LeasesCounted'
  <2>1. CASE Target[t].gpu = "None"
    <3>1. GpuJobs' = GpuJobs
      BY <1>1, <1>2, <2>1 DEF GpuJobs
    <3> QED
      BY <2>1, <3>1 DEF Admit, LeaseInv, LeasesCounted
  <2>2. CASE Target[t].gpu # "None"
    <3>1. GpuJobs' = GpuJobs \cup {j} /\ j \notin GpuJobs
      BY <1>1, <1>2, <2>2 DEF GpuJobs
    <3>2. Cardinality(GpuJobs \cup {j}) = Cardinality(GpuJobs) + 1
      BY <3>1, GpuJobsFinite, FS_AddElement
    <3> QED
      BY <2>2, <3>1, <3>2 DEF Admit, LeaseInv, LeasesCounted
  <2> QED
    BY <2>1, <2>2
<1>5. ExclusiveNamed'
  <2>1. CASE Target[t].gpu = "Exclusive"
    <3>1. gpuLeases = 0
      BY <2>1 DEF ResidencyAvailable
    <3>2. GpuJobs = {}
      BY <3>1, GpuJobsFinite, FS_EmptySet DEF LeaseInv, LeasesCounted
    <3>3. exclusive' = j
      BY <2>1 DEF Admit
    <3>4. \A k \in Jobs \ {j} : ~(active'[k] # None /\ Gpu(k)' = "Exclusive")
      BY <1>1, <1>2, <3>2 DEF GpuJobs
    <3> QED
      BY <1>1, <1>2, <2>1, <3>3, <3>4 DEF ExclusiveNamed
  <2>2. CASE Target[t].gpu # "Exclusive"
    <3>1. exclusive' = exclusive
      BY <2>2 DEF Admit
    <3> QED
      BY <1>1, <1>2, <2>2, <3>1 DEF LeaseInv, ExclusiveNamed
  <2> QED
    BY <2>1, <2>2
<1>6. ExclusiveRunsAlone'
  <2> SUFFICES ASSUME NEW a \in ActiveJobs', NEW b \in ActiveJobs', a # b, Gpu(a)' = "Exclusive"
               PROVE  Gpu(b)' = "None"
    BY DEF ExclusiveRunsAlone, Gpu
  <2>0. a \in Jobs /\ b \in Jobs
    BY DEF ActiveJobs
  <2>1. CASE a = j
    <3>1. Target[t].gpu = "Exclusive"
      BY <1>2, <2>1
    <3>2. GpuJobs = {}
      BY <3>1, GpuJobsFinite, FS_EmptySet DEF ResidencyAvailable, LeaseInv, LeasesCounted
    <3> QED
      BY <1>1, <1>2, <2>0, <2>1, <3>2 DEF GpuJobs, ActiveJobs
  <2>2. CASE b = j
    <3>1. active[a] # None /\ Gpu(a) = "Exclusive"
      BY <1>1, <1>2, <2>0, <2>2 DEF ActiveJobs
    <3>2. exclusive = a
      BY <2>0, <3>1 DEF LeaseInv, ExclusiveNamed
    <3>3. a \in GpuJobs
      BY <2>0, <3>1 DEF GpuJobs
    <3>4. gpuLeases # 0
      BY <3>3, GpuJobsFinite, FS_EmptySet DEF LeaseInv, LeasesCounted
    <3>5. Target[t].gpu = "None"
      BY <2>0, <3>2, <3>4, NoneAssumption, TargetAssumption DEF ResidencyAvailable
    <3> QED
      BY <1>2, <2>2, <3>5
  <2>3. CASE a # j /\ b # j
    BY <1>1, <1>2, <2>0, <2>3 DEF LeaseInv, ExclusiveRunsAlone, ActiveJobs, Gpu
  <2> QED
    BY <2>1, <2>2, <2>3
<1> QED
  BY <1>3, <1>4, <1>5, <1>6 DEF LeaseInv

\* saturating_sub stays in the natural numbers.
LEMMA MonusType ==
    ASSUME NEW a \in Nat, NEW b \in Nat
    PROVE  Monus(a, b) \in Nat
BY DEF Monus

\* release keeps the types, and the other jobs as they are.
LEMMA ReleaseType ==
    ASSUME TypeOK, NEW j \in Jobs, active[j] # None, Release(j)
    PROVE  /\ active' \in [Jobs -> ActiveRecords \cup {None}]
           /\ active'[j] = None
           /\ \A k \in Jobs \ {j} : active'[k] = active[k]
           /\ reserved' \in Amounts /\ gpuLeases' \in Nat
           /\ exclusive' \in Jobs \cup {None} /\ foreground' \in Jobs \cup {None}
           /\ ledger' \in [Models -> LedgerRecords]
<1> DEFINE t == active[j].target
<1>1. t \in Targets
  BY DEF TypeOK, ActiveRecords
<1>2. Refund(t) \in Amounts
  BY <1>1, EstimateType DEF Refund
<1>3. active' = [active EXCEPT ![j] = None]
  BY DEF Release
<1>4. reserved' \in Amounts
  <2>1. /\ Monus(reserved.ram, Refund(t).ram) \in Nat
        /\ Monus(reserved.resident, Refund(t).resident) \in Nat
        /\ Monus(reserved.transient, Refund(t).transient) \in Nat
    BY <1>2, MonusType DEF TypeOK, Amounts
  <2> QED
    BY <2>1 DEF Release, Amounts
<1>5. gpuLeases' \in Nat
  BY MonusType DEF Release, TypeOK
<1>6. exclusive' \in Jobs \cup {None} /\ foreground' \in Jobs \cup {None}
  BY DEF Release, TypeOK
<1>7. ledger' \in [Models -> LedgerRecords]
  <2>1. CASE Registered(t)
    <3>1. Target[t].model \in Models
      BY <1>1, <2>1, TargetAssumption DEF Registered
    <3>2. ModelReleased(Target[t].model) \in LedgerRecords
      BY <3>1, MonusType DEF TypeOK, LedgerStates, LedgerRecords, ModelReleased
    <3>3. ledger' = [ledger EXCEPT ![Target[t].model] = ModelReleased(Target[t].model)]
      BY <2>1 DEF Release
    <3> QED
      BY <3>1, <3>2, <3>3 DEF TypeOK
  <2>2. CASE ~Registered(t)
    BY <2>2 DEF Release, TypeOK
  <2> QED
    BY <2>1, <2>2
<1>8. active' \in [Jobs -> ActiveRecords \cup {None}] /\ active'[j] = None
      /\ \A k \in Jobs \ {j} : active'[k] = active[k]
  BY <1>3 DEF TypeOK
<1> QED
  BY <1>4, <1>5, <1>6, <1>7, <1>8

\* A job that ends takes away exactly its own share of the reservations.
LEMMA ReleaseLeases ==
    ASSUME TypeOK, LeaseInv, NEW j \in Jobs, active[j] # None, Release(j)
    PROVE  LeaseInv'
<1>1. active'[j] = None /\ \A k \in Jobs \ {j} : active'[k] = active[k]
  BY ReleaseType
<1>2. \A k \in Jobs \ {j} : Gpu(k)' = Gpu(k)
  BY <1>1 DEF Gpu
<1>3. SlotHeldByItsJob'
  BY <1>1, NoneAssumption DEF LeaseInv, SlotHeldByItsJob, Release
<1>4. LeasesCounted'
  <2>1. CASE Gpu(j) = "None"
    <3>1. GpuJobs' = GpuJobs
      BY <1>1, <1>2, <2>1 DEF GpuJobs
    <3> QED
      BY <2>1, <3>1 DEF Release, LeaseInv, LeasesCounted, Gpu
  <2>2. CASE Gpu(j) # "None"
    <3>1. GpuJobs' = GpuJobs \ {j} /\ j \in GpuJobs
      BY <1>1, <1>2, <2>2 DEF GpuJobs
    <3>2. Cardinality(GpuJobs \ {j}) = Cardinality(GpuJobs) - 1
      BY <3>1, GpuJobsFinite, FS_RemoveElement
    <3>3. Cardinality(GpuJobs) # 0
      BY <3>1, GpuJobsFinite, FS_EmptySet
    <3> QED
      BY <2>2, <3>1, <3>2, <3>3, GpuJobsFinite DEF Release, LeaseInv, LeasesCounted, Gpu, Monus
  <2> QED
    BY <2>1, <2>2
<1>5. ExclusiveNamed'
  BY <1>1, <1>2, NoneAssumption DEF LeaseInv, ExclusiveNamed, Release
<1>6. ExclusiveRunsAlone'
  BY <1>1 DEF LeaseInv, ExclusiveRunsAlone, ActiveJobs
<1> QED
  BY <1>3, <1>4, <1>5, <1>6 DEF LeaseInv

-----------------------------------------------------------------------------
(***************************************************************************)
(* The kinds of step.                                                      *)
(***************************************************************************)
\* A step that changes nothing of the jobs and the reservations but `active',
\* in which it neither starts nor ends a job.
LEMMA QuietStep ==
    ASSUME IInv, PressureTypeOK', FloorIsKept',
           active' \in [Jobs -> ActiveRecords \cup {None}],
           \A j \in Jobs : SameJob(j, active'),
           queued' \subseteq Jobs,
           \A j \in queued' : active[j] = None,
           now' \in Nat, ahead' \in [Jobs -> SUBSET Jobs],
           health' \in [Targets -> [ooms : Nat, until : Nat]],
           ledger' \in [Models -> LedgerRecords],
           binding' \in [Utterances -> Targets \cup {None}],
           todo' \subseteq queued',
           todo' # {} => snap' \in SnapshotRecords,
           UNCHANGED <<reserved, gpuLeases, exclusive, foreground>>
    PROVE  IInv' /\ SlotStep
<1>1. LeaseInv'
  BY SameJobs DEF IInv
<1>2. QueuedAreIdle'
  BY DEF QueuedAreIdle, SameJob
<1>3. TypeOK'
  BY DEF IInv, TypeOK
<1> QED
  BY <1>1, <1>2, <1>3 DEF IInv, SlotStep

\* Taking jobs out of the queue.
LEMMA DequeueType ==
    ASSUME IInv, NEW S, Dequeue(S)
    PROVE  /\ queued' = queued \ S /\ queued' \subseteq Jobs
           /\ ahead' \in [Jobs -> SUBSET Jobs]
           /\ \A j \in queued' : active[j] = None
<1>1. queued' = queued \ S /\ queued \subseteq Jobs
  BY DEF Dequeue, IInv, TypeOK
<1>2. \A k \in Jobs : (IF k \in S THEN {} ELSE ahead[k] \ S) \in SUBSET Jobs
  BY DEF IInv, TypeOK
<1>3. ahead' \in [Jobs -> SUBSET Jobs]
  BY <1>2 DEF Dequeue
<1> QED
  BY <1>1, <1>3 DEF IInv, QueuedAreIdle

\* A call that only samples, whatever it does to the queue.
LEMMA ObserveStep ==
    ASSUME IInv, NEW s \in Snapshots, NEW escalations \in {0, 1},
           active' = Expired(s.time), UpdatePressure(Band(s), escalations),
           queued' \subseteq Jobs, \A j \in queued' : active[j] = None,
           ahead' \in [Jobs -> SUBSET Jobs],
           todo' \subseteq queued', todo' # {} => snap' \in SnapshotRecords,
           UNCHANGED <<reserved, gpuLeases, exclusive, foreground, ledger, now, health, binding>>
    PROVE  IInv' /\ SlotStep
<1>1. s.time \in Nat
  BY SnapshotType DEF IInv
<1>2. PressureTypeOK' /\ FloorIsKept'
  BY PressureStepType DEF IInv, TypeOK
<1>3. active' \in [Jobs -> ActiveRecords \cup {None}] /\ \A j \in Jobs : SameJob(j, active')
  BY <1>1, ExpiredKeepsJobs DEF IInv
<1>4. /\ now' \in Nat
      /\ health' \in [Targets -> [ooms : Nat, until : Nat]]
      /\ ledger' \in [Models -> LedgerRecords]
      /\ binding' \in [Utterances -> Targets \cup {None}]
  BY DEF IInv, TypeOK
<1> QED
  BY <1>2, <1>3, <1>4, QuietStep

\* A job that was chosen a target is admitted and is not in the queue afterwards.
LEMMA AdmitStep ==
    ASSUME IInv, NEW j \in Jobs, NEW s, s.time \in Nat, active[j] = None,
           \E i \in DOMAIN Job[j].targets : Selects(j, i, s) /\ Admit(j, Job[j].targets[i], s),
           PressureTypeOK', FloorIsKept',
           NEW S, Dequeue(S), j \notin queued',
           todo' \subseteq queued', todo' # {} => snap' \in SnapshotRecords,
           UNCHANGED <<now, health, binding>>
    PROVE  IInv' /\ SlotStep
<1>1. PICK i \in DOMAIN Job[j].targets : Selects(j, i, s) /\ Admit(j, Job[j].targets[i], s)
  OBVIOUS
<1> DEFINE t == Job[j].targets[i]
<1>2. t \in Targets
  BY JobAssumption
<1>3. ResidencyAvailable(j, t) /\ Admit(j, t, s)
  BY <1>1 DEF Selects, Eligible
<1> HIDE DEF t
<1>4. TypeOK /\ LeaseInv
  BY DEF IInv
<1>5. LeaseInv'
  BY <1>2, <1>3, <1>4, AdmitLeases
<1>6. /\ active' \in [Jobs -> ActiveRecords \cup {None}]
      /\ \A k \in Jobs \ {j} : SameJob(k, active')
      /\ reserved' \in Amounts /\ gpuLeases' \in Nat
      /\ exclusive' \in Jobs \cup {None} /\ foreground' \in Jobs \cup {None}
      /\ ledger' \in [Models -> LedgerRecords]
  BY <1>2, <1>3, <1>4, AdmitType
<1>7. /\ queued' \subseteq Jobs
      /\ ahead' \in [Jobs -> SUBSET Jobs]
      /\ \A k \in queued' : active[k] = None
  BY DequeueType
<1>8. QueuedAreIdle'
  BY <1>6, <1>7 DEF QueuedAreIdle, SameJob
<1>9. TypeOK'
  BY <1>4, <1>6, <1>7 DEF TypeOK
<1>10. SlotStep
  BY <1>3 DEF ResidencyAvailable, Admit, SlotStep, Slot!Next, Slot!Grant
<1> QED
  BY <1>5, <1>8, <1>9, <1>10 DEF IInv

\* A step that only writes the ledger.
LEMMA LedgerWrite ==
    ASSUME IInv, NEW m \in Models, NEW record \in LedgerRecords, ChangeLedger(m, record)
    PROVE  IInv' /\ SlotStep
<1>1. ledger' \in [Models -> LedgerRecords]
  BY DEF ChangeLedger, IInv, TypeOK
<1> QED
  BY <1>1 DEF ChangeLedger, IInv, TypeOK, jobVars, pollVars, pressureVars, PressureTypeOK,
     FloorIsKept, QueuedAreIdle, LeaseInv, SlotHeldByItsJob, ExclusiveRunsAlone, ActiveJobs,
     LeasesCounted, GpuJobs, Gpu, ExclusiveNamed, SlotStep

-----------------------------------------------------------------------------
(***************************************************************************)
(* The calls.                                                              *)
(***************************************************************************)
\* submit, however it answers.
LEMMA SubmitStep ==
    ASSUME IInv, NEW j \in Jobs, NEW s \in Snapshots, Submit(j, s)
    PROVE  IInv' /\ SlotStep
<1>0. /\ queued \subseteq Jobs /\ ahead \in [Jobs -> SUBSET Jobs]
      /\ \A k \in queued : active[k] = None
      /\ todo \subseteq queued /\ (todo # {} => snap \in SnapshotRecords)
      /\ s.time \in Nat
  BY SnapshotType DEF IInv, TypeOK, QueuedAreIdle
<1>1. CASE SubmitTurnedAway(j, s)
  BY <1>0, <1>1, ObserveStep DEF SubmitTurnedAway, Observe, pollVars
<1>2. CASE SubmitAdmitted(j, s)
  <2>1. PressureTypeOK' /\ FloorIsKept'
    BY <1>2, PressureStepType DEF SubmitAdmitted, IInv, TypeOK
  <2>2. todo' = {} /\ Dequeue(Superseded(j))
    BY <1>2 DEF SubmitAdmitted, Considered, Unlocked, pollVars
  <2>3. active[j] = None /\ j \notin queued'
    BY <1>2, <2>2, DequeueType DEF SubmitAdmitted, Considered, Known
  <2> QED
    BY <1>0, <1>2, <2>1, <2>2, <2>3, AdmitStep DEF SubmitAdmitted
<1>3. CASE SubmitRejected(j, s)
  <2>1. todo' = {} /\ Dequeue(Superseded(j))
    BY <1>3 DEF SubmitRejected, Considered, Unlocked, pollVars
  <2> QED
    BY <1>0, <1>3, <2>1, DequeueType, ObserveStep DEF SubmitRejected, Observe
<1>4. CASE SubmitQueued(j, s)
  <2>1. active[j] = None /\ todo' = {}
    BY <1>4 DEF SubmitQueued, Considered, Known, Unlocked, pollVars
  <2>2. queued' \subseteq Jobs /\ \A k \in queued' : active[k] = None
    BY <1>0, <1>4, <2>1 DEF SubmitQueued
  <2>3. ahead' \in [Jobs -> SUBSET Jobs]
    BY <1>0, <1>4 DEF SubmitQueued
  <2> QED
    BY <1>4, <2>1, <2>2, <2>3, ObserveStep DEF SubmitQueued
<1> QED
  BY <1>1, <1>2, <1>3, <1>4 DEF Submit

\* One job looked at by poll_queue.
LEMMA PollStepKeeps ==
    ASSUME IInv, PollStep
    PROVE  IInv' /\ SlotStep
<1>1. PICK j \in Jobs : PollDrops(j) \/ PollAdmits(j) \/ PollKeeps(j)
  BY DEF PollStep
<1>2. /\ j \in queued /\ active[j] = None
      /\ todo' \subseteq queued \ {j}
      /\ snap \in SnapshotRecords /\ snap.time \in Nat
      /\ todo' # {} => snap' \in SnapshotRecords
  <2>1. PollNext(j)
    BY <1>1 DEF PollDrops, PollAdmits, PollKeeps
  <2>2. j \in queued /\ active[j] = None /\ snap \in SnapshotRecords
    BY <2>1 DEF PollNext, IInv, TypeOK, QueuedAreIdle
  <2> QED
    BY <2>1, <2>2 DEF PollNext, IInv, TypeOK, SnapshotRecords
<1>3. \A k \in Jobs : SameJob(k, active)
  BY DEF SameJob
<1>4. /\ active \in [Jobs -> ActiveRecords \cup {None}]
      /\ queued \subseteq Jobs /\ \A k \in queued : active[k] = None
      /\ ahead \in [Jobs -> SUBSET Jobs] /\ now \in Nat
      /\ health \in [Targets -> [ooms : Nat, until : Nat]]
      /\ ledger \in [Models -> LedgerRecords]
      /\ binding \in [Utterances -> Targets \cup {None}]
  BY DEF IInv, TypeOK, QueuedAreIdle
<1>5. UNCHANGED pressureVars => PressureTypeOK' /\ FloorIsKept'
  BY DEF IInv, TypeOK, pressureVars, PressureTypeOK, FloorIsKept
<1>6. CASE PollDrops(j)
  <2>1. active' = active /\ Dequeue({j})
    BY <1>6 DEF PollDrops
  <2>2. queued' = queued \ {j} /\ queued' \subseteq Jobs /\ ahead' \in [Jobs -> SUBSET Jobs]
    BY <2>1, DequeueType
  <2> QED
    BY <1>2, <1>3, <1>4, <1>5, <1>6, <2>1, <2>2, QuietStep DEF PollDrops
<1>7. CASE PollAdmits(j)
  <2>1. Dequeue({j}) /\ UNCHANGED pressureVars
    BY <1>7 DEF PollAdmits
  <2>2. queued' = queued \ {j}
    BY <2>1, DequeueType
  <2>3. j \notin queued' /\ todo' \subseteq queued'
    BY <1>2, <2>2
  <2>4. \E i \in DOMAIN Job[j].targets :
           Selects(j, i, snap) /\ Admit(j, Job[j].targets[i], snap)
    BY <1>7 DEF PollAdmits
  <2>5. UNCHANGED <<now, health, binding>>
    BY <1>7 DEF PollAdmits
  <2> QED
    BY <1>2, <1>5, <2>1, <2>3, <2>4, <2>5, AdmitStep
<1>8. CASE PollKeeps(j)
  BY <1>2, <1>3, <1>4, <1>5, <1>8, QuietStep DEF PollKeeps, jobVars
<1> QED
  BY <1>1, <1>6, <1>7, <1>8

\* The operations of the residency ledger.
LEMMA LedgerStepKeeps ==
    ASSUME IInv, LedgerStep
    PROVE  IInv' /\ SlotStep
<1>1. PICK m \in Models :
         \/ RegisterModel(m)
         \/ \E s \in Snapshots :
               \/ BeginWarming(m, s)
               \/ \E measured \in Envelopes : MarkLoaded(m, measured, s)
               \/ ClearQuarantine(m, s)
         \/ TransitionIdle(m, "Loaded", "Evicting")
         \/ TransitionIdle(m, "Evicting", "Cold")
         \/ \E until \in 0 .. MaxTime : QuarantineModel(m, until)
  BY DEF LedgerStep
<1>2. ledger[m] \in LedgerRecords
  BY DEF IInv, TypeOK
<1>3. \A st \in LedgerStates : [ledger[m] EXCEPT !.state = st] \in LedgerRecords
  BY <1>2 DEF LedgerRecords
<1>4. \A st \in LedgerStates, until \in Nat :
         [ledger[m] EXCEPT !.state = st, !.until = until] \in LedgerRecords
  BY <1>2 DEF LedgerRecords
<1>5. \A measured \in Envelopes :
         [ledger[m] EXCEPT !.state = "Loaded", !.envelope = measured] \in LedgerRecords
  BY <1>2, ModelAssumption DEF LedgerRecords, LedgerStates
<1>6. {"Warming", "Evicting", "Cold", "Quarantined"} \subseteq LedgerStates
  BY DEF LedgerStates
<1>7. CASE RegisterModel(m)
  <2>1. Disturbed(m, "registered") \subseteq {"registered", "cleared"}
    BY <1>2 DEF Disturbed, LedgerRecords
  <2>2. [state |-> "Cold", jobs |-> 0, envelope |-> Model[m].envelope, until |-> 0,
         disturbed |-> Disturbed(m, "registered")] \in LedgerRecords
    BY <2>1, ModelAssumption DEF LedgerRecords, LedgerStates
  <2> QED
    BY <1>7, <2>2, LedgerWrite DEF RegisterModel
<1>8. CASE \E s \in Snapshots : BeginWarming(m, s)
  BY <1>3, <1>6, <1>8, LedgerWrite DEF BeginWarming
<1>9. CASE \E s \in Snapshots : \E measured \in Envelopes : MarkLoaded(m, measured, s)
  BY <1>5, <1>9, LedgerWrite DEF MarkLoaded
<1>10. CASE \E s \in Snapshots : ClearQuarantine(m, s)
  <2>1. Disturbed(m, "cleared") \subseteq {"registered", "cleared"}
    BY <1>2 DEF Disturbed, LedgerRecords
  <2>2. [ledger[m] EXCEPT !.state = "Cold", !.until = 0, !.disturbed = Disturbed(m, "cleared")]
          \in LedgerRecords
    BY <1>2, <2>1 DEF LedgerRecords, LedgerStates
  <2> QED
    BY <1>10, <2>2, LedgerWrite DEF ClearQuarantine
<1>11. CASE TransitionIdle(m, "Loaded", "Evicting") \/ TransitionIdle(m, "Evicting", "Cold")
  BY <1>3, <1>6, <1>11, LedgerWrite DEF TransitionIdle
<1>12. CASE \E until \in 0 .. MaxTime : QuarantineModel(m, until)
  <2>1. PICK until \in 0 .. MaxTime : QuarantineModel(m, until)
    BY <1>12
  <2>2. [ledger[m] EXCEPT !.state = "Quarantined", !.until = until] \in LedgerRecords
    <3>1. until \in Nat
      BY BrokerAssumption
    <3> QED
      BY <1>4, <1>6, <3>1
  <2> QED
    BY <2>1, <2>2, LedgerWrite DEF QuarantineModel
<1> QED
  BY <1>1, <1>7, <1>8, <1>9, <1>10, <1>11, <1>12

\* A lease that ends.
LEMMA FinishStep ==
    ASSUME IInv, NEW j \in Jobs, NEW completed \in BOOLEAN, FinishLease(j, completed)
    PROVE  IInv' /\ SlotStep
<1>1. TypeOK /\ LeaseInv /\ active[j] # None /\ Release(j)
  BY DEF IInv, FinishLease
<1>2. LeaseInv'
  BY <1>1, ReleaseLeases
<1>3. /\ active' \in [Jobs -> ActiveRecords \cup {None}]
      /\ active'[j] = None
      /\ \A k \in Jobs \ {j} : active'[k] = active[k]
      /\ reserved' \in Amounts /\ gpuLeases' \in Nat
      /\ exclusive' \in Jobs \cup {None} /\ foreground' \in Jobs \cup {None}
      /\ ledger' \in [Models -> LedgerRecords]
  BY <1>1, ReleaseType
<1>4. QueuedAreIdle'
  BY <1>3 DEF FinishLease, IInv, QueuedAreIdle, TypeOK
<1>5. health' \in [Targets -> [ooms : Nat, until : Nat]]
  <2>1. active[j].target \in Targets /\ health \in [Targets -> [ooms : Nat, until : Nat]]
    BY <1>1 DEF TypeOK, ActiveRecords
  <2> QED
    BY <2>1 DEF FinishLease
<1>6. PressureTypeOK' /\ FloorIsKept'
  BY DEF FinishLease, IInv, TypeOK, pressureVars, PressureTypeOK, FloorIsKept
<1>7. TypeOK'
  BY <1>1, <1>3, <1>5, <1>6 DEF FinishLease, TypeOK, pollVars
<1>8. SlotStep
  BY <1>1, NoneAssumption DEF Release, SlotStep, Slot!Next, Slot!GiveBack
<1> QED
  BY <1>2, <1>4, <1>6, <1>7, <1>8 DEF IInv

\* Calls that touch a job's record, the bindings or the health of targets.
LEMMA RecordStep ==
    ASSUME IInv,
           \/ \E j \in Jobs : Cancel(j) \/ MarkOutputStarted(j)
           \/ \E j \in Jobs, s \in Snapshots : ReportOom(j, s)
           \/ \E u \in Utterances : FinishUtterance(u)
           \/ Tick
    PROVE  IInv' /\ SlotStep
<1>1. /\ active \in [Jobs -> ActiveRecords \cup {None}]
      /\ queued \subseteq Jobs /\ \A k \in queued : active[k] = None
      /\ ahead \in [Jobs -> SUBSET Jobs] /\ now \in Nat
      /\ health \in [Targets -> [ooms : Nat, until : Nat]]
      /\ ledger \in [Models -> LedgerRecords]
      /\ binding \in [Utterances -> Targets \cup {None}]
      /\ todo \subseteq queued /\ (todo # {} => snap \in SnapshotRecords)
  BY DEF IInv, TypeOK, QueuedAreIdle
<1>2. UNCHANGED pressureVars => PressureTypeOK' /\ FloorIsKept'
  BY DEF IInv, TypeOK, pressureVars, PressureTypeOK, FloorIsKept
<1>3. \A k \in Jobs : SameJob(k, active)
  BY DEF SameJob
<1>4. ASSUME NEW j \in Jobs, Cancel(j)
      PROVE  IInv' /\ SlotStep
  <2>1. CASE j \in queued /\ Dequeue({j}) /\ UNCHANGED active
    <3>1. queued' \subseteq Jobs /\ ahead' \in [Jobs -> SUBSET Jobs] /\ queued' = queued \ {j}
      BY <2>1, DequeueType
    <3>2. todo' = {}
      BY <1>4 DEF Cancel, Unlocked, pollVars
    <3> QED
      BY <1>1, <1>2, <1>3, <1>4, <2>1, <3>1, <3>2, QuietStep DEF Cancel
  <2>2. CASE active[j] # None /\ active' = [active EXCEPT ![j].cancelled = TRUE]
             /\ UNCHANGED <<queued, ahead>>
    <3>1. /\ active' = [active EXCEPT ![j] = [active[j] EXCEPT !.cancelled = TRUE]]
          /\ [active[j] EXCEPT !.cancelled = TRUE] \in ActiveRecords
          /\ [active[j] EXCEPT !.cancelled = TRUE].target = active[j].target
          /\ [active[j] EXCEPT !.cancelled = TRUE].charged = active[j].charged
      BY <1>1, <2>2 DEF ActiveRecords
    <3>2. active[j] # None
      BY <2>2
    <3>3. active' \in [Jobs -> ActiveRecords \cup {None}] /\ \A k \in Jobs : SameJob(k, active')
      BY <1>1, <3>1, <3>2, NoneAssumption DEF SameJob
    <3> QED
      BY <1>1, <1>2, <1>4, <2>2, <3>3, QuietStep DEF Cancel, pollVars
  <2> QED
    BY <1>4, <2>1, <2>2 DEF Cancel
<1>5. ASSUME NEW j \in Jobs, MarkOutputStarted(j)
      PROVE  IInv' /\ SlotStep
  <2>1. active[j] # None /\ active[j] \in ActiveRecords /\ active[j].target \in Targets
    BY <1>1, <1>5 DEF MarkOutputStarted, ActiveRecords
  <2>2. /\ active' = [active EXCEPT ![j] = [active[j] EXCEPT !.outputStarted = TRUE]]
        /\ [active[j] EXCEPT !.outputStarted = TRUE] \in ActiveRecords
        /\ [active[j] EXCEPT !.outputStarted = TRUE].target = active[j].target
        /\ [active[j] EXCEPT !.outputStarted = TRUE].charged = active[j].charged
    BY <1>5, <2>1 DEF MarkOutputStarted, ActiveRecords
  <2>3. active' \in [Jobs -> ActiveRecords \cup {None}] /\ \A k \in Jobs : SameJob(k, active')
    BY <1>1, <2>1, <2>2, NoneAssumption DEF SameJob
  <2>4. binding' \in [Utterances -> Targets \cup {None}]
    BY <1>1, <1>5, <2>1, JobAssumption DEF MarkOutputStarted
  <2> QED
    BY <1>1, <1>2, <1>5, <2>3, <2>4, QuietStep DEF MarkOutputStarted, pollVars
<1>6. ASSUME NEW j \in Jobs, NEW s \in Snapshots, ReportOom(j, s)
      PROVE  IInv' /\ SlotStep
  <2> DEFINE t == active[j].target
             m == Target[t].model
             ooms == Lower(health[t].ooms + 1, OomFailuresBeforeQuarantine)
             quarantine == ooms = OomFailuresBeforeQuarantine
             until == s.time + QuarantineTime
  <2>1. t \in Targets
    BY <1>1, <1>6 DEF ReportOom, ActiveRecords
  <2>2. until \in Nat
    BY SnapshotType, BrokerAssumption DEF IInv
  <2>3. ooms \in Nat /\ health[t].until \in Nat
    BY <1>1, <2>1, BrokerAssumption DEF Lower
  <2>4. health' \in [Targets -> [ooms : Nat, until : Nat]]
    <3>1. health' = [health EXCEPT ![t] =
                        [ooms |-> ooms, until |-> IF quarantine THEN until ELSE health[t].until]]
      BY <1>1, <1>6, <2>1 DEF ReportOom
    <3> HIDE DEF ooms, quarantine, until, t
    <3> QED
      BY <1>1, <2>1, <2>2, <2>3, <3>1
  <2>5. ledger' \in [Models -> LedgerRecords]
    <3>1. CASE m \in Models
      <4>1. \/ ledger' = ledger
            \/ ledger' = [ledger EXCEPT ![m].state = "Quarantined", ![m].until = until]
        BY <1>6 DEF ReportOom
      <4> HIDE DEF m, until
      <4>2. [ledger EXCEPT ![m].state = "Quarantined", ![m].until = until] \in [Models -> LedgerRecords]
        <5> DEFINE r == [ledger[m] EXCEPT !.state = "Quarantined", !.until = until]
        <5>1. r \in LedgerRecords
          BY <1>1, <2>2, <3>1 DEF LedgerRecords, LedgerStates
        <5>2. [ledger EXCEPT ![m].state = "Quarantined", ![m].until = until] = [ledger EXCEPT ![m] = r]
          BY <1>1, <3>1 DEF LedgerRecords
        <5> HIDE DEF r
        <5> QED
          BY <1>1, <3>1, <5>1, <5>2
      <4> QED
        BY <1>1, <4>1, <4>2
    <3>2. CASE m = None
      BY <1>1, <1>6, <3>2 DEF ReportOom
    <3> QED
      BY <2>1, <3>1, <3>2, TargetAssumption
  <2>6. /\ UNCHANGED <<pressureVars, active, queued, ahead, todo, snap>>
        /\ UNCHANGED <<reserved, gpuLeases, exclusive, foreground, now, binding>>
    BY <1>6 DEF ReportOom, jobVars, pollVars
  <2> QED
    BY <1>1, <1>2, <1>3, <2>4, <2>5, <2>6, QuietStep
<1>7. ASSUME NEW u \in Utterances, FinishUtterance(u)
      PROVE  IInv' /\ SlotStep
  <2>1. binding' \in [Utterances -> Targets \cup {None}]
    BY <1>1, <1>7 DEF FinishUtterance
  <2> QED
    BY <1>1, <1>2, <1>3, <1>7, <2>1, QuietStep DEF FinishUtterance, jobVars, pollVars
<1>8. ASSUME Tick
      PROVE  IInv' /\ SlotStep
  BY <1>1, <1>2, <1>3, <1>8, QuietStep DEF Tick, jobVars, pollVars
<1> QED
  BY <1>4, <1>5, <1>6, <1>7, <1>8

-----------------------------------------------------------------------------
(***************************************************************************)
(* The theorems.                                                           *)
(***************************************************************************)
\* A new broker has no jobs.
LEMMA InitIInv == BrokerInit => IInv
<1> SUFFICES ASSUME BrokerInit PROVE IInv
  OBVIOUS
<1>1. TypeOK
  <2>1. PressureTypeOK
    BY PressureAssumption DEF BrokerInit, PressureInit, PressureTypeOK, Levels
  <2>2. ledger \in [Models -> LedgerRecords]
    BY ModelAssumption DEF BrokerInit, LedgerRecords, LedgerStates
  <2> QED
    BY <2>1, <2>2 DEF BrokerInit, TypeOK, Amounts
<1>2. FloorIsKept
  BY DEF BrokerInit, PressureInit, FloorIsKept, Floor
<1>3. \A j \in Jobs : active[j] = None
  BY DEF BrokerInit
<1>4. GpuJobs = {} /\ ActiveJobs = {}
  BY <1>3 DEF GpuJobs, ActiveJobs
<1>5. LeasesCounted
  BY <1>4, FS_EmptySet DEF BrokerInit, LeasesCounted
<1>6. SlotHeldByItsJob /\ ExclusiveNamed /\ ExclusiveRunsAlone
  BY <1>3, <1>4, NoneAssumption DEF BrokerInit, SlotHeldByItsJob, ExclusiveNamed, ExclusiveRunsAlone
<1> QED
  BY <1>1, <1>2, <1>5, <1>6 DEF BrokerInit, IInv, LeaseInv, QueuedAreIdle

\* Every step keeps the invariant and takes the slot as ForegroundSlot allows.
LEMMA StepIInv == IInv /\ [Next]_brokerVars => IInv' /\ SlotStep
<1> SUFFICES ASSUME IInv, [Next]_brokerVars
             PROVE  IInv' /\ SlotStep
  OBVIOUS
<1>1. ASSUME NEW s \in Snapshots, NEW j \in Jobs, Submit(j, s)
      PROVE  IInv' /\ SlotStep
  BY <1>1, SubmitStep
<1>2. ASSUME NEW s \in Snapshots, RefreshPressure(s) \/ PollStart(s)
      PROVE  IInv' /\ SlotStep
  <2>1. /\ queued \subseteq Jobs /\ ahead \in [Jobs -> SUBSET Jobs]
        /\ \A k \in queued : active[k] = None
        /\ s \in SnapshotRecords
    BY SnapshotType DEF IInv, TypeOK, QueuedAreIdle
  <2>2. CASE RefreshPressure(s)
    BY <2>1, <2>2, ObserveStep DEF RefreshPressure, Observe, Unlocked, pollVars
  <2>3. CASE PollStart(s)
    BY <2>1, <2>3, ObserveStep DEF PollStart, Observe
  <2> QED
    BY <1>2, <2>2, <2>3
<1>3. CASE PollStep
  BY <1>3, PollStepKeeps
<1>4. ASSUME NEW j \in Jobs, NEW completed \in BOOLEAN, FinishLease(j, completed)
      PROVE  IInv' /\ SlotStep
  BY <1>4, FinishStep
<1>5. CASE \/ \E j \in Jobs : Cancel(j) \/ MarkOutputStarted(j)
           \/ \E j \in Jobs, s \in Snapshots : ReportOom(j, s)
           \/ \E u \in Utterances : FinishUtterance(u)
           \/ Tick
  BY <1>5, RecordStep
<1>6. CASE LedgerStep
  BY <1>6, LedgerStepKeeps
<1>7. CASE UNCHANGED brokerVars
  <2>1. UNCHANGED <<pressureVars, now, active, queued, ahead, reserved, gpuLeases, exclusive,
                    foreground, health, ledger, binding, todo, snap>>
    BY <1>7 DEF brokerVars, jobVars, pollVars
  <2> QED
    BY <2>1 DEF IInv, TypeOK, pressureVars, PressureTypeOK, FloorIsKept, QueuedAreIdle, LeaseInv,
       SlotHeldByItsJob, ExclusiveRunsAlone, ActiveJobs, LeasesCounted, GpuJobs, Gpu,
       ExclusiveNamed, SlotStep
<1> QED
  BY <1>1, <1>2, <1>3, <1>4, <1>5, <1>6, <1>7 DEF Next

\* The inductive invariant holds and the slot is only granted when free.
THEOREM Invariance == Spec => []IInv
<1>1. BrokerInit => IInv
  BY InitIInv
<1>2. IInv /\ [Next]_brokerVars => IInv'
  BY StepIInv
<1> QED
  BY <1>1, <1>2, PTL DEF Spec

\* Every variable of the broker keeps its type, for any jobs, targets, models
\* and snapshots.
THEOREM TypeCorrect == Spec => []TypeOK
<1>1. IInv => TypeOK
  BY DEF IInv
<1> QED
  BY <1>1, Invariance, PTL

\* reserve and release keep foreground_turn_job in agreement with the active
\* jobs: one foreground job at most, and the slot is its.
THEOREM OneForegroundJob == Spec => []SlotHeldByItsJob
<1>1. IInv => SlotHeldByItsJob
  BY DEF IInv, LeaseInv
<1> QED
  BY <1>1, Invariance, PTL

\* GpuResidency::Exclusive: no other job on the GPU overlaps such a lease,
\* although residency_available decides by two counters and not by the jobs.
THEOREM ExclusiveIsExclusive == Spec => []ExclusiveRunsAlone
<1>1. IInv => ExclusiveRunsAlone
  BY DEF IInv, LeaseInv
<1> QED
  BY <1>1, Invariance, PTL

\* update_pressure_locked never gives back a degradation the level requires,
\* in any sequence of the broker's calls.
THEOREM DegradationFloor == Spec => []FloorIsKept
<1>1. IInv => FloorIsKept
  BY DEF IInv
<1> QED
  BY <1>1, Invariance, PTL

\* The broker implements the abstract foreground slot on which the turn
\* supervisor relies.
THEOREM Refinement == Spec => ImplementsForegroundSlot
<1>1. BrokerInit => Slot!Init
  BY DEF BrokerInit, Slot!Init
<1>2. IInv /\ [Next]_brokerVars => [Slot!Next]_foreground
  BY StepIInv DEF SlotStep
<1> QED
  BY <1>1, <1>2, Invariance, PTL DEF Spec, ImplementsForegroundSlot, Slot!Spec

-----------------------------------------------------------------------------
(***************************************************************************)
(* Sums over finite sets, by induction on the set: what SumFunctionOnSet   *)
(* gives is a number, depends on the values alone, and splits off one      *)
(* element.                                                                *)
(***************************************************************************)
\* Induction on the natural numbers, for a set instead of a predicate.
LEMMA NatSetInduction ==
    ASSUME NEW T, 0 \in T, \A n \in Nat : n \in T => n + 1 \in T
    PROVE  Nat \subseteq T
<1> SUFFICES ASSUME Nat \ T # {}
             PROVE  FALSE
  OBVIOUS
<1>1. PICK n \in Nat \ T : \A k \in Nat \ T : ~(<<k, n>> \in OpToRel(<, Nat))
  BY NatLessThanWellFounded, WFMin
<1>2. n # 0 /\ n - 1 \in Nat
  OBVIOUS
<1>3. <<n - 1, n>> \in OpToRel(<, Nat)
  BY <1>2 DEF OpToRel
<1>4. n - 1 \in T
  BY <1>1, <1>2, <1>3
<1> QED
  BY <1>2, <1>4

\* Induction on the subsets of a finite set.
LEMMA SubsetInduction ==
    ASSUME NEW S, IsFiniteSet(S), NEW T,
           \A s \in SUBSET S : (\A r \in SUBSET s : r # s => r \in T) => s \in T
    PROVE  SUBSET S \subseteq T
<1>1. \A s \in SUBSET S : IsFiniteSet(s) /\ Cardinality(s) \in Nat
  BY FS_Subset, FS_CardinalityType
<1> DEFINE N == {n \in Nat : \A s \in SUBSET S : Cardinality(s) < n => s \in T}
<1>2. 0 \in N
  BY <1>1
<1>3. ASSUME NEW n \in Nat, n \in N
      PROVE  n + 1 \in N
  <2> SUFFICES ASSUME NEW s \in SUBSET S, Cardinality(s) < n + 1
               PROVE  s \in T
    OBVIOUS
  <2>1. ASSUME NEW r \in SUBSET s, r # s
        PROVE  r \in T
    <3>1. r \in SUBSET S /\ Cardinality(r) \in Nat /\ Cardinality(s) \in Nat
      BY <1>1
    <3>2. Cardinality(r) <= Cardinality(s) /\ Cardinality(r) # Cardinality(s)
      BY <1>1, <2>1, FS_Subset
    <3> QED
      BY <1>3, <3>1, <3>2
  <2> QED
    BY <2>1
<1>4. Nat \subseteq N
  <2> HIDE DEF N
  <2> QED
    BY <1>2, <1>3, NatSetInduction
<1> SUFFICES ASSUME NEW s \in SUBSET S
             PROVE  s \in T
  OBVIOUS
<1>5. Cardinality(s) + 1 \in N
  BY <1>1, <1>4
<1> QED
  BY <1>1, <1>5

-----------------------------------------------------------------------------
Element(s) == CHOOSE x \in s : TRUE

\* The body of the recursion
SumStep(f, g, s) == IF s = {} THEN 0 ELSE f[Element(s)] + g[s \ {Element(s)}]

Summable(f, S) == IsFiniteSet(S) /\ \A x \in S : f[x] \in Nat
Sums(g, f, S) == g \in [SUBSET S -> Nat] /\ \A s \in SUBSET S : g[s] = SumStep(f, g, s)

\* The element taken is one of the set.
LEMMA ElementIn == ASSUME NEW s, s # {} PROVE Element(s) \in s
BY DEF Element

\* The recursion has a solution on every finite set.
LEMMA SumDefined ==
    ASSUME NEW S, IsFiniteSet(S), NEW f, \A x \in S : f[x] \in Nat
    PROVE  \E g \in [SUBSET S -> Nat] : \A s \in SUBSET S : g[s] = SumStep(f, g, s)
<1>1. \A s \in SUBSET S : IsFiniteSet(s) /\ Cardinality(s) \in Nat
  BY FS_Subset, FS_CardinalityType
<1> DEFINE Upto(n, g) == \A s \in SUBSET S : Cardinality(s) <= n => g[s] = SumStep(f, g, s)
           N == {n \in Nat : \E g \in [SUBSET S -> Nat] : Upto(n, g)}
<1>2. 0 \in N
  <2> DEFINE z == [s \in SUBSET S |-> 0]
  <2>1. \A s \in SUBSET S : Cardinality(s) <= 0 => s = {}
    BY <1>1, FS_EmptySet
  <2>2. Upto(0, z)
    BY <2>1 DEF SumStep
  <2>3. z \in [SUBSET S -> Nat]
    OBVIOUS
  <2> QED
    BY <2>2, <2>3
<1>3. ASSUME NEW n \in Nat, n \in N
      PROVE  n + 1 \in N
  <2>1. PICK g \in [SUBSET S -> Nat] : Upto(n, g)
    BY <1>3
  <2> DEFINE h == [s \in SUBSET S |-> SumStep(f, g, s)]
  <2>2. h \in [SUBSET S -> Nat]
    BY ElementIn DEF SumStep
  <2>3. ASSUME NEW s \in SUBSET S, Cardinality(s) <= n + 1
        PROVE  h[s] = SumStep(f, h, s)
    <3>1. CASE s = {}
      BY <3>1 DEF SumStep
    <3>2. CASE s # {}
      <4> DEFINE r == s \ {Element(s)}
      <4>1. Element(s) \in s /\ r \in SUBSET S
        BY <3>2, ElementIn
      <4>2. Cardinality(r) = Cardinality(s) - 1
        BY <1>1, <4>1, FS_RemoveElement
      <4>3. g[r] = h[r]
        BY <1>1, <2>1, <2>3, <4>1, <4>2
      <4> QED
        BY <3>2, <4>3 DEF SumStep
    <3> QED
      BY <3>1, <3>2
  <2>4. Upto(n + 1, h)
    BY <2>3
  <2> HIDE DEF h, Upto
  <2> QED
    BY <2>2, <2>4
<1>4. Nat \subseteq N
  <2> HIDE DEF N
  <2> QED
    BY <1>2, <1>3, NatSetInduction
<1>5. PICK g \in [SUBSET S -> Nat] : Upto(Cardinality(S), g)
  BY <1>1, <1>4
<1>6. \A s \in SUBSET S : Cardinality(s) <= Cardinality(S)
  BY FS_Subset
<1> QED
  BY <1>5, <1>6

\* SumFunctionOnSet satisfies its recursion
LEMMA SumIter ==
    ASSUME NEW S, NEW f, Summable(f, S)
    PROVE  \E g : Sums(g, f, S) /\ SumFunctionOnSet(f, S) = g[S]
<1> USE DEF Summable
<1> DEFINE it == CHOOSE g : g = [s \in SUBSET S |-> SumStep(f, g, s)]
<1>1. PICK h \in [SUBSET S -> Nat] : \A s \in SUBSET S : h[s] = SumStep(f, h, s)
  BY SumDefined
<1>2. h = [s \in SUBSET S |-> SumStep(f, h, s)]
  BY <1>1
<1>3. \E g : g = [s \in SUBSET S |-> SumStep(f, g, s)]
  BY <1>2
<1>4. it = [s \in SUBSET S |-> SumStep(f, it, s)]
  BY <1>3, Zenon
<1>5. SumFunctionOnSet(f, S) = it[S]
  BY Zenon DEF SumFunctionOnSet, FoldFunctionOnSet, MapThenFoldSet, SumStep, Element
<1> HIDE DEF it
<1> DEFINE T == {s \in SUBSET S : it[s] = h[s]}
<1>6. \A s \in SUBSET S : it[s] = SumStep(f, it, s)
  BY <1>4
<1>7. ASSUME NEW s \in SUBSET S, \A r \in SUBSET s : r # s => r \in T
      PROVE  s \in T
  <2>1. CASE s = {}
    BY <1>1, <1>6, <2>1 DEF SumStep
  <2>2. CASE s # {}
    <3>1. Element(s) \in s
      BY <2>2, ElementIn
    <3>2. s \ {Element(s)} \in T
      BY <1>7, <3>1
    <3> QED
      BY <1>1, <1>6, <2>2, <3>2 DEF SumStep
  <2> QED
    BY <2>1, <2>2
<1>8. SUBSET S \subseteq T
  <2> HIDE DEF T
  <2> QED
    BY <1>7, SubsetInduction
<1>9. SumFunctionOnSet(f, S) = h[S]
  BY <1>5, <1>8
<1> QED
  BY <1>1, <1>9 DEF Sums

\* The sum of the values of f on a finite set: its type, the empty sum, ...
LEMMA SumType ==
    ASSUME NEW S, NEW f, Summable(f, S)
    PROVE  SumFunctionOnSet(f, S) \in Nat
<1>1. PICK g : Sums(g, f, S) /\ SumFunctionOnSet(f, S) = g[S]
  BY SumIter
<1> QED
  BY <1>1 DEF Sums

\* The sum of nothing.
LEMMA SumEmpty ==
    ASSUME NEW f
    PROVE  SumFunctionOnSet(f, {}) = 0
<1>1. Summable(f, {})
  BY FS_EmptySet DEF Summable
<1>2. PICK g : Sums(g, f, {}) /\ SumFunctionOnSet(f, {}) = g[{}]
  BY <1>1, SumIter
<1> QED
  BY <1>2 DEF Sums, SumStep

\* ... two functions that agree on the set have the same sum, ...
LEMMA SumAgree ==
    ASSUME NEW S, NEW f, Summable(f, S), NEW R \in SUBSET S, NEW e, \A x \in R : e[x] = f[x],
           NEW g, Sums(g, f, S), NEW h, Sums(h, e, R)
    PROVE  h[R] = g[R]
<1> DEFINE T == {s \in SUBSET R : h[s] = g[s]}
<1>1. ASSUME NEW s \in SUBSET R, \A r \in SUBSET s : r # s => r \in T
      PROVE  s \in T
  <2>0. g[s] = SumStep(f, g, s) /\ h[s] = SumStep(e, h, s)
    BY DEF Sums
  <2>1. CASE s = {}
    BY <2>0, <2>1 DEF SumStep
  <2>2. CASE s # {}
    <3>1. Element(s) \in s
      BY <2>2, ElementIn
    <3>2. s \ {Element(s)} \in T
      BY <1>1, <3>1
    <3> QED
      BY <2>0, <2>2, <3>1, <3>2 DEF SumStep
  <2> QED
    BY <2>1, <2>2
<1>2. IsFiniteSet(R)
  BY FS_Subset DEF Summable
<1>3. SUBSET R \subseteq T
  <2> HIDE DEF T
  <2> QED
    BY <1>1, <1>2, SubsetInduction
<1> QED
  BY <1>3

\* The sum depends on the values alone.
LEMMA SumCongruence ==
    ASSUME NEW S, NEW f, Summable(f, S), NEW e, \A x \in S : e[x] = f[x]
    PROVE  SumFunctionOnSet(e, S) = SumFunctionOnSet(f, S)
<1>1. PICK g : Sums(g, f, S) /\ SumFunctionOnSet(f, S) = g[S]
  BY SumIter
<1>2. Summable(e, S)
  BY DEF Summable
<1>3. PICK h : Sums(h, e, S) /\ SumFunctionOnSet(e, S) = h[S]
  BY <1>2, SumIter
<1>4. S \in SUBSET S
  OBVIOUS
<1>5. h[S] = g[S]
  BY <1>1, <1>3, <1>4, SumAgree
<1> QED
  BY <1>1, <1>3, <1>5

\* ... and any one element may be taken out first.
LEMMA SumRemove ==
    ASSUME NEW S, NEW f, Summable(f, S), NEW a \in S
    PROVE  /\ SumFunctionOnSet(f, S) = f[a] + SumFunctionOnSet(f, S \ {a})
           /\ Summable(f, S \ {a})
<1>1. PICK g : Sums(g, f, S) /\ SumFunctionOnSet(f, S) = g[S]
  BY SumIter
<1> DEFINE T == {s \in SUBSET S : \A x \in s : g[s] = f[x] + g[s \ {x}]}
<1>2. ASSUME NEW s \in SUBSET S, \A r \in SUBSET s : r # s => r \in T
      PROVE  s \in T
  <2> SUFFICES ASSUME NEW x \in s
               PROVE  g[s] = f[x] + g[s \ {x}]
    OBVIOUS
  <2> DEFINE c == Element(s)
  <2>1. c \in s
    BY ElementIn
  <2>2. g[s] = f[c] + g[s \ {c}]
    BY <1>1 DEF Sums, SumStep
  <2>3. CASE x # c
    <3> HIDE DEF c
    <3>1. g[s \ {c}] = f[x] + g[(s \ {c}) \ {x}]
      BY <1>2, <2>1, <2>3
    <3>2. g[s \ {x}] = f[c] + g[(s \ {x}) \ {c}]
      BY <1>2, <2>1, <2>3
    <3>3. (s \ {c}) \ {x} = (s \ {x}) \ {c}
      OBVIOUS
    <3>4. f[x] \in Nat /\ f[c] \in Nat /\ g[(s \ {x}) \ {c}] \in Nat
      BY <1>1, <2>1 DEF Summable, Sums
    <3>5. g[s] = f[c] + (f[x] + g[(s \ {x}) \ {c}])
      BY <2>2, <3>1, <3>3, Zenon
    <3>6. f[c] + (f[x] + g[(s \ {x}) \ {c}]) = f[x] + (f[c] + g[(s \ {x}) \ {c}])
      BY <3>4
    <3> QED
      BY <3>2, <3>5, <3>6, Zenon
  <2> QED
    BY <2>2, <2>3
<1>3. SUBSET S \subseteq T
  <2> HIDE DEF T
  <2> QED
    BY <1>2, SubsetInduction DEF Summable
<1>4. g[S] = f[a] + g[S \ {a}]
  BY <1>3
<1>5. Summable(f, S \ {a}) /\ S \ {a} \in SUBSET S
  BY FS_Subset DEF Summable
<1>6. PICK h : Sums(h, f, S \ {a}) /\ SumFunctionOnSet(f, S \ {a}) = h[S \ {a}]
  BY <1>5, SumIter
<1>7. h[S \ {a}] = g[S \ {a}]
  BY <1>1, <1>5, <1>6, SumAgree
<1> QED
  BY <1>1, <1>4, <1>5, <1>6, <1>7

-----------------------------------------------------------------------------
(***************************************************************************)
(* The queue.                                                              *)
(***************************************************************************)
\* What a step may do to the queue.
LEMMA QueueKinds ==
    ASSUME [Next]_brokerVars
    PROVE  \/ UNCHANGED <<queued, ahead>>
           \/ \E S : Dequeue(S)
           \/ \E j \in Jobs, s \in Snapshots : SubmitQueued(j, s)
<1>1. ASSUME NEW j \in Jobs, NEW s \in Snapshots, Submit(j, s)
      PROVE  \/ UNCHANGED <<queued, ahead>>
             \/ \E S : Dequeue(S)
             \/ \E k \in Jobs, r \in Snapshots : SubmitQueued(k, r)
  <2>1. CASE SubmitTurnedAway(j, s)
    BY <2>1 DEF SubmitTurnedAway
  <2>2. CASE SubmitAdmitted(j, s) \/ SubmitRejected(j, s)
    <3>1. Dequeue(Superseded(j))
      BY <2>2 DEF SubmitAdmitted, SubmitRejected
    <3> QED
      BY <3>1
  <2> QED
    BY <1>1, <2>1, <2>2 DEF Submit
<1>2. ASSUME NEW j \in Jobs, PollDrops(j) \/ PollAdmits(j) \/ PollKeeps(j)
      PROVE  UNCHANGED <<queued, ahead>> \/ \E S : Dequeue(S)
  <2>1. Dequeue({j}) \/ UNCHANGED <<queued, ahead>>
    BY <1>2 DEF PollDrops, PollAdmits, PollKeeps, jobVars
  <2> QED
    BY <2>1
<1>3. ASSUME NEW j \in Jobs, Cancel(j)
      PROVE  UNCHANGED <<queued, ahead>> \/ \E S : Dequeue(S)
  <2>1. Dequeue({j}) \/ UNCHANGED <<queued, ahead>>
    BY <1>3 DEF Cancel
  <2> QED
    BY <2>1
<1>4. ASSUME NEW s \in Snapshots,
             RefreshPressure(s) \/ PollStart(s) \/ \E j \in Jobs : ReportOom(j, s)
      PROVE  UNCHANGED <<queued, ahead>>
  BY <1>4 DEF RefreshPressure, PollStart, ReportOom, jobVars
<1>5. ASSUME NEW j \in Jobs, MarkOutputStarted(j) \/ \E completed \in BOOLEAN : FinishLease(j, completed)
      PROVE  UNCHANGED <<queued, ahead>>
  BY <1>5 DEF MarkOutputStarted, FinishLease
<1>6. ASSUME LedgerStep
      PROVE  UNCHANGED <<queued, ahead>>
  BY <1>6 DEF LedgerStep, RegisterModel, BeginWarming, MarkLoaded, ClearQuarantine,
     TransitionIdle, QuarantineModel, ChangeLedger, jobVars
<1>7. ASSUME Tick \/ (\E u \in Utterances : FinishUtterance(u)) \/ UNCHANGED brokerVars
      PROVE  UNCHANGED <<queued, ahead>>
  BY <1>7 DEF Tick, FinishUtterance, brokerVars, jobVars
<1> QED
  BY <1>1, <1>2, <1>3, <1>4, <1>5, <1>6, <1>7 DEF Next, PollStep

\* Submitting, superseding, polling and cancelling keep one place in the queue
\* for every queued job and one job for every coalescing key.
LEMMA QueueStep ==
    ASSUME IInv, QueueIsCoherent, IInv', [Next]_brokerVars
    PROVE  QueueIsCoherent'
<1>0. /\ queued \subseteq Jobs /\ ahead \in [Jobs -> SUBSET Jobs]
      /\ \A j \in queued' : active'[j] = None
  BY DEF IInv, TypeOK, QueuedAreIdle
<1>1. CASE UNCHANGED <<queued, ahead>>
  BY <1>0, <1>1 DEF QueueIsCoherent
<1>2. ASSUME NEW S, Dequeue(S)
      PROVE  QueueIsCoherent'
  <2>1. /\ queued' = queued \ S
        /\ \A j \in queued' : ahead'[j] = ahead[j] \ S
    BY <1>0, <1>2 DEF Dequeue
  <2> QED
    BY <1>0, <2>1 DEF QueueIsCoherent
<1>3. ASSUME NEW j \in Jobs, NEW s \in Snapshots, SubmitQueued(j, s)
      PROVE  QueueIsCoherent'
  <2> DEFINE gone == Superseded(j)
  <2>1. /\ j \notin queued
        /\ queued' = (queued \ gone) \cup {j}
        /\ ahead'[j] = queued \ gone
        /\ \A k \in queued \ gone : ahead'[k] = ahead[k] \ gone
    BY <1>0, <1>3 DEF SubmitQueued, Considered, Known
  <2>2. \A k \in queued \ gone :
           Job[j].policy = "Supersede" /\ Job[k].policy = "Supersede" => Job[k].key # Job[j].key
    BY DEF Superseded
  <2> HIDE DEF gone
  <2>3. \A a, b \in queued' :
           (a # b /\ Job[a].policy = "Supersede" /\ Job[b].policy = "Supersede")
              => Job[a].key # Job[b].key
    BY <2>1, <2>2 DEF QueueIsCoherent
  <2>4. \A a \in queued' : ahead'[a] \subseteq queued' \ {a}
    BY <2>1 DEF QueueIsCoherent
  <2>5. \A a, b \in queued' : a # b => (a \in ahead'[b] <=> b \notin ahead'[a])
    BY <2>1 DEF QueueIsCoherent
  <2> QED
    BY <1>0, <2>3, <2>4, <2>5 DEF QueueIsCoherent
<1> QED
  BY <1>1, <1>2, <1>3, QueueKinds

\* submit and poll_ready keep the queue coherent: one newest job per
\* coalescing key, a strict order of submission, and no job both queued and
\* active.
THEOREM CoherentQueue == Spec => []QueueIsCoherent
<1>1. BrokerInit => QueueIsCoherent
  BY DEF BrokerInit, QueueIsCoherent
<1>2. IInv /\ QueueIsCoherent /\ IInv' /\ [Next]_brokerVars => QueueIsCoherent'
  BY QueueStep
<1> QED
  BY <1>1, <1>2, Invariance, PTL DEF Spec

-----------------------------------------------------------------------------
(***************************************************************************)
(* The ledger.                                                             *)
(***************************************************************************)
\* No job starts or ends, and no reservation changes.
JobsStay == (\A j \in Jobs : SameJob(j, active')) /\ UNCHANGED reserved

\* Job j starts on target t, which fits by a snapshot that a call took, or the
\* poll in progress.
Admission(j, t, s) ==
    /\ s \in SnapshotRecords
    /\ s \in Snapshots \/ (todo # {} /\ s = snap)
    /\ active[j] = None
    /\ Fits(s, t)
    /\ Admit(j, t, s)

\* What a step may do to the jobs and the ledger.
LEMMA StepKinds ==
    ASSUME IInv, [Next]_brokerVars
    PROVE  \/ JobsStay /\ UNCHANGED ledger
           \/ \E j \in Jobs, t \in Targets, s \in SnapshotRecords : Admission(j, t, s)
           \/ \E j \in Jobs : active[j] # None /\ Release(j)
           \/ \E j \in Jobs, s \in Snapshots : ReportOom(j, s)
           \/ LedgerStep
<1> DEFINE Goal == \/ JobsStay /\ UNCHANGED ledger
                   \/ \E j \in Jobs, t \in Targets, s \in SnapshotRecords : Admission(j, t, s)
                   \/ \E j \in Jobs : active[j] # None /\ Release(j)
                   \/ \E j \in Jobs, s \in Snapshots : ReportOom(j, s)
                   \/ LedgerStep
<1>1. ASSUME NEW s \in Snapshots, active' = Expired(s.time), UNCHANGED <<reserved, ledger>>
      PROVE  Goal
  BY <1>1, SnapshotType, ExpiredKeepsJobs DEF JobsStay, IInv
<1>2. UNCHANGED <<active, reserved, ledger>> => Goal
  BY DEF JobsStay, SameJob
<1>3. ASSUME NEW j \in Jobs, NEW s \in SnapshotRecords,
             s \in Snapshots \/ (todo # {} /\ s = snap), active[j] = None,
             \E i \in DOMAIN Job[j].targets : Selects(j, i, s) /\ Admit(j, Job[j].targets[i], s)
      PROVE  Goal
  <2>1. PICK i \in DOMAIN Job[j].targets : Selects(j, i, s) /\ Admit(j, Job[j].targets[i], s)
    BY <1>3
  <2>2. Job[j].targets[i] \in Targets
    BY JobAssumption
  <2>3. Fits(s, Job[j].targets[i])
    BY <2>1 DEF Selects, Eligible
  <2>4. Admission(j, Job[j].targets[i], s)
    BY <1>3, <2>1, <2>3 DEF Admission
  <2> QED
    BY <2>2, <2>4
<1>4. ASSUME NEW s \in Snapshots, NEW j \in Jobs, Submit(j, s)
      PROVE  Goal
  <2>1. CASE SubmitAdmitted(j, s)
    <3>1. active[j] = None /\ s \in SnapshotRecords
      BY <2>1, SnapshotType DEF SubmitAdmitted, Considered, Known, IInv
    <3>2. \E i \in DOMAIN Job[j].targets : Selects(j, i, s) /\ Admit(j, Job[j].targets[i], s)
      BY <2>1 DEF SubmitAdmitted
    <3> QED
      BY <1>3, <3>1, <3>2
  <2>2. CASE SubmitTurnedAway(j, s) \/ SubmitRejected(j, s) \/ SubmitQueued(j, s)
    <3>1. active' = Expired(s.time) /\ UNCHANGED <<reserved, ledger>>
      BY <2>2 DEF SubmitTurnedAway, SubmitRejected, SubmitQueued, Observe
    <3> QED
      BY <1>1, <3>1
  <2> QED
    BY <1>4, <2>1, <2>2 DEF Submit
<1>5. ASSUME NEW s \in Snapshots, RefreshPressure(s) \/ PollStart(s)
      PROVE  Goal
  <2>1. active' = Expired(s.time) /\ UNCHANGED <<reserved, ledger>>
    BY <1>5 DEF RefreshPressure, PollStart, Observe
  <2> QED
    BY <1>1, <2>1
<1>6. ASSUME NEW j \in Jobs, PollDrops(j) \/ PollAdmits(j) \/ PollKeeps(j)
      PROVE  Goal
  <2>1. CASE PollAdmits(j)
    <3>1. j \in todo
      BY <2>1 DEF PollAdmits, PollNext
    <3>2. active[j] = None /\ todo # {} /\ snap \in SnapshotRecords
      BY <3>1 DEF IInv, TypeOK, QueuedAreIdle
    <3>3. \E i \in DOMAIN Job[j].targets : Selects(j, i, snap) /\ Admit(j, Job[j].targets[i], snap)
      BY <2>1 DEF PollAdmits
    <3> QED
      BY <1>3, <3>2, <3>3
  <2>2. CASE PollDrops(j) \/ PollKeeps(j)
    BY <1>2, <2>2 DEF PollDrops, PollKeeps, jobVars
  <2> QED
    BY <1>6, <2>1, <2>2
<1>7. ASSUME NEW j \in Jobs, Cancel(j) \/ MarkOutputStarted(j)
      PROVE  Goal
  <2>1. \/ UNCHANGED active
        \/ active[j] # None /\ active' = [active EXCEPT ![j] = [active[j] EXCEPT !.cancelled = TRUE]]
        \/ active[j] # None /\ active' = [active EXCEPT ![j] = [active[j] EXCEPT !.outputStarted = TRUE]]
    BY <1>7 DEF Cancel, MarkOutputStarted, IInv, TypeOK
  <2>2. UNCHANGED <<reserved, ledger>>
    BY <1>7 DEF Cancel, MarkOutputStarted
  <2>3. \A rec \in {[active[j] EXCEPT !.cancelled = TRUE], [active[j] EXCEPT !.outputStarted = TRUE]} :
           active[j] # None => /\ rec \in ActiveRecords
                               /\ rec.target = active[j].target /\ rec.charged = active[j].charged
    BY DEF IInv, TypeOK, ActiveRecords
  <2>4. \A k \in Jobs : SameJob(k, active')
    BY <2>1, <2>3, NoneAssumption DEF SameJob, IInv, TypeOK
  <2> QED
    BY <2>2, <2>4 DEF JobsStay
<1>8. ASSUME NEW j \in Jobs, NEW completed \in BOOLEAN, FinishLease(j, completed)
      PROVE  Goal
  BY <1>8 DEF FinishLease
<1>9. ASSUME Tick \/ (\E u \in Utterances : FinishUtterance(u)) \/ UNCHANGED brokerVars
      PROVE  Goal
  BY <1>2, <1>9 DEF Tick, FinishUtterance, brokerVars, jobVars
<1> HIDE DEF Goal
<1>10. LedgerStep \/ (\E j \in Jobs, s \in Snapshots : ReportOom(j, s)) => Goal
  BY DEF Goal
<1>11. Goal
  BY <1>4, <1>5, <1>6, <1>7, <1>8, <1>9, <1>10 DEF Next, PollStep
<1> QED
  BY <1>11 DEF Goal

\* The model that an admission uses is loaded.
LEMMA AdmissionModel ==
    ASSUME IInv, NEW j \in Jobs, NEW t \in Targets, NEW s, Admission(j, t, s)
    PROVE  /\ ~Registered(t) => ledger' = ledger
           /\ Registered(t) =>
                 /\ Target[t].model \in Models
                 /\ ledger[Target[t].model].state \in {"Loaded", "InFlight"}
                 /\ ledger' = [ledger EXCEPT ![Target[t].model] = ModelReserved(Target[t].model)]
BY TargetAssumption DEF Admission, Fits, Servable, Admit, Registered

\* release leaves the ledger alone or writes the record of the job's own model.
LEMMA ReleaseModel ==
    ASSUME IInv, NEW j \in Jobs, active[j] # None, Release(j)
    PROVE  LET t == active[j].target
           IN  /\ t \in Targets
               /\ ~Registered(t) => ledger' = ledger
               /\ Registered(t) =>
                     /\ Target[t].model \in Models
                     /\ ledger' = [ledger EXCEPT ![Target[t].model] = ModelReleased(Target[t].model)]
BY TargetAssumption DEF Release, Registered, IInv, TypeOK, ActiveRecords

\* report_oom quarantines a model or leaves the ledger alone.
LEMMA OomModel ==
    ASSUME IInv, NEW j \in Jobs, NEW s \in Snapshots, ReportOom(j, s)
    PROVE  \/ UNCHANGED ledger
           \/ \E m \in Models, until \in Nat :
                 /\ m = Target[active[j].target].model
                 /\ ledger[m].state # "Unregistered"
                 /\ ledger' = [ledger EXCEPT ![m] = [ledger[m] EXCEPT !.state = "Quarantined", !.until = until]]
<1> DEFINE m == Target[active[j].target].model
           until == s.time + QuarantineTime
<1>1. active[j].target \in Targets
  BY DEF ReportOom, IInv, TypeOK, ActiveRecords
<1>2. m \in Models \cup {None}
  BY <1>1, TargetAssumption
<1>3. until \in Nat
  BY SnapshotType, BrokerAssumption DEF IInv
<1>4. \/ UNCHANGED ledger
      \/ /\ m # None /\ ledger[m].state # "Unregistered"
         /\ ledger' = [ledger EXCEPT ![m].state = "Quarantined", ![m].until = until]
  BY DEF ReportOom
<1> HIDE DEF m, until
<1>5. m \in Models => [ledger EXCEPT ![m].state = "Quarantined", ![m].until = until]
                     = [ledger EXCEPT ![m] = [ledger[m] EXCEPT !.state = "Quarantined", !.until = until]]
  BY DEF IInv, TypeOK, LedgerRecords
<1> QED
  BY <1>2, <1>3, <1>4, <1>5 DEF m

\* A ledger operation that leaves a model's count of jobs and its history alone.
Keeps(m, r) == r.jobs = ledger[m].jobs /\ r.disturbed = ledger[m].disturbed

\* The ledger's own operations, by the record they write.
LEMMA LedgerKinds ==
    ASSUME IInv, LedgerStep
    PROVE  \E m \in Models, r \in LedgerRecords :
              /\ ChangeLedger(m, r)
              /\ \/ /\ ledger[m].state = "Unregistered"
                    /\ r.state = "Cold" /\ r.jobs = 0
                    /\ r.disturbed = Disturbed(m, "registered")
                 \/ /\ ledger[m].state = "Cold" /\ r.state = "Warming"
                    /\ Keeps(m, r) /\ r.envelope = ledger[m].envelope
                    /\ \E s \in Snapshots : VramInUse(s, 0) + r.envelope.resident <= Ceiling(s)
                 \/ /\ ledger[m].state = "Warming" /\ r.state = "Loaded"
                    /\ Keeps(m, r)
                    /\ \E s \in Snapshots :
                          VramInUse(s, r.envelope.resident - ledger[m].envelope.resident) <= Ceiling(s)
                 \/ /\ ledger[m].state \in {"Loaded", "Evicting"} /\ ledger[m].jobs = 0
                    /\ r.state \in {"Evicting", "Cold"}
                    /\ Keeps(m, r) /\ r.envelope = ledger[m].envelope
                 \/ /\ ledger[m].state # "Unregistered" /\ r.state = "Quarantined"
                    /\ Keeps(m, r) /\ r.envelope = ledger[m].envelope
                 \/ /\ ledger[m].state = "Quarantined" /\ r.state = "Cold"
                    /\ r.jobs = ledger[m].jobs /\ r.envelope = ledger[m].envelope
                    /\ now >= ledger[m].until
                    /\ r.disturbed = Disturbed(m, "cleared")
<1>1. PICK m \in Models :
         \/ RegisterModel(m)
         \/ \E s \in Snapshots :
               \/ BeginWarming(m, s)
               \/ \E measured \in Envelopes : MarkLoaded(m, measured, s)
               \/ ClearQuarantine(m, s)
         \/ TransitionIdle(m, "Loaded", "Evicting")
         \/ TransitionIdle(m, "Evicting", "Cold")
         \/ \E until \in 0 .. MaxTime : QuarantineModel(m, until)
  BY DEF LedgerStep
<1>2. ledger[m] \in LedgerRecords
  BY DEF IInv, TypeOK
<1>3. \A st \in LedgerStates :
         /\ [ledger[m] EXCEPT !.state = st] \in LedgerRecords
         /\ [ledger[m] EXCEPT !.state = st].state = st
         /\ Keeps(m, [ledger[m] EXCEPT !.state = st])
         /\ [ledger[m] EXCEPT !.state = st].envelope = ledger[m].envelope
  BY <1>2 DEF LedgerRecords, Keeps
<1>4. \A st \in LedgerStates, until \in Nat :
         /\ [ledger[m] EXCEPT !.state = st, !.until = until] \in LedgerRecords
         /\ [ledger[m] EXCEPT !.state = st, !.until = until].state = st
         /\ Keeps(m, [ledger[m] EXCEPT !.state = st, !.until = until])
         /\ [ledger[m] EXCEPT !.state = st, !.until = until].envelope = ledger[m].envelope
  BY <1>2 DEF LedgerRecords, Keeps
<1>5. \A what \in {"registered", "cleared"} : Disturbed(m, what) \subseteq {"registered", "cleared"}
  BY <1>2 DEF Disturbed, LedgerRecords
<1>6. {"Warming", "Evicting", "Cold", "Quarantined"} \subseteq LedgerStates
  BY DEF LedgerStates
<1>7. CASE RegisterModel(m)
  <2> DEFINE d == Disturbed(m, "registered")
             r == [state |-> "Cold", jobs |-> 0, envelope |-> Model[m].envelope, until |-> 0,
                   disturbed |-> d]
  <2>0. d \in SUBSET {"registered", "cleared"}
    BY <1>5
  <2>1. ChangeLedger(m, r) /\ ledger[m].state = "Unregistered"
    BY <1>7 DEF RegisterModel
  <2> HIDE DEF d
  <2>2. r \in LedgerRecords /\ r.state = "Cold" /\ r.jobs = 0 /\ r.disturbed = d
    BY <2>0, ModelAssumption DEF LedgerRecords, LedgerStates
  <2> HIDE DEF r
  <2> QED
    BY <2>1, <2>2 DEF d
<1>8. CASE \E s \in Snapshots : BeginWarming(m, s)
  <2> DEFINE r == [ledger[m] EXCEPT !.state = "Warming"]
  <2>1. /\ r \in LedgerRecords /\ r.state = "Warming"
        /\ Keeps(m, r) /\ r.envelope = ledger[m].envelope
    BY <1>3, <1>6
  <2>2. PICK s \in Snapshots : BeginWarming(m, s)
    BY <1>8
  <2>3. /\ ChangeLedger(m, r) /\ ledger[m].state = "Cold"
        /\ VramInUse(s, 0) + r.envelope.resident <= Ceiling(s)
    BY <2>1, <2>2 DEF BeginWarming
  <2> HIDE DEF r
  <2> QED
    BY <2>1, <2>3
<1>9. CASE \E s \in Snapshots : \E measured \in Envelopes : MarkLoaded(m, measured, s)
  <2>1. PICK s \in Snapshots, measured \in Envelopes : MarkLoaded(m, measured, s)
    BY <1>9
  <2> DEFINE r == [ledger[m] EXCEPT !.state = "Loaded", !.envelope = measured]
  <2>2. r \in LedgerRecords /\ r.state = "Loaded" /\ Keeps(m, r) /\ r.envelope = measured
    BY <1>2, ModelAssumption DEF LedgerRecords, LedgerStates, Keeps
  <2>3. /\ ChangeLedger(m, r) /\ ledger[m].state = "Warming"
        /\ VramInUse(s, r.envelope.resident - ledger[m].envelope.resident) <= Ceiling(s)
    BY <2>1, <2>2 DEF MarkLoaded
  <2> HIDE DEF r
  <2> QED
    BY <2>2, <2>3
<1>10. CASE \E s \in Snapshots : ClearQuarantine(m, s)
  <2> DEFINE d == Disturbed(m, "cleared")
             r == [ledger[m] EXCEPT !.state = "Cold", !.until = 0, !.disturbed = d]
  <2>0. d \in SUBSET {"registered", "cleared"}
    BY <1>5
  <2>1. PICK s \in Snapshots : ClearQuarantine(m, s)
    BY <1>10
  <2>2. ChangeLedger(m, r) /\ ledger[m].state = "Quarantined"
    BY <2>1 DEF ClearQuarantine
  <2>3. s.time \in 0 .. now
    BY BrokerAssumption DEF Snapshots, SnapshotRecords
  <2>4. now >= ledger[m].until
    BY <1>2, <2>1, <2>3 DEF ClearQuarantine, LedgerRecords, IInv, TypeOK
  <2> HIDE DEF d
  <2>5. /\ r \in LedgerRecords /\ r.state = "Cold" /\ r.disturbed = d
        /\ r.jobs = ledger[m].jobs /\ r.envelope = ledger[m].envelope
    BY <1>2, <2>0 DEF LedgerRecords, LedgerStates
  <2> HIDE DEF r
  <2> QED
    BY <2>2, <2>4, <2>5 DEF d
<1>11. ASSUME NEW from \in {"Loaded", "Evicting"}, NEW to \in {"Evicting", "Cold"},
              TransitionIdle(m, from, to)
       PROVE  \E r \in LedgerRecords :
                 /\ ChangeLedger(m, r)
                 /\ ledger[m].state = from /\ ledger[m].jobs = 0
                 /\ r.state = to
                 /\ Keeps(m, r) /\ r.envelope = ledger[m].envelope
  <2> DEFINE r == [ledger[m] EXCEPT !.state = to]
  <2>1. /\ r \in LedgerRecords /\ r.state = to
        /\ Keeps(m, r) /\ r.envelope = ledger[m].envelope
    BY <1>3, <1>6
  <2>2. ChangeLedger(m, r) /\ ledger[m].state = from /\ ledger[m].jobs = 0
    BY <1>11 DEF TransitionIdle
  <2> HIDE DEF r
  <2> QED
    BY <2>1, <2>2
<1>12. CASE \E until \in 0 .. MaxTime : QuarantineModel(m, until)
  <2>1. PICK until \in 0 .. MaxTime : QuarantineModel(m, until)
    BY <1>12
  <2>2. until \in Nat
    BY BrokerAssumption
  <2> DEFINE r == [ledger[m] EXCEPT !.state = "Quarantined", !.until = until]
  <2>3. /\ r \in LedgerRecords /\ r.state = "Quarantined"
        /\ Keeps(m, r) /\ r.envelope = ledger[m].envelope
    BY <1>4, <1>6, <2>2
  <2>4. ChangeLedger(m, r) /\ ledger[m].state # "Unregistered"
    BY <2>1 DEF QuarantineModel
  <2> HIDE DEF r
  <2> QED
    BY <2>3, <2>4
<1>13. CASE TransitionIdle(m, "Loaded", "Evicting")
  BY <1>11, <1>13
<1>14. CASE TransitionIdle(m, "Evicting", "Cold")
  BY <1>11, <1>14
<1> QED
  BY <1>1, <1>7, <1>8, <1>9, <1>10, <1>12, <1>13, <1>14

\* What happened to a model under running jobs is not forgotten.
LEMMA HistoryKept ==
    ASSUME IInv, [Next]_brokerVars
    PROVE  \A m \in Models : ledger[m].disturbed \subseteq ledger'[m].disturbed
<1>0. ledger \in [Models -> LedgerRecords]
  BY DEF IInv, TypeOK
<1> DEFINE Goal == \A m \in Models : ledger[m].disturbed \subseteq ledger'[m].disturbed
<1>1. UNCHANGED ledger => Goal
  OBVIOUS
<1>2. ASSUME NEW j \in Jobs, NEW t \in Targets, NEW s, Admission(j, t, s)
      PROVE  Goal
  <2> DEFINE n == Target[t].model
  <2>1. UNCHANGED ledger \/ (n \in Models /\ ledger' = [ledger EXCEPT ![n] = ModelReserved(n)])
    BY <1>2, AdmissionModel
  <2>2. ModelReserved(n).disturbed = ledger[n].disturbed
    BY DEF ModelReserved
  <2> HIDE DEF n
  <2> QED
    BY <1>0, <2>1, <2>2
<1>3. ASSUME NEW j \in Jobs, active[j] # None, Release(j)
      PROVE  Goal
  <2> DEFINE n == Target[active[j].target].model
  <2>1. UNCHANGED ledger \/ (n \in Models /\ ledger' = [ledger EXCEPT ![n] = ModelReleased(n)])
    BY <1>3, ReleaseModel
  <2>2. ModelReleased(n).disturbed = ledger[n].disturbed
    BY DEF ModelReleased
  <2> HIDE DEF n
  <2> QED
    BY <1>0, <2>1, <2>2
<1>4. ASSUME NEW j \in Jobs, NEW s \in Snapshots, ReportOom(j, s)
      PROVE  Goal
  <2>1. CASE UNCHANGED ledger
    BY <1>1, <2>1
  <2>2. ASSUME NEW n \in Models, NEW until \in Nat,
               ledger' = [ledger EXCEPT ![n] = [ledger[n] EXCEPT !.state = "Quarantined", !.until = until]]
        PROVE  Goal
    <3>1. [ledger[n] EXCEPT !.state = "Quarantined", !.until = until].disturbed = ledger[n].disturbed
      BY <1>0 DEF LedgerRecords
    <3> QED
      BY <1>0, <2>2, <3>1
  <2> QED
    BY <1>4, <2>1, <2>2, OomModel
<1>5. CASE LedgerStep
  <2>1. PICK n \in Models, r \in LedgerRecords :
           /\ ChangeLedger(n, r)
           /\ \/ r.disturbed = ledger[n].disturbed
              \/ \E what \in {"registered", "cleared"} : r.disturbed = Disturbed(n, what)
    BY <1>5, LedgerKinds DEF Keeps
  <2>2. ledger[n].disturbed \subseteq r.disturbed
    BY <2>1 DEF Disturbed
  <2> QED
    BY <1>0, <2>1, <2>2 DEF ChangeLedger
<1> QED
  BY <1>1, <1>2, <1>3, <1>4, <1>5, StepKinds

\* A job that starts finds its model loaded, and one that ends leaves a
\* quarantined model as it is: only an expired quarantine is cleared.
LEMMA QuarantineStep ==
    ASSUME IInv, [Next]_brokerVars, NEW m \in Models,
           ledger[m].state = "Quarantined", ledger'[m].state # "Quarantined"
    PROVE  ledger'[m].state = "Cold" /\ now >= ledger[m].until
<1>0. ledger \in [Models -> LedgerRecords]
  BY DEF IInv, TypeOK
<1>1. CASE UNCHANGED ledger
  BY <1>1
<1>2. ASSUME NEW j \in Jobs, NEW t \in Targets, NEW s, Admission(j, t, s)
      PROVE  FALSE
  BY <1>0, <1>2, AdmissionModel
<1>3. ASSUME NEW j \in Jobs, active[j] # None, Release(j)
      PROVE  FALSE
  <2> DEFINE n == Target[active[j].target].model
  <2>1. UNCHANGED ledger \/ (n \in Models /\ ledger' = [ledger EXCEPT ![n] = ModelReleased(n)])
    BY <1>3, ReleaseModel
  <2>2. n = m => ModelReleased(n).state = "Quarantined"
    BY DEF ModelReleased
  <2> HIDE DEF n
  <2> QED
    BY <1>0, <1>1, <2>1, <2>2
<1>4. ASSUME NEW j \in Jobs, NEW s \in Snapshots, ReportOom(j, s)
      PROVE  FALSE
  <2>1. PICK n \in Models, until \in Nat :
           ledger' = [ledger EXCEPT ![n] = [ledger[n] EXCEPT !.state = "Quarantined", !.until = until]]
    BY <1>1, <1>4, OomModel
  <2>2. [ledger[n] EXCEPT !.state = "Quarantined", !.until = until].state = "Quarantined"
    BY <1>0 DEF LedgerRecords
  <2> QED
    BY <1>0, <2>1, <2>2
<1>5. CASE LedgerStep
  BY <1>0, <1>5, LedgerKinds DEF ChangeLedger
<1> QED
  BY <1>1, <1>2, <1>3, <1>4, <1>5, StepKinds

\* clear_model_quarantine, and nothing else, ends a quarantine, and not before
\* its time: neither the end of a job (release) nor the start of one does.
THEOREM QuarantineIsKept == Spec => QuarantineOutlivesJobs
<1>1. IInv /\ [Next]_brokerVars =>
         [\A m \in Models :
             ledger[m].state = "Quarantined" /\ ledger'[m].state # "Quarantined"
               => ledger'[m].state = "Cold" /\ now >= ledger[m].until]_brokerVars
  BY QuarantineStep
<1> QED
  BY <1>1, Invariance, PTL DEF Spec, QuarantineOutlivesJobs

-----------------------------------------------------------------------------
(***************************************************************************)
(* The models in use.  ModelKeptWhileInFlight is not enough for the        *)
(* reservations: release finds what a job is charged by looking its model  *)
(* up in the ledger again, so the invariant also says how what the look-up *)
(* gives now compares with what was charged.                               *)
(***************************************************************************)
Users(m) == {j \in JobsOn(m) : Registered(active[j].target)}

\* Nothing of the kind `what' happened to the model of target t under running jobs.
Spared(t, what) == Target[t].model \in Models => what \notin ledger[Target[t].model].disturbed

\* What would be given back for job j now, and what was reserved for it.
Refundable(j) ==
    LET t == active[j].target
        c == active[j].charged
    IN  /\ c.ram = Estimate(t).ram
        /\ c.resident >= Estimate(t).resident
        /\ Spared(t, "registered") => c.resident = Estimate(t).resident
        /\ Spared(t, "registered") /\ Spared(t, "cleared") => c.transient = Estimate(t).transient

ModelInv == ModelKeptWhileInFlight /\ \A j \in ActiveJobs : Refundable(j)

\* ModelKeptWhileInFlight for one model.
Kept(m) ==
    /\ ledger[m].jobs <= Cardinality(Users(m))
    /\ "cleared" \notin ledger[m].disturbed
          => (ledger[m].jobs > 0 => ledger[m].state \in {"InFlight", "Quarantined"})
    /\ ledger[m].disturbed = {} =>
          /\ Users(m) # {} => ledger[m].state \in {"InFlight", "Quarantined"}
          /\ ledger[m].jobs = Cardinality(Users(m))

\* The property, model by model.
LEMMA KeptIsModelKept == ModelKeptWhileInFlight <=> \A m \in Models : Kept(m)
BY DEF ModelKeptWhileInFlight, Kept, Users

\* The jobs of a model can be counted.
LEMMA UsersFinite ==
    ASSUME NEW m
    PROVE  IsFiniteSet(Users(m)) /\ Cardinality(Users(m)) \in Nat
BY JobAssumption, FS_Subset, FS_CardinalityType DEF Users, JobsOn, ActiveJobs

\* Which targets have a model in the ledger, and what they are charged, is up to
\* the registrations and the envelopes.
LEMMA SameRegistrations ==
    ASSUME IInv, NEW t \in Targets,
           Target[t].model \in Models =>
              (ledger'[Target[t].model].state = "Unregistered"
                 <=> ledger[Target[t].model].state = "Unregistered")
    PROVE  Registered(t)' <=> Registered(t)
BY TargetAssumption DEF Registered

\* What a target is charged stays while its registration and envelope do.
LEMMA SameEstimate ==
    ASSUME IInv, NEW t \in Targets, Registered(t)' <=> Registered(t),
           Registered(t) => ledger'[Target[t].model].envelope = ledger[Target[t].model].envelope
    PROVE  Estimate(t)' = Estimate(t)
BY DEF Estimate

\* The target of an active job, and its model, are known.
LEMMA ActiveTarget ==
    ASSUME IInv, NEW j \in ActiveJobs
    PROVE  /\ j \in Jobs /\ active[j].target \in Targets
           /\ Target[active[j].target].model \in Models \cup {None}
BY TargetAssumption DEF IInv, TypeOK, ActiveJobs, ActiveRecords

\* A step that leaves the jobs and the ledger alone.
LEMMA ModelQuiet ==
    ASSUME IInv, ModelInv, \A j \in Jobs : SameJob(j, active'), UNCHANGED ledger
    PROVE  ModelInv'
<1>1. /\ ActiveJobs' = ActiveJobs
      /\ \A j \in ActiveJobs : active'[j].target = active[j].target
      /\ \A j \in ActiveJobs : active'[j].charged = active[j].charged
  BY DEF ActiveJobs, SameJob
<1>2. \A t : (Registered(t)' <=> Registered(t)) /\ Estimate(t)' = Estimate(t)
  BY DEF Registered, Estimate
<1>3. \A m : Users(m)' = Users(m)
  BY <1>1, <1>2 DEF Users, JobsOn
<1>4. \A m \in Models : Kept(m)'
  BY <1>3, KeptIsModelKept DEF Kept, ModelInv
<1>5. ModelKeptWhileInFlight'
  BY <1>4 DEF ModelKeptWhileInFlight, Kept, Users
<1>6. ASSUME NEW j \in ActiveJobs
      PROVE  Refundable(j)'
  <2>1. Refundable(j)
    BY DEF ModelInv
  <2> QED
    BY <1>1, <1>2, <2>1 DEF Refundable, Spared
<1> QED
  BY <1>1, <1>5, <1>6 DEF ModelInv

\* An admitted job is charged the estimate of its target.
LEMMA AdmissionCharge ==
    ASSUME NEW j \in Jobs, NEW t \in Targets, NEW s, Admission(j, t, s)
    PROVE  active'[j].charged = Estimate(t)
<1>1. active' = [Expired(s.time) EXCEPT ![j] =
        [target |-> t, outputStarted |-> FALSE, cancelled |-> FALSE,
         overageEnds |-> IF Overshoot(s, t) > 0 THEN s.time + TransientGrace ELSE None,
         charged |-> Estimate(t)]]
  BY DEF Admission, Admit
<1>2. j \in DOMAIN Expired(s.time)
  BY DEF Expired
<1> QED
  BY <1>1, <1>2

\* A job that starts is counted in its model and in no other.
LEMMA ModelAdmission ==
    ASSUME IInv, ModelInv, NEW j \in Jobs, NEW t \in Targets, NEW s, Admission(j, t, s)
    PROVE  ModelInv'
<1>1. /\ active[j] = None /\ active'[j] # None /\ active'[j].target = t
      /\ \A k \in Jobs \ {j} : SameJob(k, active')
      /\ Servable(t)
  <2>1. TypeOK /\ s.time \in Nat /\ Admit(j, t, s)
    BY DEF IInv, Admission, SnapshotRecords
  <2> QED
    BY <2>1, AdmitType DEF Admission, Fits
<1>2. active'[j].charged = Estimate(t)
  BY AdmissionCharge
<1>3. /\ ActiveJobs' = ActiveJobs \cup {j} /\ j \notin ActiveJobs
      /\ \A k \in ActiveJobs : active'[k].target = active[k].target
                               /\ active'[k].charged = active[k].charged
  BY <1>1 DEF ActiveJobs, SameJob
<1> DEFINE n == Target[t].model
<1>4. ledger \in [Models -> LedgerRecords]
  BY DEF IInv, TypeOK
<1>5. /\ \A m \in Models : ledger'[m].state = "Unregistered" <=> ledger[m].state = "Unregistered"
      /\ \A m \in Models : ledger'[m].envelope = ledger[m].envelope
      /\ \A m \in Models : ledger'[m].disturbed = ledger[m].disturbed
      /\ \A m \in Models : ~(Registered(t) /\ m = n) => ledger'[m] = ledger[m]
      /\ Registered(t) => ledger'[n].state = "InFlight" /\ ledger'[n].jobs = ledger[n].jobs + 1
  <2>1. CASE Registered(t)
    <3>1. /\ n \in Models /\ ledger[n].state \in {"Loaded", "InFlight"}
          /\ ledger' = [ledger EXCEPT ![n] = ModelReserved(n)]
      BY <2>1, AdmissionModel
    <3>2. /\ ModelReserved(n).state = "InFlight" /\ ModelReserved(n).jobs = ledger[n].jobs + 1
          /\ ModelReserved(n).envelope = ledger[n].envelope
          /\ ModelReserved(n).disturbed = ledger[n].disturbed
      BY DEF ModelReserved
    <3> HIDE DEF n
    <3> QED
      BY <1>4, <2>1, <3>1, <3>2
  <2>2. CASE ~Registered(t)
    BY <2>2, AdmissionModel
  <2> QED
    BY <2>1, <2>2
<1>6. \A u \in Targets : (Registered(u)' <=> Registered(u)) /\ Estimate(u)' = Estimate(u)
  <2> SUFFICES ASSUME NEW u \in Targets
               PROVE  (Registered(u)' <=> Registered(u)) /\ Estimate(u)' = Estimate(u)
    OBVIOUS
  <2>1. Registered(u)' <=> Registered(u)
    BY <1>5, SameRegistrations
  <2>2. Registered(u) => Target[u].model \in Models
    BY TargetAssumption DEF Registered
  <2> QED
    BY <1>5, <2>1, <2>2, SameEstimate
<1>7. \A k \in ActiveJobs : active[k].target \in Targets
  BY ActiveTarget
<1>8. \A m \in Models : Users(m)' = IF Registered(t) /\ m = n THEN Users(m) \cup {j} ELSE Users(m)
  BY <1>1, <1>3, <1>6, <1>7 DEF Users, JobsOn
<1>9. \A m : j \notin Users(m)
  BY <1>3 DEF Users, JobsOn
<1>10. ASSUME NEW m \in Models
       PROVE  Kept(m)'
  <2>0. Kept(m)
    BY KeptIsModelKept DEF ModelInv
  <2>1. CASE Registered(t) /\ m = n
    <3>1. /\ ledger'[m].state = "InFlight" /\ ledger'[m].jobs = ledger[m].jobs + 1
          /\ ledger'[m].disturbed = ledger[m].disturbed
      BY <1>5, <2>1
    <3>2. /\ Cardinality(Users(m) \cup {j}) = Cardinality(Users(m)) + 1
          /\ Cardinality(Users(m)) \in Nat /\ ledger[m].jobs \in Nat
      BY <1>4, <1>9, UsersFinite, FS_AddElement DEF LedgerRecords
    <3>3. Users(m)' = Users(m) \cup {j}
      BY <1>8, <2>1
    <3> QED
      BY <2>0, <3>1, <3>2, <3>3 DEF Kept
  <2>2. CASE ~(Registered(t) /\ m = n)
    <3>1. ledger'[m] = ledger[m]
      BY <1>5, <2>2
    <3>2. Users(m)' = Users(m)
      BY <1>8, <2>2
    <3> QED
      BY <2>0, <3>1, <3>2 DEF Kept
  <2> QED
    BY <2>1, <2>2
<1>11. ASSUME NEW k \in ActiveJobs'
       PROVE  Refundable(k)'
  <2>1. CASE k = j
    <3>1. Estimate(t) \in Amounts
      BY EstimateType DEF IInv
    <3>2. Estimate(t)' = Estimate(t) /\ Estimate(t).resident >= Estimate(t).resident
      BY <1>6, <3>1 DEF Amounts
    <3> QED
      BY <1>1, <1>2, <2>1, <3>2 DEF Refundable
  <2>2. CASE k # j
    <3>1. k \in ActiveJobs /\ active[k].target \in Targets /\ Refundable(k)
      BY <1>3, <1>7, <2>2 DEF ModelInv
    <3>2. \A what : Spared(active[k].target, what)' <=> Spared(active[k].target, what)
      BY <1>3, <1>5, <3>1 DEF Spared
    <3> QED
      BY <1>3, <1>6, <3>1, <3>2 DEF Refundable
  <2> QED
    BY <2>1, <2>2
<1>12. ModelKeptWhileInFlight'
  BY <1>10 DEF ModelKeptWhileInFlight, Kept, Users
<1> QED
  BY <1>11, <1>12 DEF ModelInv

\* A job that ends is taken from its model's count and from no other.
LEMMA ModelRelease ==
    ASSUME IInv, ModelInv, NEW j \in Jobs, active[j] # None, Release(j)
    PROVE  ModelInv'
<1> DEFINE t == active[j].target
           n == Target[t].model
<1>1. active'[j] = None /\ \A k \in Jobs \ {j} : active'[k] = active[k]
  BY ReleaseType DEF IInv
<1>2. /\ ActiveJobs' = ActiveJobs \ {j} /\ j \in ActiveJobs
      /\ \A k \in ActiveJobs' : k \in ActiveJobs /\ active'[k] = active[k]
  BY <1>1 DEF ActiveJobs
<1>3. t \in Targets /\ \A k \in ActiveJobs : active[k].target \in Targets
  BY <1>2, ActiveTarget
<1>4. ledger \in [Models -> LedgerRecords]
  BY DEF IInv, TypeOK
<1>5. /\ \A m \in Models : ledger'[m].state = "Unregistered" <=> ledger[m].state = "Unregistered"
      /\ \A m \in Models : ledger'[m].envelope = ledger[m].envelope
      /\ \A m \in Models : ledger'[m].disturbed = ledger[m].disturbed
      /\ \A m \in Models : ~(Registered(t) /\ m = n) => ledger'[m] = ledger[m]
      /\ Registered(t) => n \in Models /\ ledger'[n] = ModelReleased(n)
  <2>1. CASE Registered(t)
    <3>1. n \in Models /\ ledger' = [ledger EXCEPT ![n] = ModelReleased(n)]
      BY <2>1, ReleaseModel
    <3>2. /\ ModelReleased(n).state = "Unregistered" <=> ledger[n].state = "Unregistered"
          /\ ModelReleased(n).envelope = ledger[n].envelope
          /\ ModelReleased(n).disturbed = ledger[n].disturbed
      BY DEF ModelReleased
    <3> HIDE DEF n
    <3> QED
      BY <1>4, <2>1, <3>1, <3>2
  <2>2. CASE ~Registered(t)
    BY <2>2, ReleaseModel
  <2> QED
    BY <2>1, <2>2
<1>6. \A u \in Targets : (Registered(u)' <=> Registered(u)) /\ Estimate(u)' = Estimate(u)
  <2> SUFFICES ASSUME NEW u \in Targets
               PROVE  (Registered(u)' <=> Registered(u)) /\ Estimate(u)' = Estimate(u)
    OBVIOUS
  <2>1. Registered(u)' <=> Registered(u)
    BY <1>5, SameRegistrations
  <2>2. Registered(u) => Target[u].model \in Models
    BY TargetAssumption DEF Registered
  <2> QED
    BY <1>5, <2>1, <2>2, SameEstimate
<1>7. \A m \in Models : Users(m)' = Users(m) \ {j}
  BY <1>2, <1>3, <1>6 DEF Users, JobsOn
<1>8. \A m \in Models : j \in Users(m) <=> Registered(t) /\ m = n
  BY <1>2 DEF Users, JobsOn
<1>9. ASSUME NEW m \in Models
       PROVE  Kept(m)'
  <2>0. Kept(m) /\ IsFiniteSet(Users(m)) /\ Cardinality(Users(m)) \in Nat
    BY KeptIsModelKept, UsersFinite DEF ModelInv
  <2>1. CASE Registered(t) /\ m = n
    <3>1. j \in Users(m) /\ Users(m)' = Users(m) \ {j}
      BY <1>7, <1>8, <2>1
    <3>2. /\ Cardinality(Users(m) \ {j}) = Cardinality(Users(m)) - 1
          /\ Cardinality(Users(m) \ {j}) \in Nat
          /\ Users(m) \ {j} # {} => Cardinality(Users(m) \ {j}) # 0
      BY <2>0, <3>1, FS_RemoveElement, FS_Subset, FS_CardinalityType, FS_EmptySet
    <3>3. ledger[m].jobs \in Nat /\ ledger'[m].disturbed = ledger[m].disturbed
      BY <1>4, <1>5 DEF LedgerRecords
    <3>4. /\ ledger'[m].jobs = Monus(ledger[m].jobs, 1)
          /\ ledger[m].jobs > 1 => ledger'[m].state = ledger[m].state
      BY <1>5, <2>1, <3>3 DEF ModelReleased
    <3>5. /\ ledger'[m].jobs <= Cardinality(Users(m) \ {j})
          /\ ledger'[m].jobs > 0 => ledger[m].jobs > 1
          /\ ledger[m].jobs = Cardinality(Users(m)) => ledger'[m].jobs = Cardinality(Users(m) \ {j})
      BY <2>0, <3>2, <3>3, <3>4 DEF Kept, Monus
    <3>6. "cleared" \notin ledger[m].disturbed /\ ledger'[m].jobs > 0
             => ledger'[m].state \in {"InFlight", "Quarantined"}
      BY <2>0, <3>3, <3>4, <3>5 DEF Kept
    <3>7. ledger[m].disturbed = {} =>
             /\ ledger'[m].jobs = Cardinality(Users(m) \ {j})
             /\ Users(m) \ {j} # {} => ledger'[m].state \in {"InFlight", "Quarantined"}
      BY <2>0, <3>1, <3>2, <3>3, <3>4, <3>5 DEF Kept
    <3> QED
      BY <3>1, <3>3, <3>5, <3>6, <3>7 DEF Kept
  <2>2. CASE ~(Registered(t) /\ m = n)
    <3>1. ledger'[m] = ledger[m]
      BY <1>5, <2>2
    <3>2. Users(m)' = Users(m)
      BY <1>7, <1>8, <2>2
    <3> QED
      BY <2>0, <3>1, <3>2 DEF Kept
  <2> QED
    BY <2>1, <2>2
<1>10. ASSUME NEW k \in ActiveJobs'
       PROVE  Refundable(k)'
  <2>1. k \in ActiveJobs /\ active'[k] = active[k] /\ active[k].target \in Targets /\ Refundable(k)
    BY <1>2, <1>3 DEF ModelInv
  <2>2. \A what : Spared(active[k].target, what)' <=> Spared(active[k].target, what)
    BY <1>5, <2>1 DEF Spared
  <2> QED
    BY <1>6, <2>1, <2>2 DEF Refundable
<1>11. ModelKeptWhileInFlight'
  BY <1>9 DEF ModelKeptWhileInFlight, Kept, Users
<1> QED
  BY <1>10, <1>11 DEF ModelInv

\* A write of one model's record that leaves the jobs alone: it registers the model
\* or keeps its count, and if nothing happened to the model under a running job it
\* moves a model in use, or its envelope, only to a state that keeps it.
Rewrites(m, r) ==
    /\ r.state # "Unregistered"
    /\ ledger[m].disturbed \subseteq r.disturbed
    /\ ledger[m].state = "Unregistered" => r.jobs = 0 /\ (JobsOn(m) # {} => "registered" \in r.disturbed)
    /\ ledger[m].state # "Unregistered" => r.jobs = ledger[m].jobs
    /\ "cleared" \notin r.disturbed => (r.jobs > 0 => r.state \in {"InFlight", "Quarantined"})
    /\ r.disturbed = {} /\ Users(m) # {} => /\ r.state \in {"InFlight", "Quarantined"}
                                            /\ r.envelope = ledger[m].envelope

\* Such a write keeps the models in use and what is given back for their jobs.
LEMMA ModelWrite ==
    ASSUME IInv, ModelInv, NEW m \in Models, NEW r \in LedgerRecords,
           ledger' = [ledger EXCEPT ![m] = r], UNCHANGED active, Rewrites(m, r)
    PROVE  ModelInv'
<1>1. ledger \in [Models -> LedgerRecords] /\ ActiveJobs' = ActiveJobs
  BY DEF IInv, TypeOK, ActiveJobs
<1>2. ledger'[m] = r /\ \A k \in Models \ {m} : ledger'[k] = ledger[k]
  BY <1>1
<1>3. \A j \in ActiveJobs : /\ active[j].target \in Targets
                            /\ Target[active[j].target].model \in Models \cup {None}
  BY ActiveTarget
<1>4. ASSUME NEW t \in Targets, Target[t].model # m \/ ledger[m].state # "Unregistered"
      PROVE  Registered(t)' <=> Registered(t)
  <2>1. Target[t].model \in Models =>
           (ledger'[Target[t].model].state = "Unregistered"
              <=> ledger[Target[t].model].state = "Unregistered")
    BY <1>2, <1>4 DEF Rewrites
  <2> QED
    BY <2>1, SameRegistrations
<1>5. \A k \in Models : k # m \/ ledger[m].state # "Unregistered" => Users(k)' = Users(k)
  BY <1>1, <1>3, <1>4 DEF Users, JobsOn
<1>6. ASSUME NEW k \in Models
      PROVE  Kept(k)'
  <2>1. Kept(k) /\ Cardinality(Users(k)) \in Nat /\ Cardinality(Users(k)') \in Nat
    <3>1. IsFiniteSet(Users(k)')
      BY JobAssumption, FS_Subset DEF Users, JobsOn, ActiveJobs
    <3> QED
      BY <3>1, KeptIsModelKept, UsersFinite, FS_CardinalityType DEF ModelInv
  <2>2. CASE k = m /\ ledger[m].state = "Unregistered"
    <3>1. r.jobs = 0 /\ (r.disturbed = {} => JobsOn(m) = {})
      BY <2>2 DEF Rewrites
    <3>2. JobsOn(m) = {} => Users(m)' = {} /\ Cardinality(Users(m)') = 0
      <4>1. JobsOn(m)' = JobsOn(m)
        BY <1>1 DEF JobsOn
      <4> QED
        BY <4>1, FS_EmptySet DEF Users
    <3> QED
      BY <1>2, <2>1, <2>2, <3>1, <3>2 DEF Kept
  <2>3. CASE k = m /\ ledger[m].state # "Unregistered"
    <3>1. r.disturbed = {} => ledger[m].disturbed = {}
      BY DEF Rewrites
    <3>2. r.jobs = ledger[m].jobs /\ Users(m)' = Users(m)
      BY <1>5, <2>3 DEF Rewrites
    <3> QED
      BY <1>2, <2>1, <2>3, <3>1, <3>2 DEF Kept, Rewrites
  <2>4. CASE k # m
    <3>1. ledger'[k] = ledger[k] /\ Users(k)' = Users(k)
      BY <1>2, <1>5, <2>4
    <3> QED
      BY <2>1, <3>1 DEF Kept
  <2> QED
    BY <2>2, <2>3, <2>4
<1>7. ASSUME NEW j \in ActiveJobs
      PROVE  Refundable(j)'
  <2> DEFINE t == active[j].target
             c == active[j].charged
             n == Target[t].model
  <2>0. /\ t \in Targets /\ n \in Models \cup {None} /\ Refundable(j)
        /\ c.resident \in Nat /\ Target[t].resident \in Nat
    <3>1. c \in Amounts
      BY DEF IInv, TypeOK, ActiveJobs, ActiveRecords
    <3> QED
      BY <1>3, <3>1, TargetAssumption DEF ModelInv, Amounts
  <2>1. \A what : Spared(t, what)' => Spared(t, what)
    BY <1>2 DEF Spared, Rewrites
  <2>2. CASE n # m
    <3>1. Registered(t)' <=> Registered(t)
      BY <1>4, <2>0, <2>2
    <3>2. Registered(t) => ledger'[n].envelope = ledger[n].envelope
      BY <1>2, <2>0, <2>2 DEF Registered
    <3>3. Estimate(t)' = Estimate(t)
      BY <2>0, <3>1, <3>2, SameEstimate
    <3> QED
      BY <2>0, <2>1, <3>3 DEF Refundable
  <2>3. CASE n = m /\ ledger[m].state = "Unregistered"
    <3>1. "registered" \in r.disturbed
      <4>1. j \in JobsOn(m)
        BY <2>3 DEF JobsOn
      <4> QED
        BY <2>3, <4>1 DEF Rewrites
    <3>2. ~Spared(t, "registered")'
      BY <1>2, <2>3, <3>1 DEF Spared
    <3>3. /\ Estimate(t).ram = Target[t].ram /\ Estimate(t)'.ram = Target[t].ram
          /\ Estimate(t).resident = Target[t].resident
          /\ Estimate(t)'.resident \in {0, Target[t].resident}
      BY <2>3 DEF Estimate, Registered
    <3>4. c.ram = Estimate(t)'.ram /\ c.resident >= Estimate(t)'.resident
      BY <2>0, <3>3 DEF Refundable
    <3> QED
      BY <3>2, <3>4 DEF Refundable
  <2>4. CASE n = m /\ ledger[m].state # "Unregistered"
    <3>1. Registered(t)' <=> Registered(t)
      BY <1>4, <2>0, <2>4
    <3>2. Estimate(t)'.ram = Estimate(t).ram /\ Estimate(t)'.resident = Estimate(t).resident
      BY <3>1 DEF Estimate
    <3>3. ASSUME Spared(t, "registered")', Spared(t, "cleared")'
          PROVE  Estimate(t)' = Estimate(t)
      <4>1. r.disturbed = {}
        BY <1>2, <2>4, <3>3 DEF Spared, LedgerRecords
      <4>2. Registered(t) => j \in Users(m)
        BY <2>4 DEF Users, JobsOn
      <4>3. Registered(t) => ledger'[n].envelope = ledger[n].envelope
        BY <1>2, <2>4, <4>1, <4>2 DEF Rewrites
      <4> QED
        BY <2>0, <3>1, <4>3, SameEstimate
    <3> QED
      BY <2>0, <2>1, <3>2, <3>3 DEF Refundable
  <2> QED
    BY <2>2, <2>3, <2>4
<1>8. ModelKeptWhileInFlight'
  BY <1>6 DEF ModelKeptWhileInFlight, Kept, Users
<1> QED
  BY <1>1, <1>7, <1>8 DEF ModelInv

\* The ledger's own operations are such writes.
LEMMA LedgerRewrites ==
    ASSUME IInv, ModelInv, LedgerStep
    PROVE  \E m \in Models, r \in LedgerRecords : ChangeLedger(m, r) /\ Rewrites(m, r)
<1>1. PICK m \in Models, r \in LedgerRecords :
         /\ ChangeLedger(m, r)
         /\ \/ /\ ledger[m].state = "Unregistered"
               /\ r.state = "Cold" /\ r.jobs = 0
               /\ r.disturbed = Disturbed(m, "registered")
            \/ ledger[m].state = "Cold" /\ r.state = "Warming" /\ Keeps(m, r)
            \/ ledger[m].state = "Warming" /\ r.state = "Loaded" /\ Keeps(m, r)
            \/ /\ ledger[m].state \in {"Loaded", "Evicting"} /\ ledger[m].jobs = 0
               /\ r.state \in {"Evicting", "Cold"} /\ Keeps(m, r)
            \/ /\ ledger[m].state # "Unregistered" /\ r.state = "Quarantined"
               /\ Keeps(m, r) /\ r.envelope = ledger[m].envelope
            \/ /\ ledger[m].state = "Quarantined" /\ r.state = "Cold"
               /\ r.jobs = ledger[m].jobs /\ r.disturbed = Disturbed(m, "cleared")
  BY LedgerKinds
<1>2. Kept(m) /\ ledger[m].jobs \in Nat /\ Cardinality(Users(m)) \in Nat
  BY KeptIsModelKept, UsersFinite DEF ModelInv, IInv, TypeOK, LedgerRecords
<1>3. /\ Cardinality(Users(m)) = 0 => Users(m) = {}
      /\ Users(m) = {} => Cardinality(Users(m)) = 0
      /\ JobsOn(m) = {} => Users(m) = {}
  BY UsersFinite, FS_EmptySet DEF Users
\* The counted jobs run, so a model cleared with a count is cleared under a job.
<1>4. ledger[m].jobs > 0 => JobsOn(m) # {}
  BY <1>2, <1>3 DEF Kept
<1>5. \A what : /\ ledger[m].disturbed \subseteq Disturbed(m, what)
                /\ JobsOn(m) # {} => what \in Disturbed(m, what)
  BY DEF Disturbed
<1>6. CASE ledger[m].state = "Unregistered"
  <2>1. r.state = "Cold" /\ r.jobs = 0 /\ r.disturbed = Disturbed(m, "registered")
    BY <1>1, <1>6
  <2>2. r.disturbed = {} => Users(m) = {}
    BY <1>3, <1>5, <2>1
  <2> QED
    BY <1>1, <1>5, <1>6, <2>1, <2>2 DEF Rewrites
<1>7. CASE ledger[m].state = "Quarantined" /\ r.state = "Cold"
  <2>1. r.jobs = ledger[m].jobs /\ r.disturbed = Disturbed(m, "cleared")
    BY <1>1, <1>7
  <2>2. /\ r.disturbed = {} => Users(m) = {}
        /\ "cleared" \notin r.disturbed => ~(r.jobs > 0)
    BY <1>3, <1>4, <1>5, <2>1
  <2> QED
    BY <1>1, <1>5, <1>7, <2>1, <2>2 DEF Rewrites
<1>8. CASE r.state = "Quarantined" /\ ledger[m].state # "Unregistered"
  BY <1>1, <1>8 DEF Rewrites, Keeps
<1>9. CASE r.state \in {"Warming", "Loaded", "Evicting", "Cold"}
           /\ ledger[m].state \in {"Cold", "Warming", "Loaded", "Evicting"}
  <2>1. Keeps(m, r)
    BY <1>1, <1>9
  <2>2. /\ ledger[m].disturbed = {} => Users(m) = {}
        /\ "cleared" \notin ledger[m].disturbed => ~(ledger[m].jobs > 0)
    BY <1>1, <1>2, <1>3, <1>9 DEF Kept
  <2> QED
    BY <1>1, <1>9, <2>1, <2>2 DEF Rewrites, Keeps
<1> QED
  BY <1>1, <1>6, <1>7, <1>8, <1>9

\* Every step keeps the models in use.
LEMMA ModelStep ==
    ASSUME IInv, ModelInv, [Next]_brokerVars
    PROVE  ModelInv'
<1>1. CASE JobsStay /\ UNCHANGED ledger
  BY <1>1, ModelQuiet DEF JobsStay
<1>2. ASSUME NEW j \in Jobs, NEW t \in Targets, NEW s, Admission(j, t, s)
      PROVE  ModelInv'
  BY <1>2, ModelAdmission
<1>3. ASSUME NEW j \in Jobs, active[j] # None, Release(j)
      PROVE  ModelInv'
  BY <1>3, ModelRelease
<1>4. ASSUME NEW j \in Jobs, NEW s \in Snapshots, ReportOom(j, s)
      PROVE  ModelInv'
  <2>0. UNCHANGED active
    BY <1>4 DEF ReportOom, jobVars
  <2>1. CASE UNCHANGED ledger
    <3>1. \A k \in Jobs : SameJob(k, active')
      BY <2>0 DEF SameJob
    <3> QED
      BY <2>1, <3>1, ModelQuiet
  <2>2. ASSUME NEW m \in Models, NEW until \in Nat, ledger[m].state # "Unregistered",
               ledger' = [ledger EXCEPT ![m] = [ledger[m] EXCEPT !.state = "Quarantined", !.until = until]]
        PROVE  ModelInv'
    <3> DEFINE r == [ledger[m] EXCEPT !.state = "Quarantined", !.until = until]
    <3>1. /\ r \in LedgerRecords /\ r.state = "Quarantined" /\ r.disturbed = ledger[m].disturbed
          /\ r.jobs = ledger[m].jobs /\ r.envelope = ledger[m].envelope
      BY DEF IInv, TypeOK, LedgerRecords, LedgerStates
    <3>2. ledger' = [ledger EXCEPT ![m] = r]
      BY <2>2
    <3> HIDE DEF r
    <3>3. Rewrites(m, r)
      BY <2>2, <3>1 DEF Rewrites
    <3> QED
      BY <2>0, <3>1, <3>2, <3>3, ModelWrite
  <2> QED
    BY <1>4, <2>1, <2>2, OomModel
<1>5. CASE LedgerStep
  <2>1. PICK m \in Models, r \in LedgerRecords : ChangeLedger(m, r) /\ Rewrites(m, r)
    BY <1>5, LedgerRewrites
  <2>2. ledger' = [ledger EXCEPT ![m] = r] /\ UNCHANGED active
    BY <2>1 DEF ChangeLedger, jobVars
  <2> QED
    BY <2>1, <2>2, ModelWrite
<1> QED
  BY <1>1, <1>2, <1>3, <1>4, <1>5, StepKinds

\* The invariant of the models in use: no model counts more jobs than run on it, and
\* what release would give back for a job is, of RAM, what admit_locked reserved for
\* it; of resident VRAM, at most that; and all of it, unless the model was registered
\* or cleared under a running job.
THEOREM ModelInvariance == Spec => []ModelInv
<1>1. BrokerInit => ModelInv
  <2> SUFFICES ASSUME BrokerInit
               PROVE  ModelInv
    OBVIOUS
  <2>1. ActiveJobs = {}
    BY DEF BrokerInit, ActiveJobs
  <2>2. \A m \in Models : Users(m) = {} /\ ledger[m].jobs = 0
    BY <2>1 DEF BrokerInit, Users, JobsOn
  <2>3. \A m \in Models : Kept(m)
    BY <2>2, FS_EmptySet DEF Kept
  <2> QED
    BY <2>1, <2>3, KeptIsModelKept DEF ModelInv
<1>2. IInv /\ ModelInv /\ [Next]_brokerVars => ModelInv'
  BY ModelStep
<1> QED
  BY <1>1, <1>2, Invariance, PTL DEF Spec

\* While a job runs on a model, admit_locked, release, transition_idle_model and
\* the rest of the ledger's operations keep that model in flight or quarantined
\* and its count of jobs right, until register_model_residency or
\* clear_model_quarantine is called under a running job; after the former the jobs
\* counted still keep the model, and after either the count is never too high.
THEOREM ModelIsKept == Spec => []ModelKeptWhileInFlight
<1>1. ModelInv => ModelKeptWhileInFlight
  BY DEF ModelInv
<1> QED
  BY <1>1, ModelInvariance, PTL

-----------------------------------------------------------------------------
(***************************************************************************)
(* The reservations.                                                       *)
(***************************************************************************)
\* Function g is f with one more element in its domain.
Adds(f, g, a) ==
    /\ IsFiniteSet(DOMAIN f)
    /\ a \notin DOMAIN f
    /\ DOMAIN g = DOMAIN f \cup {a}
    /\ \A x \in DOMAIN f : f[x] \in Nat /\ g[x] = f[x]
    /\ g[a] \in Nat

\* A sum grows by the value at the new element.
LEMMA SumGrows ==
    ASSUME NEW f, NEW g, NEW a, Adds(f, g, a)
    PROVE  SumFunction(g) = SumFunction(f) + g[a] /\ SumFunction(f) \in Nat
<1> DEFINE A == DOMAIN f
<1> USE DEF Adds
<1>1. Summable(f, A) /\ Summable(g, A) /\ Summable(g, A \cup {a})
  BY FS_AddElement DEF Summable
<1>2. SumFunctionOnSet(g, A \cup {a}) = g[a] + SumFunctionOnSet(g, (A \cup {a}) \ {a})
  BY <1>1, SumRemove
<1>3. (A \cup {a}) \ {a} = A
  OBVIOUS
<1>4. SumFunctionOnSet(g, A) = SumFunctionOnSet(f, A)
  BY <1>1, SumCongruence
<1>5. SumFunctionOnSet(f, A) \in Nat
  BY <1>1, SumType
<1>6. /\ SumFunction(g) = SumFunctionOnSet(g, A \cup {a})
      /\ SumFunction(f) = SumFunctionOnSet(f, A)
  BY Zenon DEF SumFunction
<1>7. SumFunction(g) = g[a] + SumFunction(f) /\ SumFunction(f) \in Nat
  BY <1>2, <1>3, <1>4, <1>5, <1>6, Zenon
<1> QED
  BY <1>7

Ram == [j \in ActiveJobs |-> active[j].charged.ram]
Resident == [j \in ActiveJobs |-> active[j].charged.resident]
Transient == [j \in ActiveJobs |-> active[j].charged.transient]

\* The active jobs can be summed over,
LEMMA ActiveFinite == IsFiniteSet(ActiveJobs)
BY JobAssumption, FS_Subset DEF ActiveJobs

\* and their charges are natural numbers.
LEMMA ChargeTypes ==
    ASSUME IInv
    PROVE  \A j \in ActiveJobs : Ram[j] \in Nat /\ Resident[j] \in Nat /\ Transient[j] \in Nat
<1>1. \A j \in ActiveJobs : active[j].charged \in Amounts
  BY DEF IInv, TypeOK, ActiveJobs, ActiveRecords
<1> QED
  BY <1>1 DEF Amounts, Ram, Resident, Transient

Matched ==
    /\ reserved.ram = SumFunction(Ram)
    /\ reserved.resident >= SumFunction(Resident)
    /\ Never("registered") =>
          /\ reserved.resident = SumFunction(Resident)
          /\ Never("cleared") => reserved.transient = SumFunction(Transient)

\* The property, by the three sums.
LEMMA MatchedIsMatch == ReservationsCoverActiveJobs <=> Matched
BY DEF ReservationsCoverActiveJobs, Matched, Ram, Resident, Transient

\* Every step moves the reservations and the charges together.
LEMMA MatchStep ==
    ASSUME IInv, ModelInv, Matched, IInv', [Next]_brokerVars
    PROVE  Matched'
<1>0. /\ IsFiniteSet(ActiveJobs) /\ IsFiniteSet(ActiveJobs')
      /\ DOMAIN Ram = ActiveJobs /\ DOMAIN Resident = ActiveJobs /\ DOMAIN Transient = ActiveJobs
      /\ DOMAIN Ram' = ActiveJobs' /\ DOMAIN Resident' = ActiveJobs' /\ DOMAIN Transient' = ActiveJobs'
      /\ \A k \in ActiveJobs : Ram[k] \in Nat /\ Resident[k] \in Nat /\ Transient[k] \in Nat
      /\ \A k \in ActiveJobs' : Ram'[k] \in Nat /\ Resident'[k] \in Nat /\ Transient'[k] \in Nat
      /\ reserved.ram \in Nat /\ reserved.resident \in Nat /\ reserved.transient \in Nat
  <2>1. IsFiniteSet(ActiveJobs')
    BY JobAssumption, FS_Subset DEF ActiveJobs
  <2>2. \A k \in ActiveJobs' : active'[k].charged \in Amounts
    BY DEF IInv, TypeOK, ActiveJobs, ActiveRecords
  <2>3. \A k \in ActiveJobs' : Ram'[k] \in Nat /\ Resident'[k] \in Nat /\ Transient'[k] \in Nat
    BY <2>2 DEF Amounts, Ram, Resident, Transient
  <2>4. reserved \in Amounts
    BY DEF IInv, TypeOK
  <2> QED
    BY <2>1, <2>3, <2>4, ActiveFinite, ChargeTypes DEF Ram, Resident, Transient, Amounts
\* The history only grows.
<1>5. \A what : Never(what)' => Never(what)
  BY HistoryKept DEF Never
<1>1. CASE UNCHANGED reserved /\ \A j \in Jobs : SameJob(j, active')
  <2>1. ActiveJobs' = ActiveJobs /\ \A j \in ActiveJobs : active'[j].charged = active[j].charged
    BY <1>1 DEF ActiveJobs, SameJob
  <2>2. Ram' = Ram /\ Resident' = Resident /\ Transient' = Transient
    BY <2>1 DEF Ram, Resident, Transient
  <2> QED
    BY <1>1, <1>5, <2>2 DEF Matched
<1>2. ASSUME NEW j \in Jobs, NEW t \in Targets, NEW s, Admission(j, t, s)
      PROVE  Matched'
  <2>1. /\ active[j] = None /\ active'[j] # None
        /\ \A k \in Jobs \ {j} : SameJob(k, active')
    <3>1. TypeOK /\ s.time \in Nat /\ Admit(j, t, s)
      BY <1>2 DEF IInv, Admission, SnapshotRecords
    <3> QED
      BY <1>2, <3>1, AdmitType DEF Admission
  <2>2. active'[j].charged = Estimate(t)
    BY <1>2, AdmissionCharge
  <2>3. /\ ActiveJobs' = ActiveJobs \cup {j} /\ j \notin ActiveJobs
        /\ \A k \in ActiveJobs : active'[k].charged = active[k].charged
    BY <2>1 DEF ActiveJobs, SameJob
  <2>4. /\ \A k \in ActiveJobs : Ram'[k] = Ram[k]
        /\ \A k \in ActiveJobs : Resident'[k] = Resident[k]
        /\ \A k \in ActiveJobs : Transient'[k] = Transient[k]
        /\ Ram'[j] = Estimate(t).ram /\ Resident'[j] = Estimate(t).resident
        /\ Transient'[j] = Estimate(t).transient
    BY <2>2, <2>3 DEF Ram, Resident, Transient
  <2>5. Ram'[j] \in Nat /\ Resident'[j] \in Nat /\ Transient'[j] \in Nat
    BY <1>0, <2>3
  <2>6. SumFunction(Ram') = SumFunction(Ram) + Estimate(t).ram
    <3>1. Adds(Ram, Ram', j)
      BY <1>0, <2>3, <2>4, <2>5 DEF Adds
    <3> QED
      BY <2>4, <3>1, SumGrows
  <2>7. SumFunction(Resident') = SumFunction(Resident) + Estimate(t).resident
    <3>1. Adds(Resident, Resident', j)
      BY <1>0, <2>3, <2>4, <2>5 DEF Adds
    <3> QED
      BY <2>4, <3>1, SumGrows
  <2>8. SumFunction(Transient') = SumFunction(Transient) + Estimate(t).transient
    <3>1. Adds(Transient, Transient', j)
      BY <1>0, <2>3, <2>4, <2>5 DEF Adds
    <3> QED
      BY <2>4, <3>1, SumGrows
  <2>9. reserved' = [ram |-> reserved.ram + Estimate(t).ram,
                     resident |-> reserved.resident + Estimate(t).resident,
                     transient |-> reserved.transient + Estimate(t).transient]
    BY <1>2 DEF Admission, Admit
  <2>10. Estimate(t).resident \in Nat /\ SumFunction(Resident) \in Nat
    <3>1. Adds(Resident, Resident', j)
      BY <1>0, <2>3, <2>4, <2>5 DEF Adds
    <3> QED
      BY <2>4, <2>5, <3>1, SumGrows
  <2>11. reserved'.resident >= SumFunction(Resident')
    BY <1>0, <2>7, <2>9, <2>10 DEF Matched
  <2> QED
    BY <1>5, <2>6, <2>7, <2>8, <2>9, <2>11 DEF Matched
<1>3. ASSUME NEW j \in Jobs, active[j] # None, Release(j)
      PROVE  Matched'
  <2>1. active'[j] = None /\ \A k \in Jobs \ {j} : active'[k] = active[k]
    BY <1>3, ReleaseType DEF IInv
  <2>2. /\ ActiveJobs = ActiveJobs' \cup {j} /\ j \notin ActiveJobs'
        /\ \A k \in ActiveJobs' : active'[k].charged = active[k].charged
    BY <1>3, <2>1 DEF ActiveJobs
  <2> DEFINE e == Refund(active[j].target)
  <2>3. /\ e \in Amounts
        /\ active[j].charged.ram = e.ram
        /\ active[j].charged.resident >= e.resident
        /\ Never("registered") => active[j].charged.resident = e.resident
        /\ Never("registered") /\ Never("cleared") => active[j].charged.transient = e.transient
    <3>1. Refundable(j) /\ j \in ActiveJobs
      BY <2>2 DEF ModelInv
    <3>2. \A what : Never(what) => Spared(active[j].target, what)
      BY DEF Never, Spared
    <3>3. e \in Amounts
      BY <3>1, ActiveTarget, EstimateType DEF Refund, IInv
    <3> QED
      BY <3>1, <3>2, <3>3 DEF Refundable, Refund
  <2>4. /\ \A k \in ActiveJobs' : Ram'[k] = Ram[k]
        /\ \A k \in ActiveJobs' : Resident'[k] = Resident[k]
        /\ \A k \in ActiveJobs' : Transient'[k] = Transient[k]
        /\ Ram[j] = active[j].charged.ram /\ Resident[j] = active[j].charged.resident
        /\ Transient[j] = active[j].charged.transient
    BY <2>2 DEF Ram, Resident, Transient
  <2>5. Ram[j] \in Nat /\ Resident[j] \in Nat /\ Transient[j] \in Nat
    BY <1>0, <2>2
  <2>6. SumFunction(Ram) = SumFunction(Ram') + Ram[j] /\ SumFunction(Ram') \in Nat
    <3>1. Adds(Ram', Ram, j)
      BY <1>0, <2>2, <2>4, <2>5 DEF Adds
    <3> QED
      BY <3>1, SumGrows
  <2>7. SumFunction(Resident) = SumFunction(Resident') + Resident[j] /\ SumFunction(Resident') \in Nat
    <3>1. Adds(Resident', Resident, j)
      BY <1>0, <2>2, <2>4, <2>5 DEF Adds
    <3> QED
      BY <3>1, SumGrows
  <2>8. SumFunction(Transient) = SumFunction(Transient') + Transient[j] /\ SumFunction(Transient') \in Nat
    <3>1. Adds(Transient', Transient, j)
      BY <1>0, <2>2, <2>4, <2>5 DEF Adds
    <3> QED
      BY <3>1, SumGrows
  <2>9. reserved' = [ram |-> Monus(reserved.ram, e.ram),
                     resident |-> Monus(reserved.resident, e.resident),
                     transient |-> Monus(reserved.transient, e.transient)]
    BY <1>3 DEF Release
  <2> HIDE DEF e
  <2>10. e.ram \in Nat /\ e.resident \in Nat /\ e.transient \in Nat
    BY <2>3 DEF Amounts
  <2>11. \A a, b \in Nat : Monus(a + b, b) = a
    BY DEF Monus
  <2>12. reserved'.ram = SumFunction(Ram')
    BY <2>3, <2>4, <2>5, <2>6, <2>9, <2>11 DEF Matched
  <2>13. reserved'.resident >= SumFunction(Resident')
    BY <1>0, <2>3, <2>4, <2>5, <2>7, <2>9, <2>10 DEF Matched, Monus
  <2>14. Never("registered") => reserved'.resident = SumFunction(Resident')
    BY <2>3, <2>4, <2>5, <2>7, <2>9, <2>11 DEF Matched
  <2>15. Never("registered") /\ Never("cleared") => reserved'.transient = SumFunction(Transient')
    BY <2>3, <2>4, <2>5, <2>8, <2>9, <2>11 DEF Matched
  <2> QED
    BY <1>5, <2>12, <2>13, <2>14, <2>15 DEF Matched
<1>4. ASSUME (\E j \in Jobs, s \in Snapshots : ReportOom(j, s)) \/ LedgerStep
      PROVE  Matched'
  <2>1. UNCHANGED jobVars
    BY <1>4 DEF ReportOom, LedgerStep, RegisterModel, BeginWarming, MarkLoaded, ClearQuarantine,
       TransitionIdle, QuarantineModel, ChangeLedger
  <2>2. UNCHANGED reserved /\ \A j \in Jobs : SameJob(j, active')
    BY <2>1 DEF jobVars, SameJob
  <2> QED
    BY <1>1, <2>2
<1> QED
  BY <1>1, <1>2, <1>3, <1>4, StepKinds DEF JobsStay

\* release asks the ledger again (effective_job_estimate) and yet never gives back what
\* belongs to another job: the RAM reserved is the sum of the charges of the active
\* jobs, the resident VRAM is at least that sum, and it is that sum, and so is the
\* transient VRAM, until a model is registered or cleared under a running job.
THEOREM ReservationsMatch == Spec => []ReservationsCoverActiveJobs
<1>1. BrokerInit => Matched
  <2> SUFFICES ASSUME BrokerInit
               PROVE  Matched
    OBVIOUS
  <2>1. ActiveJobs = {}
    BY DEF BrokerInit, ActiveJobs
  <2>2. DOMAIN Ram = {} /\ DOMAIN Resident = {} /\ DOMAIN Transient = {}
    BY <2>1 DEF Ram, Resident, Transient
  <2>3. SumFunction(Ram) = 0 /\ SumFunction(Resident) = 0 /\ SumFunction(Transient) = 0
    BY <2>2, SumEmpty DEF SumFunction
  <2> QED
    BY <2>3 DEF BrokerInit, Matched
<1>2. IInv /\ ModelInv /\ Matched /\ IInv' /\ [Next]_brokerVars => Matched'
  BY MatchStep
<1>3. Matched => ReservationsCoverActiveJobs
  BY MatchedIsMatch
<1> QED
  BY <1>1, <1>2, <1>3, Invariance, ModelInvariance, PTL DEF Spec

-----------------------------------------------------------------------------
(***************************************************************************)
(* The VRAM that is promised.                                              *)
(***************************************************************************)
\* The snapshot that a poll in progress decides by keeps the contract.
Accounted(s) == s.accountedResident + s.accountedTransient <= s.vramUsed + Skew
SnapAccounted == todo # {} => Accounted(snap)

\* What is promised stays within the bound.
Bounded == reserved.resident + LedgerResident + reserved.transient
              <= VramCeiling + TransientAllowance + Skew

Sizes == [m \in Models |-> ledger[m].envelope.resident]
Holders == {m \in Models : HoldsResidentMemory(m)}
Held(m) == IF HoldsResidentMemory(m) THEN ledger[m].envelope.resident ELSE 0

\* The envelopes of any models can be summed.
LEMMA HoldersSummable ==
    ASSUME IInv, NEW S \in SUBSET Models
    PROVE  Summable(Sizes, S)
<1>1. \A m \in Models : ledger[m].envelope.resident \in Nat
  BY DEF IInv, TypeOK, LedgerRecords, EnvelopeRecords
<1> QED
  BY <1>1, ModelAssumption, FS_Subset DEF Summable, Sizes

\* The ledger's resident memory is what one model holds and the rest.
LEMMA ResidentSplit ==
    ASSUME IInv, NEW m \in Models
    PROVE  /\ SumFunctionOnSet(Sizes, Holders \ {m}) \in Nat
           /\ Held(m) \in Nat
           /\ LedgerResident = SumFunctionOnSet(Sizes, Holders \ {m}) + Held(m)
<1>1. ledger[m].envelope.resident \in Nat
  BY DEF IInv, TypeOK, LedgerRecords, EnvelopeRecords
<1>2. LedgerResident = SumFunctionOnSet(Sizes, Holders)
  BY DEF LedgerResident, Sizes, Holders
<1>3. Summable(Sizes, Holders) /\ Summable(Sizes, Holders \ {m})
  BY HoldersSummable DEF Holders
<1>4. SumFunctionOnSet(Sizes, Holders \ {m}) \in Nat
  BY <1>3, SumType
<1>5. CASE HoldsResidentMemory(m)
  <2>1. m \in Holders
    BY <1>5 DEF Holders
  <2>2. SumFunctionOnSet(Sizes, Holders) = Sizes[m] + SumFunctionOnSet(Sizes, Holders \ {m})
    BY <1>3, <2>1, SumRemove
  <2>3. Sizes[m] = Held(m)
    BY <1>5 DEF Sizes, Held
  <2> QED
    BY <1>1, <1>2, <1>4, <1>5, <2>2, <2>3 DEF Held
<1>6. CASE ~HoldsResidentMemory(m)
  <2>1. Holders \ {m} = Holders
    BY <1>6 DEF Holders
  <2> QED
    BY <1>2, <1>4, <1>6, <2>1 DEF Held
<1> QED
  BY <1>5, <1>6, <1>4

\* A write of one model's record changes only that model's part.
LEMMA ResidentWrite ==
    ASSUME IInv, IInv', NEW m \in Models, NEW r, ledger' = [ledger EXCEPT ![m] = r]
    PROVE  /\ LedgerResident \in Nat /\ LedgerResident' \in Nat
           /\ Held(m) \in Nat /\ Held(m)' \in Nat
           /\ LedgerResident' = LedgerResident - Held(m) + Held(m)'
<1> DEFINE rest == SumFunctionOnSet(Sizes, Holders \ {m})
<1>1. ledger \in [Models -> LedgerRecords]
  BY DEF IInv, TypeOK
<1>2. Holders' \ {m} = Holders \ {m}
  BY <1>1 DEF Holders, HoldsResidentMemory
<1>3. \A n \in Holders \ {m} : Sizes'[n] = Sizes[n]
  BY <1>1 DEF Sizes, Holders
<1>4. Summable(Sizes, Holders \ {m})
  BY HoldersSummable DEF Holders
<1>5. SumFunctionOnSet(Sizes', Holders \ {m}) = rest
  BY <1>3, <1>4, SumCongruence
<1>6. rest \in Nat /\ Held(m) \in Nat /\ LedgerResident = rest + Held(m)
  BY ResidentSplit
<1>7. LedgerResident' = SumFunctionOnSet(Sizes', Holders' \ {m}) + Held(m)' /\ Held(m)' \in Nat
  <2>1. (SumFunctionOnSet(Sizes, Holders \ {m}) \in Nat
           /\ Held(m) \in Nat
           /\ LedgerResident = SumFunctionOnSet(Sizes, Holders \ {m}) + Held(m))'
    BY ResidentSplit, PTL
  <2> QED
    BY <2>1
<1>8. LedgerResident' = rest + Held(m)'
  BY <1>2, <1>5, <1>7
<1> HIDE DEF rest
<1> QED
  BY <1>6, <1>7, <1>8

\* Every snapshot keeps the contract, for it is a sample with another time.
LEMMA SnapshotAccounted ==
    ASSUME NEW s \in Snapshots
    PROVE  Accounted(s)
<1>1. PICK sample \in Samples, t \in 0 .. now : s = [sample EXCEPT !.time = t]
  BY DEF Snapshots
<1>2. /\ s.accountedResident = sample.accountedResident
      /\ s.accountedTransient = sample.accountedTransient
      /\ s.vramUsed = sample.vramUsed
  BY <1>1, BrokerAssumption DEF SnapshotRecords
<1> QED
  BY <1>2, SkewAssumption DEF Accounted

\* A poll keeps the snapshot it started with.
LEMMA SnapStep ==
    ASSUME IInv, SnapAccounted, [Next]_brokerVars
    PROVE  SnapAccounted'
<1>1. ASSUME NEW s \in Snapshots, PollStart(s)
      PROVE  SnapAccounted'
  BY <1>1, SnapshotAccounted DEF PollStart, SnapAccounted, Accounted
<1>2. CASE PollStep
  <2>1. PICK j \in Jobs : PollNext(j)
    BY <1>2 DEF PollStep, PollDrops, PollAdmits, PollKeeps
  <2>2. todo # {} /\ (todo' # {} => snap' = snap)
    BY <2>1 DEF PollNext
  <2> QED
    BY <2>2 DEF SnapAccounted, Accounted
<1>3. UNCHANGED pollVars => SnapAccounted'
  BY DEF pollVars, SnapAccounted, Accounted
<1>4. ASSUME NEW s \in Snapshots, NEW j \in Jobs, Submit(j, s) \/ ReportOom(j, s) \/ RefreshPressure(s)
      PROVE  UNCHANGED pollVars
  BY <1>4 DEF Submit, SubmitTurnedAway, SubmitAdmitted, SubmitRejected, SubmitQueued, ReportOom,
     RefreshPressure
<1>5. ASSUME NEW s \in Snapshots, RefreshPressure(s)
      PROVE  UNCHANGED pollVars
  BY <1>5 DEF RefreshPressure
<1>6. ASSUME NEW j \in Jobs, \/ Cancel(j) \/ MarkOutputStarted(j)
                             \/ \E completed \in BOOLEAN : FinishLease(j, completed)
      PROVE  UNCHANGED pollVars
  BY <1>6 DEF Cancel, MarkOutputStarted, FinishLease
<1>7. ASSUME LedgerStep \/ Tick \/ (\E u \in Utterances : FinishUtterance(u)) \/ UNCHANGED brokerVars
      PROVE  UNCHANGED pollVars
  BY <1>7 DEF LedgerStep, RegisterModel, BeginWarming, MarkLoaded, ClearQuarantine, TransitionIdle,
     QuarantineModel, ChangeLedger, Tick, FinishUtterance, brokerVars
<1> QED
  BY <1>1, <1>2, <1>3, <1>4, <1>5, <1>6, <1>7 DEF Next

\* What the broker counts as in use covers all that it has promised, but for the
\* skew of the sample.
LEMMA InUseCovers ==
    ASSUME IInv, LedgerResident \in Nat, NEW s \in SnapshotRecords, Accounted(s), NEW extra \in Int
    PROVE  /\ VramInUse(s, extra) \in Int
           /\ reserved.resident + LedgerResident + extra + reserved.transient <= VramInUse(s, extra) + Skew
           /\ Ceiling(s) \in Nat /\ Ceiling(s) <= VramCeiling
<1>1. reserved.resident \in Nat /\ reserved.transient \in Nat
  BY DEF IInv, TypeOK, Amounts
<1>2. /\ s.vramUsed \in Nat /\ s.accountedResident \in Nat /\ s.accountedTransient \in Nat
      /\ s.vramBudget \in Nat
  BY DEF SnapshotRecords
<1>3. \A a \in Int, b \in Nat : Monus(a, b) \in Int /\ Monus(a, b) >= a - b
  BY DEF Monus
<1> DEFINE a == reserved.resident + LedgerResident + extra
<1>4. a \in Int
  BY <1>1
<1>5. /\ Monus(a, s.accountedResident) \in Int
      /\ Monus(a, s.accountedResident) >= a - s.accountedResident
  BY <1>2, <1>3, <1>4
<1>6. /\ Monus(reserved.transient, s.accountedTransient) \in Int
      /\ Monus(reserved.transient, s.accountedTransient) >= reserved.transient - s.accountedTransient
  BY <1>1, <1>2 DEF Monus
<1>7. VramInUse(s, extra) = s.vramUsed + Monus(a, s.accountedResident)
                                       + Monus(reserved.transient, s.accountedTransient)
  BY DEF VramInUse
<1> HIDE DEF a
<1>8. VramInUse(s, extra) \in Int /\ a + reserved.transient <= VramInUse(s, extra) + Skew
  BY <1>1, <1>2, <1>4, <1>5, <1>6, <1>7, SkewAssumption DEF Accounted
<1>9. Ceiling(s) \in Nat /\ Ceiling(s) <= VramCeiling
  BY <1>2, BrokerAssumption DEF Ceiling, Lower
<1> QED
  BY <1>8, <1>9 DEF a

\* The ledger's resident memory is a natural number.
LEMMA ResidentType ==
    ASSUME IInv
    PROVE  LedgerResident \in Nat
<1>1. Summable(Sizes, Holders)
  BY HoldersSummable DEF Holders
<1> QED
  BY <1>1, SumType DEF LedgerResident, Sizes, Holders

\* An admission reserves what fits and leaves the ledger's resident memory.
LEMMA AdmissionFits ==
    ASSUME IInv, IInv', SnapAccounted,
           NEW j \in Jobs, NEW t \in Targets, NEW s, Admission(j, t, s)
    PROVE  Bounded'
<1> DEFINE n == Target[t].model
           e == Estimate(t)
<1>1. LedgerResident \in Nat /\ LedgerResident' = LedgerResident
  <2>1. CASE ~Registered(t)
    <3>1. ledger' = ledger
      BY <2>1, AdmissionModel
    <3> QED
      BY <3>1, ResidentType DEF LedgerResident, HoldsResidentMemory
  <2>2. CASE Registered(t)
    <3>1. /\ n \in Models /\ ledger[n].state \in {"Loaded", "InFlight"}
          /\ ledger' = [ledger EXCEPT ![n] = ModelReserved(n)]
      BY <2>2, AdmissionModel
    <3>2. ModelReserved(n).state = "InFlight" /\ ModelReserved(n).envelope = ledger[n].envelope
      BY DEF ModelReserved
    <3>3. ledger'[n] = ModelReserved(n)
      BY <3>1 DEF IInv, TypeOK
    <3>4. Held(n) = ledger[n].envelope.resident
      BY <3>1 DEF Held, HoldsResidentMemory
    <3>5. Held(n)' = ledger[n].envelope.resident
      BY <3>2, <3>3 DEF Held, HoldsResidentMemory
    <3>6. /\ LedgerResident \in Nat /\ Held(n) \in Nat /\ LedgerResident' \in Nat
          /\ LedgerResident' = LedgerResident - Held(n) + Held(n)'
      BY <3>1, ResidentWrite
    <3> QED
      BY <3>4, <3>5, <3>6
  <2> QED
    BY <2>1, <2>2
<1>2. s \in SnapshotRecords /\ Accounted(s)
  BY SnapshotAccounted DEF Admission, SnapAccounted
<1>3. /\ VramInUse(s, 0) \in Int
      /\ reserved.resident + LedgerResident + 0 + reserved.transient <= VramInUse(s, 0) + Skew
      /\ Ceiling(s) \in Nat /\ Ceiling(s) <= VramCeiling
  <2>1. 0 \in Int
    OBVIOUS
  <2> QED
    BY <1>1, <1>2, <2>1, InUseCovers
<1>4. e.resident \in Nat /\ e.transient \in Nat
  BY EstimateType DEF IInv, Amounts
<1>5. Monus(VramInUse(s, 0) + e.resident + e.transient, Ceiling(s)) <= TransientAllowance
  BY BrokerAssumption DEF Admission, Fits, Overshoot
<1>6. reserved.resident \in Nat /\ reserved.transient \in Nat
  BY DEF IInv, TypeOK, Amounts
<1>7. /\ reserved'.resident = reserved.resident + e.resident
      /\ reserved'.transient = reserved.transient + e.transient
  BY DEF Admission, Admit
<1> HIDE DEF e
<1>8. VramInUse(s, 0) + e.resident + e.transient <= Ceiling(s) + TransientAllowance
  BY <1>3, <1>4, <1>5, BrokerAssumption DEF Monus
<1> QED
  BY <1>1, <1>3, <1>4, <1>6, <1>7, <1>8, BrokerAssumption, SkewAssumption DEF Bounded

\* A write of a record that lets the model hold no more than before.
LEMMA WriteHoldsNoMore ==
    ASSUME IInv, IInv', Bounded, NEW m \in Models, NEW r \in LedgerRecords,
           ledger' = [ledger EXCEPT ![m] = r],
           r.envelope = ledger[m].envelope,
           HoldsResidentMemory(m)' => HoldsResidentMemory(m),
           reserved'.resident <= reserved.resident, reserved'.transient <= reserved.transient
    PROVE  Bounded'
<1>1. /\ LedgerResident \in Nat /\ LedgerResident' \in Nat
      /\ Held(m) \in Nat /\ Held(m)' \in Nat
      /\ LedgerResident' = LedgerResident - Held(m) + Held(m)'
  BY ResidentWrite
<1>2. ledger'[m] = r
  BY DEF IInv, TypeOK
<1>3. Held(m)' <= Held(m)
  BY <1>1, <1>2 DEF Held
<1>4. /\ reserved.resident \in Nat /\ reserved.transient \in Nat
      /\ reserved'.resident \in Nat /\ reserved'.transient \in Nat
  BY DEF IInv, TypeOK, Amounts
<1> QED
  BY <1>1, <1>3, <1>4, BrokerAssumption, SkewAssumption DEF Bounded

\* Every step decides by a snapshot that covers what is already promised.
LEMMA BoundStep ==
    ASSUME IInv, IInv', ModelInv, SnapAccounted, Never("cleared"), Bounded, [Next]_brokerVars
    PROVE  Bounded'
<1>0. /\ ledger \in [Models -> LedgerRecords]
      /\ reserved.resident \in Nat /\ reserved.transient \in Nat
      /\ \A m \in Models : Kept(m) /\ ledger[m].jobs \in Nat
  BY KeptIsModelKept DEF IInv, TypeOK, Amounts, ModelInv, LedgerRecords
\* A model with jobs holds its memory, as long as it is not cleared under them.
<1>1. \A m \in Models : ledger[m].jobs > 0 => HoldsResidentMemory(m)
  BY <1>0 DEF Kept, Never, HoldsResidentMemory
<1>2. UNCHANGED <<reserved, ledger>> => Bounded'
  BY DEF Bounded, LedgerResident, HoldsResidentMemory
<1>3. ASSUME NEW j \in Jobs, NEW t \in Targets, NEW s, Admission(j, t, s)
      PROVE  Bounded'
  BY <1>3, AdmissionFits
<1>4. ASSUME NEW j \in Jobs, active[j] # None, Release(j)
      PROVE  Bounded'
  <2> DEFINE t == active[j].target
             n == Target[t].model
  <2>1. t \in Targets /\ Refund(t) \in Amounts
    BY <1>4, EstimateType DEF Refund, IInv, TypeOK, ActiveRecords
  <2>2. \A a, b \in Nat : Monus(a, b) <= a
    BY DEF Monus
  <2>3. reserved'.resident <= reserved.resident /\ reserved'.transient <= reserved.transient
    BY <1>0, <1>4, <2>1, <2>2 DEF Release, Amounts
  <2>4. CASE ~Registered(t)
    <3>1. ledger' = ledger
      BY <1>4, <2>4, ReleaseModel
    <3>2. LedgerResident' = LedgerResident /\ LedgerResident \in Nat
      BY <3>1, ResidentType DEF LedgerResident, HoldsResidentMemory
    <3>3. reserved'.resident \in Nat /\ reserved'.transient \in Nat
      BY DEF IInv, TypeOK, Amounts
    <3> QED
      BY <1>0, <2>3, <3>2, <3>3, BrokerAssumption, SkewAssumption DEF Bounded
  <2>5. CASE Registered(t)
    <3>1. n \in Models /\ ledger' = [ledger EXCEPT ![n] = ModelReleased(n)]
      BY <1>4, <2>5, ReleaseModel
    <3>2. ledger'[n] = ModelReleased(n) /\ ledger'[n] \in LedgerRecords
      BY <1>0, <3>1 DEF IInv, TypeOK
    <3>3. PICK m \in Models : m = n
      BY <3>1
    <3>4. /\ ledger' = [ledger EXCEPT ![m] = ModelReleased(m)] /\ ModelReleased(m) \in LedgerRecords
          /\ ledger'[m] = ModelReleased(m)
      BY <3>1, <3>2, <3>3
    <3>5. ModelReleased(m).envelope = ledger[m].envelope
      BY DEF ModelReleased
    <3>6. HoldsResidentMemory(m)' => HoldsResidentMemory(m)
      BY <1>0, <3>4 DEF ModelReleased, HoldsResidentMemory, Monus
    <3> QED
      BY <2>3, <3>4, <3>5, <3>6, WriteHoldsNoMore
  <2> QED
    BY <2>4, <2>5
<1>5. ASSUME NEW j \in Jobs, NEW s \in Snapshots, ReportOom(j, s)
      PROVE  Bounded'
  <2>1. UNCHANGED reserved
    BY <1>5 DEF ReportOom, jobVars
  <2>2. ASSUME NEW m \in Models, NEW until \in Nat,
               ledger' = [ledger EXCEPT ![m] = [ledger[m] EXCEPT !.state = "Quarantined", !.until = until]]
        PROVE  Bounded'
    <3> DEFINE r == [ledger[m] EXCEPT !.state = "Quarantined", !.until = until]
    <3>1. /\ r \in LedgerRecords /\ r.state = "Quarantined"
          /\ r.jobs = ledger[m].jobs /\ r.envelope = ledger[m].envelope
      BY <1>0 DEF LedgerRecords, LedgerStates
    <3>2. ledger' = [ledger EXCEPT ![m] = r]
      BY <2>2
    <3> HIDE DEF r
    <3>3. ledger'[m] = r
      BY <1>0, <3>2
    <3>4. HoldsResidentMemory(m)' => HoldsResidentMemory(m)
      BY <1>1, <3>1, <3>3 DEF HoldsResidentMemory
    <3>5. reserved'.resident <= reserved.resident /\ reserved'.transient <= reserved.transient
      BY <1>0, <2>1
    <3> QED
      BY <3>1, <3>2, <3>4, <3>5, WriteHoldsNoMore
  <2> QED
    BY <1>2, <1>5, <2>1, <2>2, OomModel
<1>6. CASE LedgerStep
  <2>1. PICK m \in Models, r \in LedgerRecords :
              /\ ChangeLedger(m, r)
              /\ \/ r.state = "Cold"
                 \/ /\ ledger[m].state = "Cold" /\ r.state = "Warming"
                    /\ \E s \in Snapshots : VramInUse(s, 0) + r.envelope.resident <= Ceiling(s)
                 \/ /\ ledger[m].state = "Warming" /\ r.state = "Loaded"
                    /\ \E s \in Snapshots :
                          VramInUse(s, r.envelope.resident - ledger[m].envelope.resident) <= Ceiling(s)
                 \/ /\ ledger[m].state \in {"Loaded", "Evicting"} /\ r.envelope = ledger[m].envelope
                    /\ r.state \in {"Evicting", "Cold"}
                 \/ /\ r.state = "Quarantined"
                    /\ r.jobs = ledger[m].jobs /\ r.envelope = ledger[m].envelope
    BY <1>6, LedgerKinds DEF Keeps
  <2>2. ledger' = [ledger EXCEPT ![m] = r] /\ UNCHANGED reserved /\ ledger'[m] = r
    BY <1>0, <2>1 DEF ChangeLedger, jobVars
  <2>3. /\ LedgerResident \in Nat /\ LedgerResident' \in Nat
        /\ Held(m) \in Nat /\ Held(m)' \in Nat
        /\ LedgerResident' = LedgerResident - Held(m) + Held(m)'
    BY <2>2, ResidentWrite
  <2>4. r.envelope.resident \in Nat /\ ledger[m].envelope.resident \in Nat
    BY <1>0 DEF LedgerRecords, EnvelopeRecords
  <2>5. Held(m)' <= Held(m) => Bounded'
    BY <1>0, <2>2, <2>3, BrokerAssumption, SkewAssumption DEF Bounded
  <2>6. CASE r.state = "Cold"
    BY <2>2, <2>3, <2>5, <2>6 DEF Held, HoldsResidentMemory
  <2>7. ASSUME NEW s \in Snapshots, ledger[m].state = "Cold", r.state = "Warming",
               VramInUse(s, 0) + r.envelope.resident <= Ceiling(s)
        PROVE  Bounded'
    <3>1. Held(m) = 0 /\ Held(m)' = r.envelope.resident
      BY <2>2, <2>7 DEF Held, HoldsResidentMemory
    <3>2. s \in SnapshotRecords /\ Accounted(s) /\ 0 \in Int
      BY SnapshotType, SnapshotAccounted DEF IInv
    <3>3. /\ VramInUse(s, 0) \in Int
          /\ reserved.resident + LedgerResident + 0 + reserved.transient <= VramInUse(s, 0) + Skew
          /\ Ceiling(s) \in Nat /\ Ceiling(s) <= VramCeiling
      BY <2>3, <3>2, InUseCovers
    <3> QED
      BY <1>0, <2>2, <2>3, <2>4, <2>7, <3>1, <3>3, BrokerAssumption, SkewAssumption DEF Bounded
  <2>8. ASSUME NEW s \in Snapshots, ledger[m].state = "Warming", r.state = "Loaded",
               VramInUse(s, r.envelope.resident - ledger[m].envelope.resident) <= Ceiling(s)
        PROVE  Bounded'
    <3> DEFINE extra == r.envelope.resident - ledger[m].envelope.resident
    <3>1. Held(m) = ledger[m].envelope.resident /\ Held(m)' = r.envelope.resident
      BY <2>2, <2>8 DEF Held, HoldsResidentMemory
    <3>2. s \in SnapshotRecords /\ Accounted(s) /\ extra \in Int
      BY <2>4, SnapshotType, SnapshotAccounted DEF IInv
    <3>3. /\ VramInUse(s, extra) \in Int
          /\ reserved.resident + LedgerResident + extra + reserved.transient <= VramInUse(s, extra) + Skew
          /\ Ceiling(s) \in Nat /\ Ceiling(s) <= VramCeiling
      <4> HIDE DEF extra
      <4> QED
        BY <2>3, <3>2, InUseCovers
    <3>4. LedgerResident' = LedgerResident + extra
      BY <2>3, <2>4, <3>1
    <3>5. VramInUse(s, extra) <= Ceiling(s)
      BY <2>8
    <3> HIDE DEF extra
    <3> QED
      BY <1>0, <2>2, <2>3, <3>2, <3>3, <3>4, <3>5, BrokerAssumption, SkewAssumption DEF Bounded
  <2>9. CASE /\ ledger[m].state \in {"Loaded", "Evicting"} /\ r.envelope = ledger[m].envelope
             /\ r.state \in {"Evicting", "Cold"}
    BY <2>2, <2>3, <2>4, <2>5, <2>9 DEF Held, HoldsResidentMemory
  <2>10. CASE r.state = "Quarantined" /\ r.jobs = ledger[m].jobs /\ r.envelope = ledger[m].envelope
    BY <1>1, <2>2, <2>3, <2>4, <2>5, <2>10 DEF Held, HoldsResidentMemory
  <2> QED
    BY <2>1, <2>6, <2>7, <2>8, <2>9, <2>10
<1> QED
  BY <1>2, <1>3, <1>4, <1>5, <1>6, StepKinds DEF JobsStay

\* target_fits, begin_model_warming and mark_model_loaded, each deciding by a snapshot
\* of its own that may be torn, never promise more VRAM than the ceiling, the transient
\* allowance and one Skew, until clear_model_quarantine is called under a running job.
THEOREM NothingOvercommitted == Spec => []NeverOvercommitted
<1>1. BrokerInit => SnapAccounted /\ NeverOvercommitted
  <2> SUFFICES ASSUME BrokerInit
               PROVE  SnapAccounted /\ NeverOvercommitted
    OBVIOUS
  <2>1. {m \in Models : HoldsResidentMemory(m)} = {}
    BY DEF BrokerInit, HoldsResidentMemory
  <2>2. LedgerResident = 0
    BY <2>1, SumEmpty DEF LedgerResident
  <2> QED
    BY <2>2, BrokerAssumption, SkewAssumption DEF BrokerInit, SnapAccounted, NeverOvercommitted
<1>2. IInv /\ SnapAccounted /\ [Next]_brokerVars => SnapAccounted'
  BY SnapStep
<1>3. IInv /\ IInv' /\ ModelInv /\ SnapAccounted /\ NeverOvercommitted /\ [Next]_brokerVars
         => NeverOvercommitted'
  <2> SUFFICES ASSUME IInv, IInv', ModelInv, SnapAccounted, NeverOvercommitted, [Next]_brokerVars,
                      Never("cleared")'
               PROVE  Bounded'
    BY DEF NeverOvercommitted, Bounded
  <2>1. Never("cleared")
    BY HistoryKept DEF Never
  <2>2. Bounded
    BY <2>1 DEF NeverOvercommitted, Bounded
  <2> QED
    BY <2>1, <2>2, BoundStep
<1> QED
  BY <1>1, <1>2, <1>3, Invariance, ModelInvariance, PTL DEF Spec

=============================================================================
