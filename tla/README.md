# A verification project for the Interactive LLM-Powered NPCs runtime

These are TLA+ models of the core of the runtime (`src/crates/runtime-core`, and
the part of `src/apps/runtime-host` that commits what was delivered), of the
model packs it runs on (`src/crates/model-manager`) and of the parts of the
desktop app that start, admit and stop local processes, TLC configurations that
check them on small instances, and TLAPS proofs that carry the main invariants
to every instance.  `PROJECT.json` lists, per definition, the source lines it
translates, and per property the run that checks it and a deliberate mistake in
the model that the property detects.

To check a run: `tlc -config <cfg> <module>`.  To check the proofs:
`tlapm <module>_proofs.tla` (`Providers_proofs.tla` for `CircuitBreaker` and
`Routing`).

## 1. The system

A desktop application (`apps/control`, Tauri) starts a runtime host process
(`apps/runtime-host`) that lets a player talk to game characters.  The host
records speech, retrieves memories, streams an answer from a language model,
speaks it sentence by sentence, drives optional effects (expressions, lips),
and remembers what the player actually heard.  Providers may be local or in the
cloud; a resource broker arbitrates the GPU between the game, local models and
jobs; circuit breakers and fallback rules decide which provider is used.

| Part | State it keeps | Operations | Talks to |
|---|---|---|---|
| Circuit breaker (`circuit_breaker.rs`) | Closed / Open / HalfOpen with counters and a clock | `try_acquire`; permit `success`, `failure`, `drop` | the lanes, one breaker per provider |
| Turn supervisor (`supervisor.rs`, `cancellation.rs`) | start gate, current turn, generation, tokens, shutdown flag | `start_turn`, `barge_in`, `shutdown`, `TurnHandle::cancel`, the turn's task | audio sink, resource broker, lanes, memory |
| Response lanes (`supervisor.rs`) | LLM, speech and effects lanes, bounded sentence channel | stream, send, receive, synthesize, play, deliver, join, commit | providers, circuits, audio sink, memory |
| Delivery commit (`simulation.rs`, `RuntimeMemory`) | receipts and presented subtitles | `commit_delivered` | subtitle presenter, memory store |
| Routing (`policy.rs`, `types.rs`) | none | privacy evaluation, transitions, candidates | lanes, broker (which has a copy of the rules) |
| Resource broker (`resource_broker.rs`) | queue, active leases, reservations, residency ledger, target health, utterance bindings, pressure, degradation ladder | `submit`, `poll_ready`, `cancel`, `mark_output_started`, lease completion and drop, residency and quarantine operations | turn supervisor, telemetry |
| Sentence segmentation, structured response (`sentence.rs`, `structured_response.rs`) | text buffers, decoder state | push, finish | LLM lane |
| Runtime host (`apps/runtime-host`) | control session, audio sessions, worker processes, profiles | bootstrap, control commands, capture and playback | desktop app, native processes |
| Sidecar supervisor, router (`sidecar_supervisor.rs`, `sidecar_protocol.rs`, `runtime_router.rs`) | the managed runtime process, startup gate, recent failures, the active simulation | `ensure_ready`, requests, `cancel`, `shutdown` | runtime host, commands of the app |
| Artifact downloader (`downloader.rs`, `journal.rs`) | partial file, download journal | `download` | mirrors, file system |
| Pack manager (`lifecycle.rs`, `filesystem.rs`, `optional_lifecycle.rs`) | records, challenges, references; on disk versions, receipts, pointer, spent keys, references | install, self-test, activate, roll back, repair, remove | file system, downloader, self-test runner |
| Local resource governor (`local_resources.rs`, `resource_governor.rs`, `selected_loadout.rs`) | planner with its work queue, active admission, metadata of visual work, registry of pack mutations | admit, revoke, save settings, install, activate, submit, pop | pack manager, visual runtime, commands |
| Rest of the desktop app (`apps/control/src-tauri`) | documents, loadouts, visual and identity sessions | commands | native brokers, file system |
| Memory, character database (`crates/memory`, `crates/character-db`) | SQLite stores | transactions, retention, retrieval | runtime host |
| Identity engine, diagnostics, benchmark, loadouts, subtitles, telemetry, discovery (other crates) | trackers, bounded stores, documents | see the crates | desktop app, host |
| Native C++ (`native/*`) and Python workers (`workers/*`) | audio ring, playback and frame sessions, request schedulers | IPC services | host, desktop app |

Where the hard behaviour is:

* **Interleaving.** Turns overlap: a turn that lost the foreground goes on
  running until it notices.  Three lanes of one turn run concurrently.  Calls
  share circuit breakers.  Broker operations interleave between a job's
  admission and its end.
* **State used after an await or an unlock.** `shutting_down` is read before
  the start gate; `commit_delivered` looks at the token and then writes; the
  broker reads telemetry before it takes its mutex; `release` recomputes what
  `reserve` took; `clear_if_current` runs long after the turn was replaced.
* **Several locks in a row.** The app's local resources are guarded by a
  planner lock, a registry lock and a lifecycle lock; settings, admissions,
  activations and presenters take them in turn and meet in between.  The
  sidecar supervisor kills whatever runtime is managed when a failure of an
  earlier one is recorded.
* **Crashes.** The pack manager's operations are sequences of atomic file
  replacements; a process may die after each.  The download journal and the
  partial file are written at different times.
* **Failure in the middle.** A stream may break after output, a sink after it
  played half a sentence, a call may be dropped while its circuit is half open.
* **Waiting.** Full channels, the start gate held across an await, providers
  that hang, an open circuit that must close again, a degradation ladder that
  must be climbed down.

`PROJECT.json`, "hazards", lists each at its line with the properties that
would catch it going wrong.

## 2. The modules

| Module | Models | Extends / uses |
|---|---|---|
| `CircuitBreaker`, `Providers_proofs` | one breaker shared by many calls | |
| `TurnSupervisor`, `TurnSupervisor_proofs` | the foreground supervisor with its callers and turn tasks | sees the broker as one slot |
| `ResponseLanes`, `ResponseLanes_proofs` | the inside of one turn | implements `DialogueTurn` |
| `DialogueTurn` | abstract: what a turn promises | |
| `RoutingPolicy` | privacy and fallback rules, the router's and the broker's | |
| `Routing`, `MCRouting`, `Providers_proofs` | a lane walking its providers (`LaneSpec`) | `RoutingPolicy` |
| `BrokerPressure` | pressure hysteresis and degradation ladder | |
| `ResourceBroker`, `ResourceBroker_proofs`, `MCResourceBroker` | the broker | `BrokerPressure`, `RoutingPolicy`; implements `ForegroundSlot` |
| `ForegroundSlot` | abstract: the slot the supervisor relies on | |
| `RuntimeSupervisor`, `RuntimeSupervisor_proofs` | the app's supervisor of the runtime process, the control client and the router's slot | |
| `ArtifactDownload`, `ArtifactDownload_proofs` | one resumable download | |
| `PackManager`, `PackManager_proofs`, `MCPackManager` | one pack: the manager and its disk | takes the evidence that `ArtifactDownload` produces |
| `WorkScheduler` | the queue of local inference work | |
| `LocalResources`, `LocalResources_proofs`, `MCLocalResources` | admissions, pack mutations and visual work of the app | extends `WorkScheduler`; sees the effect of `PackManager` on the pointer |

### CircuitBreaker

Each action is one critical section of the breaker's mutex.  `AcquireClosed`,
`AcquireFirstProbe` and `AcquireProbe` are the three ways `try_acquire` can
succeed; a refusal changes nothing.  `Success`, `Failure` and `Drop` are the
three ends of a permit.  The time since `opened_at` is kept saturated at
`open_duration`, the only value it is compared with.  `probes` is a history
variable: the permits granted by the present half-open episode.  `setbacks`
is another: the parity of the calls that failed or were dropped, so that how a
call ended is in the state even where the breaker does not react to it.

### TurnSupervisor

An action is the code between two awaits.  Callers (one `start_turn` per turn,
a repeatable `barge_in`, one `shutdown`) pass the flag, wait for `start_gate`,
cancel what is current, wait for `audio.stop`, and go on behind the gate.  The
task of a turn goes `preparing`, `responding`, `committing`, `storing`,
`stored`, `settling`, `clearing`, `ended`; the phases are the places where
another task can come between.  `IsCancelled` is `GenerationToken::is_cancelled`
(token or stale generation), but `commit_delivered` only looks at the token, and
the model keeps the difference.  The broker appears as `lease`, the one
foreground slot, and `jobCancelled`, the token of the lease; `Bridge` is the
task that forwards it.  `HandleCancel` and `BrokerCancel` may happen at any time.

### ResponseLanes and DialogueTurn

The three lanes, the bounded channel between the first two, the join and the
commit.  A candidate provider is a number in the order of the plan.  Everything
a provider, the sink, the presenter or the store may do is a choice: refuse,
fail before or after output, be interrupted, hang.  A sentence is a number; the
structured answer format is one action (`LlmInvalid`) that may end the stream.
`DialogueTurn` promises that sentences are heard in order while the turn is
open, that it ends once, and that all or nothing of what was heard is stored.

### RoutingPolicy and Routing

`RoutingPolicy` holds `Evaluate` (the privacy policy), `AllowsTransition` (the
fallback policy), `Candidates` (the plan) and the broker's own copy of the same
rules.  `Routing` is the loop that each lane of `supervisor.rs` writes out in
line instead of using the plan.  Its specification is `LaneSpec`, so that one
module can hold the theorems about the breaker and about the lane.

### BrokerPressure, ResourceBroker and ForegroundSlot

A utilization is only compared with four ordered ratios, so it is the band it
falls in.  Every operation of the broker is one critical section and one
action, with two refinements: the snapshot of a call may be older than the
state it meets (`SnapshotLag`), and `poll_ready` is one step per queued job
with `todo` holding the mutex.  The callers are unconstrained: any operation,
any order, any arguments, and a job id may be reused when it has ended.
`charged` remembers per active job what `reserve` took, so that the
reservations can be compared with it.  `register_model_residency` and
`clear_model_quarantine` may come at any time, as in the code, also while jobs
run on the model; the history field `disturbed` of a model remembers that this
has happened, and the properties say what survives it and what does not.  The
usage and the broker's share of it are read, and updated, under two locks one
after the other, so a sample may attribute to the broker more than it shows as
used; `Skew` names by how much.  `ForegroundSlot` is what `TurnSupervisor`
assumes of the broker.

### RuntimeSupervisor

Callers are the commands of the app: a turn (`start_simulation` makes the
runtime ready, takes the router's slot and leaves a task that calls `simulate`),
a cancellation, a health check, a maintenance of the memory database.  An action
is the code between two awaits of one caller; `startup_gate` and
`runtime_storage_gate` are the variables `gate` and `storage`.  `managed` is the
runtime the supervisor knows, `alive` the processes that run, `client[c]` the
one a caller talks to, which may be an old one.  A request ends by an answer, by
an error, or superseded by a cancellation (`Superseded`).  `recent` and `old`
count failures inside and outside the window.

### ArtifactDownload

An action is one file operation or one decision of `download_from_url`.  A
block of the file is remembered by the content it came from; `durable` is how
much of it a power failure leaves.  A strong validator identifies a content;
other answers have none.  Servers choose content, status and range freely.
Verification may fail on a genuine file too (a read error): the code then empties
the file before it saves the emptied journal, so the power may fail while a
journal marked complete stands over an empty file.

### PackManager

`mem` is the `ModelPackManager` of the running process, everything else is on
disk.  An action is one call; the writes it makes are atomic replacements in the
code's order, and the action lets each prefix of them be followed by an error
(`Returns`), by an error after the pointer was replaced (`ReturnsAfterSwap`,
remembered in `ambiguous`) or by the death of the process (`Dies`).  A process
has one catalogue; the next one may have another.  `owner` is a history
variable: for each challenge that was passed, the revision and the content that
passed it.  A receipt beside a version names its challenge, so `Attested` says
that this very content was tested, not merely one of the same revision.

### WorkScheduler and LocalResources

`WorkScheduler` has the queue's operations as operators; `LocalResources` has
the threads that take the planner's lock to apply them.  Synchronous commands
share the main thread (`main`); target selection, pack mutations and presenters
run beside it.  The registry lock is held through an admission
(`RegistryFree`), the lifecycle lock through the work on a pack
(`LifecycleFree`).  `late` is what a caller's reading of the clock finds expired.

## 3. The runs

| Run | Instance | Distinct states | Shows |
|---|---|---|---|
| `circuit` | 3 calls, thresholds 2, 2 half-open slots | 254 | slots are not leaked, an open circuit cools down undisturbed, a provider that is healthy again gets its circuit closed |
| `turn_supervisor` | 2 turns, barge-in, shutdown, hanging providers | 70 000 | a turn that was not cancelled can be interrupted; no lease outlives its task; only calls that raced with `shutdown` outlive it; cancelled turns end; a broker cancellation ends its turn; every caller gets through the gate |
| `lanes` | 2 models, 2 voices, 3 sentences, channel of 1 | 80 000 | one author per reply, no sentence spoken twice, complete replies delivered completely and in order, refinement of `DialogueTurn`, a cancelled turn ends, released sentences reach the player |
| `routing` | every request, up to 3 providers of 3 ids | 930 000 | the in-line loops follow the plan, the broker's copy of the rules agrees with the router's |
| `broker_pressure` | 12 green samples, ladder of 7 (the real values) | 111 | a calm machine gets everything back, whatever took it away |
| `broker` | 5 jobs, 3 targets, 1 model with registration, warm-up, eviction, OOM, quarantine at any time; stale and torn samples | 47 000 | exclusive jobs run alone, the queue is coherent, reservations cover the active jobs, VRAM is not overcommitted, a model in use is kept, quarantine outlives jobs, refinement of `ForegroundSlot` |
| `broker_eviction` | 2 jobs, the same model | violation | the second finding below |
| `runtime_supervisor` | 2 callers, 3 failures to quarantine | 259 000 | one runtime at a time, none out of reach, every call returns |
| `runtime_maintenance` | the same | violation | the first finding below |
| `download` | 3 mirrors, 4 contents, 6 blocks, checkpoints of 2 | 7 200 | resumed files are never spliced, what is reported complete is the artifact, retries succeed |
| `packs` | 2 revisions, 2 catalogues, 1 consumer, 2 challenges | 905 000 | the pointer names an installed version and moves only to attested content, but for a rollback to a revision staged again, rollback changes the revision, manager and disk agree, references protect, versions are immutable |
| `local_resources` | 1 pack, 1 target, 2 presenters, 2 frames, 2 other jobs, queue of 2 | 1 590 000 | the activation barrier holds, queued frames have their metadata and are current |

### Why the bounds are enough to be interesting

* `CircuitBreaker`: three calls allow a probe, a late completion of an older
  call and a new acquisition at once.  The counters reach all their values.
* `TurnSupervisor`: the races are between a turn and the one that replaces it,
  with a barge-in, a shutdown and the broker as third parties.  The invariants
  are also proved for every set of turns.  What a turn delivers is the subject
  of `ResponseLanes`, so it is left out here.
* `ResponseLanes`: with a channel of one and three sentences one is in the
  channel, one in the hand of the speech lane and one blocked in `send`; two
  providers give a primary and a fallback.
* `Routing`: three providers are the least at which a comparison with the
  previous provider instead of the primary makes a difference.  Provider ids are
  interchangeable, hence the symmetry set; the run has no liveness property.
* `BrokerPressure`: the real constants.  `ResourceBroker` uses a shorter ladder
  and a recovery of one sample: its other parts only ask for the level.
* `broker`: what jobs do to each other in the queue and what a model does under
  its jobs are each explored in full, and their product is not (`Scope` in
  `MCResourceBroker`): four jobs contend while no model is registered, two share
  the target of a registered one.  Jobs are marked (output started, cancelled)
  only where two of them run without a model, for no step of a job or a model
  reads the marks.  The theorems have no such
  bound.  The clock
  has two values: deadlines, grace periods, stale frames and quarantine each lie
  on both sides of it.  One of the two samples is torn.  A new measurement gives
  the model another envelope than it was registered with.
* `RuntimeSupervisor`: the races are between a caller that fails or stops a
  runtime and one that launches or uses the next.  A caller may repeat any of
  its calls, so long sequences happen with two; four process numbers are enough
  because a dead one that nobody holds is used again.
* `ArtifactDownload`: two checkpoints and a rest fit in the file, so a resume
  can start after none, one or two of them; four contents are the artifact,
  two others and one without a validator.  With three mirrors a call can keep
  something from one, restart on the next and finish on the last.
* `PackManager`: two revisions give a history to roll back to; two catalogues a
  second content for one revision; two challenges a stale one.
* `LocalResources`: two presenters and two frames let one overtake the other;
  the queue of two is filled by the frame and one of the two other jobs, so the
  capacity rule applies.  The properties do not compare targets with each
  other, so one target and none are enough.

### Fairness

* Tokio polls every runnable task again and again: weak fairness of the steps
  that depend on nobody outside the process.  A tokio mutex is granted in
  request order, so a waiter for `start_gate` is not overtaken for ever: strong
  fairness of `EnterGate`.  The bounded, local calls (`audio.stop`, the store,
  the presenter) return.
* Nothing is assumed of an uncancelled provider in `CancelledTurnsEnd`,
  `BrokerCancellationEndsTurn`, `CallsReturn` and `CancellationEndsTurn`: it
  may hang for ever.
* `SentencesReachThePlayer` is conditional: if models, voices and sink answer
  (`Responsive`), then released sentences are delivered, although the provider
  of the effects may hang.
* `HealthyProviderRecovers` assumes that callers keep calling and that calls end;
  `CalmMachineRecovers` is conditional on calm samples that go on for ever.
  That a provider is healthy again is read off the state: `setbacks` no longer
  changes.  A success that the breaker fails to count is no setback and does not
  excuse it.
* `CallsReturn` of `RuntimeSupervisor` assumes that every wait of a caller ends.
  Waiting for an answer, a ping, the descriptor and the stop of a process have
  time limits in the code, and a tokio mutex serves its waiters in turn (strong
  fairness of `TakeGate`).  The client's writer lock and the write of a frame are
  outside the limit (`sidecar_protocol.rs`, lines 903-913 and 994): a write that
  the runtime does not read ends when the runtime is killed, at the latest by the
  caller whose earlier request runs out of time, which breaks the pipe.  The
  model takes that for granted.  Nothing else is assumed of the runtime process.
* `RetriesSucceed` is conditional on mirrors that have become reliable, and on
  a user who tries again; before that everything may fail.

### Assumptions about the host

The broker is assumed nothing of its callers.  Of telemetry, `SkewAssumption`
says that what a sample attributes to the broker exceeds what it shows as used by
at most `Skew`, a constant without bound: the two numbers are read and updated
under two locks (`resource_broker.rs`, lines 736-737 and 283-330).  `target_fits`
subtracts the overlap from the reservations, not from the use, so a share that is
not part of the use hides reservations, and `NeverOvercommitted` has `Skew` in
its bound, once and not once per job.

## 4. Findings

**Maintenance of the memory database** (`runtime_maintenance`).
`restore_local_memory_backup` and `remove_all_local_memory` stop the runtime
because it "owns the only live writer to this database"
(`commands.rs`, line 2131), and hold `runtime_storage_gate`, which only
`start_simulation`, `start_selected_stt_push_to_talk` and they themselves take.
A health check, the voice
discovery, or the `simulate` of a turn that was accepted before calls
`ensure_ready` without it and launches the runtime again, which opens the
database while it is being replaced or erased.

**Eviction of a model in flight** (`broker_eviction`).
`register_model_residency` does not look at the active jobs, and `release` looks
the model of a job up again.  A job admitted before its model was registered is
not counted by `reserve` but is taken from `active_jobs` at its end.  The test
`loaded_model_cannot_be_evicted_while_a_job_is_in_flight` (line 2829) registers
the model before any job is submitted; with a job running before, and a second
one admitted once the model is loaded, the end of the first makes the model
`Loaded`, and `begin_model_eviction` succeeds under the second.

### Refuted statements

These statements are defined in the modules and have no run of their own; TLC
finds a short counterexample to each on the instance given.

* `ProbeLimit` (`CircuitBreaker`, with one half-open slot): `Drop` and
  `record_success` give back a half-open slot whatever the permit is, although
  the comment says "Release only a half-open concurrency slot."  A call admitted
  while the circuit was Closed frees a slot it never held, and more probes run
  than `half_open_max_in_flight`.
* `BargeInIsDeterministic` (`TurnSupervisor`, `TurnSupervisor.cfg`; the comment
  of the type promises "deterministic barge-in"): `start_turn` cancels the
  current turn and submits its own job while the old task still holds the
  foreground slot, and the new turn is refused on account of the one it
  cancelled.
* `FallbackIsPreauthorized` (`Routing`, two providers): the primary is the first
  provider the privacy policy leaves, not the preferred one, so a blocked local
  provider is replaced by a cloud one although no fallback was allowed;
  `docs/architecture/security.md`: "No local-to-cloud or cross-cloud fallback
  occurs unless the user pre-authorized that exact route."
* `HeardDialogueIsKept` (`ResponseLanes`, `ResponseLanes.cfg`): a turn cancelled
  after sentences were heard completely returns before `commit_delivered`; what
  was heard is not remembered, against `docs/architecture/data-flow.md`.
* `CancelledTurnsNotCommitted` (`ResponseLanes`, `ResponseLanes.cfg`): a
  cancellation between the last look of `commit_delivered` at the token and its
  transaction gives a turn that is reported Cancelled and is stored.
* `SupersededIsIgnored` (`RuntimeSupervisor`, `RuntimeSupervisor.cfg`;
  `docs/reference/error-codes.md`: "Superseded/late event | Ignore safely"): a
  request that a cancellation superseded fails with an error that
  `should_restart_runtime` takes for a failure of the runtime, which is killed;
  three such cancellations within the window quarantine it.
* `QuarantineIsFinal` (same): a caller past the check of `ensure_ready` writes
  Starting or Ready over a quarantine, whose text asks for a restart of the
  application.
* `RetriesSucceed` with `ReliableMirrors = {3}` (`ArtifactDownload`): a mirror
  that serves a wrong body of full length leaves nothing behind, as the comment
  in `verify_completed_file` says, but one that always breaks off a resumed
  body leaves the next mirror a prefix of another content, whose refusal costs
  it its single restart; and so on for every call.
* `EffectsCannotStopSubtitles` (`ResponseLanes`, `ResponseLanes.cfg`): the
  effects are awaited before subtitles are presented, so an effects provider
  that hangs holds subtitles back, against `docs/architecture/overview.md`.
* `InterruptionIsNotFailure` (`ResponseLanes`, `ResponseLanes.cfg`): a barge-in
  during playback counts as a failure of the voice's circuit.
* `BindingIsImmutable` (`ResourceBroker`, the constants of
  `ResourceBrokerEviction.cfg` with the jobs `turn` and `speech`, both of utterance
  `u`): two jobs of one utterance admitted on different targets both write the
  utterance's binding.
* `ReservationsCoverActiveJobs` without its two premises: when a model is
  registered under a running job, `release` finds the job's memory counted by
  the ledger and gives back only the rest, so its resident reservation is never
  returned.
* `NeverOvercommitted` without its premise: a quarantine cleared under a running
  job makes the model Cold and its memory free; when the same model is
  quarantined again, it is counted again beside what was admitted meanwhile.
* `NeverOvercommitted` without `Skew` in its bound, against the comment of
  `update_broker_accounted_gpu_usage` (lines 308-310): "Values larger than the
  current broker reservations are harmless: overlap is clamped when projections
  are made."  The overlap is clamped to the reservations, not to the use.
* `ActiveIsAttested` (`PackManager`, `PackManager.cfg`), against
  `docs/guides/local-model-manager.md`, line 19: "A pack becomes active only after
  metadata/hash verification, self-test, attestation, and a user activation
  choice".  Revision 1 is activated, then revision 2; a process with another
  catalogue removes revision 1 and stages its own content for it; it ends, and
  `rollback_persisted`, which checks only that the version is a directory
  (`filesystem.rs`, line 234), activates what no self-test has seen.
  `OnlyAttestedBecomesActive` states exactly this exception: a rollback, to a
  version without a receipt.

Behaviour that no property states, and that the pack models show: a repair of
damaged content always ends in quarantine, because `commit_inactive` refuses an
existing version that no longer verifies (`docs/guides/local-model-manager.md`
says that repair "replaces damaged content through staging"); a refused
`rollback` has already taken its target off the stack; a forced removal of a
referenced pack is refused by the storage and leaves the record in `Removing`;
an admission decided while the target changes may be stored, bound to the old
process, after the revocation.

## 5. The proofs

All theorems are of the form *specification implies always property* (or an
action property, or a refinement) and hold for every value of the constants that
satisfies the named assumptions.

All safety properties of the passing runs, invariants, action properties and
refinements, are stated by a theorem; only liveness is left to TLC alone.

**Providers_proofs.** The breaker, from `ConfigAssumption` (the assertions of
`CircuitBreaker::new`) and `CallsAssumption` (finitely many calls):
`TypeCorrect`, `SlotsNotLeaked`, `CoolDown`.  `ProbeSlotsNotLeaked` bounds a
counter by the cardinality of a set, so the steps rest on lemmas about adding an
element to, and removing one from, a finite set.
The lane, for any request and any list of providers with different ids:
`FollowsPlan`, `RulesAgree`.  The invariant (`LaneInv`) is that after the first
`k` allowed providers, those reached are the filter of these `k` by the plan, and
the rest is still to come (`DecidedUpTo`).  It becomes `LaneFollowsPlan` by three
lemmas about filters: the filter of a prefix is the beginning of the filter of
the list (`FilteredGrows`), a filter after a weaker one changes nothing
(`FilteredTwice`), and it keeps what it should (`FilteredMembers`).  That the
broker agrees on fallbacks needs that ids differ, since a transition from a
provider to itself is always allowed.

**TurnSupervisor_proofs.** From the assumptions that the callers differ:
`Invariance`, `TypeCorrect`, `ForegroundReachable`, `SupersededCancelled`,
`LeaseNotLeaked`, `ShutdownWins`.  `UncancelledTurnIsCurrent` is not inductive:
that the caller behind the gate finds nothing current is needed when a turn is
installed (`GateInv`).  With it, `CurrentInv` (the current turn has the newest
generation) gives that an overtaken turn is not current, hence cancelled; so
`SupersededTurnIsCancelled` need not be a conjunct.  `ShutdownInv` says where a
call may stand once the flag is set.

**ResourceBroker_proofs.** From the assumptions on jobs, targets, models and
samples: `Invariance`, `TypeCorrect`, `OneForegroundJob`,
`ExclusiveIsExclusive`, `DegradationFloor`, `Refinement`.  The broker decides by
counters, not by its jobs, so `ExclusiveRunsAlone` needs that `gpuLeases` is the
number of active GPU jobs and that `exclusive` names the one exclusive job
(`LeaseInv`); and granting a slot to a queued job is only sound because queued
jobs are not active (`QueuedAreIdle`).  `Refinement` shows that every broker
step leaves the foreground slot alone, grants it when free, or frees it.
`CoherentQueue` is inductive together with that invariant; a step enters a job
behind all others, takes some out or leaves the queue alone (`QueueKinds`).
The ledger: `QuarantineIsKept` (an action property, from what each operation
writes to a model's record), `ModelInvariance`, `ModelIsKept`,
`ReservationsMatch` and `NothingOvercommitted`, with the host free to register
and clear models under running jobs.  `release` computes anew, from a ledger that
may have changed, what `reserve` took.  `ModelInv` therefore compares for every
active job what the look-up gives now with what was charged (`Refundable`): RAM
always agrees, resident memory is never given back in excess and agrees unless
the model was registered under the job, and transient memory agrees if it was not
cleared either.  The reservations are then sums over the active jobs that each
step changes at one element.  That these histories only grow, and that nothing
else moves a model while jobs run on it, are lemmas (`HistoryKept`,
`LedgerRewrites`).  `NothingOvercommitted` needs in addition `SkewAssumption`, and
the snapshot that a poll in progress decides by (`SnapAccounted`): what the broker
counts as in use covers everything it has promised up to `Skew`, so a decision
that respects the ceiling respects it for the promises (`AdmissionFits`,
`BoundStep`).
The constants are assumed to be natural numbers and the models finitely many.

**ResponseLanes_proofs.** From the assumptions on the sizes: `TypeCorrect`,
`SingleAuthor`, `VoicedOnce`, `RepliesComplete` and `Refinement`.  The invariant
is a description of the pipeline: what was delivered, the sentence in hand,
those in the channel and the one being sent are, in this order, the sentences
`1 .. ready` (`Pipeline`).  It is what makes the empty, closed channel at the end
of the speech lane mean that everything was delivered.  `Writer` says that a
candidate that falls back has released nothing; `Played` that only the sentence
in hand may have been played and not delivered; `Committed` that nothing moves
behind the join.  `Refinement` maps the delivery of a sentence to `Hear`, every
end of the turn to `End` and all else to stuttering.

**RuntimeSupervisor_proofs.** From finitely many callers and more process ids
than callers can hold on to: `TypeCorrect`, `OneRuntimeAtATime`, `NoOrphans`,
`SlotReturned`.  The invariant adds to these that only the holder of the gate
stands inside `ensure_ready` (`GateHeld`), that nothing is managed while it
launches (`NothingManaged`), and where a caller that stops the runtime may be
(`StopStage`).  Type correctness of a launch needs a cardinality argument: the
processes that are managed, launched or held are too few to use up the ids.

**ArtifactDownload_proofs.** `TypeCorrect`, `NeverSplices`, `CompleteGenuine`.
The claims are about the two files on disk (`Disk`, with the fact that a complete
journal counts the whole artifact, unless the file was emptied under it); what
makes them inductive is how the locals of the call relate to those files at each
of its steps (`Locals`): while a body streams, everything in the file comes from it and the file is exactly what the
journal counts plus what is uncommitted.  The hard steps are the checkpoint,
which makes the file durable before it saves the journal, and the power failure,
which may cut the file anywhere beyond its durable prefix.

**PackManager_proofs.** `PointerInstalled` from `TreeInv` (the types of what is
on disk and the property itself); the lemma that carries it is that a removal
deletes the pointer before the tree, so every prefix of its writes leaves a
pointer to an installed version or none.  `Immutable` and `ReferencedStays`
follow from what each operation may touch (`VersionsTouched`, `PointerKept`).
`Agreement` needs the types of the manager's memory and the property itself
(`ManagerInv`): every path that replaces the pointer either reports to the
manager or is remembered as ambiguous.
`OnlyAttested` follows from `AttestInv`: every receipt on disk attests the content
it lies beside.  The steps that matter are the activation, which writes the
receipt only for content that still is what passed the self-test and before it
moves the pointer, and the removal, which takes the receipt away with the tree,
so that content staged later starts without one.
`RollbackChanges` needs that there is no history without a pointer (`HistoryInv`),
that a push enters the replaced revision and never the new
one, and what `Vec::dedup` does to a history of any length: it keeps the last
entry and invents none (`DedupKeeps`).  `TypeCorrect` combines the parts.

**LocalResources_proofs.** `Barrier`, `RegistrationsEnd` and
`ReceiptsHavePlanner`.  `ActivationBarrier` is inductive together with the types
of the control state, with the fact that a registration lasts exactly as long as
its operation (`BarrierNotLeaked`) and with the position of the main thread
inside an admission while the registry is held (`RegistryHeld`): then no
activation can register between the check of an admission and its receipt.
`CurrentFrame` and `FramesDispatchable` are about the queue, and `TypeCorrect`
contains its bound `maximum_pending`.  Their invariant (`QueueInv`) adds that an
unavailable planner has nothing queued (`QueueHasPlanner`): a revocation clears
the metadata but has no planner to clear then.  `PresenterInv` says that a
presenter under way has a frame.  `WithoutLeft` says what a cancellation leaves
of a queue of any length: nothing that is gone, the rest in places of their own,
and fewer items if any was gone, which is why `submit` stays within its bound.

### Induction over data

Sums, `dedup` and filters are folds (`SumFunctionOnSet`, `FoldLeft`), and the
theorems above hold for data of any size.  The induction theorems of the library
take an operator and cannot be used here, so the proofs use induction for a set
(`NatSetInduction`, from the well-foundedness of `<`), applied to the set of
lengths for which the claim holds; each module that needs it proves it again.
A fold is defined by `CHOOSE`, so it is first shown that its recursion has a
solution (`FoldDefined`, by the same induction).  The
sequence operators are written with `FoldLeft` instead of `SelectSeq`, of which
the prover knows nothing.

Only model-checked: the liveness properties (`HealthyProviderRecovers`,
`CancelledTurnsEnd`, `BrokerCancellationEndsTurn`, `CallsReturn` of both
supervisors, `CancellationEndsTurn`, `SentencesReachThePlayer`,
`CalmMachineRecovers`, `RetriesSucceed`), which need fairness and `ENABLED` and
are outside the prover's reach.

Each component with a `_proofs` module of its own, and the breaker, has a type
invariant (`TypeOK`), and each of them is proved.  They are not repeated in the
runs, nor are the invariants that are proved and that the runs' other
properties rest on (`SupersededTurnIsCancelled`, `SlotHeldByItsJob`, `FloorIsKept`,
`BarrierNotLeaked`, `AdmissionHasItsPlanner`, `SlotNotLeaked`).  TLC confirms each
of them on the instances above when it is added to the configuration.

## 6. What is abstracted

Texts, prompts, timing spans, telemetry events and degradation labels are left
out.  Event emission matters only where a cancelled turn refuses it, and there
it is a guard.  Event channels never fill in the model.  Memory retrieval and
identity resolution are one step of a turn (their failures degrade the turn, they
do not end it).  Amounts of memory are small numbers, far from `u64::MAX`, where
saturation would start.  Calls that fail without changing anything (telemetry
errors, unknown models) are stuttering steps.

## 7. What is not modelled, and the plan

Not meant to be modelled: user interface, wire formats, image and text
processing, statistics, adapters of external services, scripts, packaging,
schemas, demos and assets.  `PROJECT.json` gives the reason per component.

What remains, in this order:

1. Audio output of the host and the native playback session: receipts against
   stop, underrun and restart; composes with `ResponseLanes`.
2. Worker supervision in the host, and the identity and visual sessions of the
   app against restarting workers.
3. Sentence segmentation: independence of chunking, exact source ranges (pure
   operators over bounded inputs).  Then the structured response adapter.
4. Memory store: commit, retention and deletion; identity tracker hysteresis;
   bounded diagnostics store.
5. Theorems: the safety half of the liveness properties, as invariants that say
   where a call or a cancelled turn may still stand and what it waits for.

By far the most lines of the repository are wire formats, geometry, rendering,
validation of documents and tests beside the code; the map covers the parts that
keep state between calls of several actors.
