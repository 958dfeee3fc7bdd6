--------------------------- MODULE LocalResources ---------------------------
(***************************************************************************)
(* LocalResourceManager of the desktop app (local_resources.rs) and the    *)
(* commands that call it (commands.rs): the admission of the selected      *)
(* loadout, what revokes it, the registry of pack mutations that acts as a *)
(* barrier to it, and the visual work that is queued on its authority.     *)
(*                                                                         *)
(* An action is the code that runs while the planner's or the registry's   *)
(* lock is held; steps of different threads interleave between locks.      *)
(* Synchronous commands share the main thread, asynchronous ones and the   *)
(* visual runtime run beside it.  The lifecycle lock is held across the    *)
(* work of module PackManager, here only its effect on the active pointer. *)
(***************************************************************************)
EXTENDS WorkScheduler

CONSTANTS
    Packs,       \* the revisions that commands install, activate and remove
    Targets,     \* game processes that can be selected
    Presenters,  \* concurrent calls of present_governed_current_frame
    None

ASSUME NoneAssumption == None \notin Packs \cup Targets \cup Work

VARIABLES
    main, mainPid,   \* the command on the main thread, and the process it has read
    target,          \* the selected game process
    selecting,       \* select_game_target or clear_game_target has yet to revoke
    admission,       \* active_admission: the process it is bound to, or None
    planner,         \* "unavailable", "fresh", or "measured" once it has admitted a loadout
    metadata,        \* the keys of visual_work
    mutation,        \* optional_downloads: the kind registered for each pack (a repair
                     \* differs from an install only in what it does behind the lock)
    step,            \* where each registered mutation stands
    active,          \* packs with an active pointer
    presenter, frame \* where each presenter stands, and its work

commandVars == <<main, mainPid, target, selecting>>
mutationVars == <<mutation, step, active>>
presenterVars == <<presenter, frame>>
vars == <<schedulerVars, commandVars, admission, planner, metadata, mutationVars, presenterVars>>

Frames == {w \in Work: Kind[w] = "LipSync"}
MutationSteps == {"none", "revoke", "setup", "waiting", "holding", "last", "finish"}

TypeOK ==
    /\ SchedulerTypeOK
    /\ main \in {"idle", "admit", "admitting", "planned", "cleared", "emptied"}
    /\ mainPid \in Targets \cup {None} /\ target \in Targets \cup {None}
    /\ selecting \in BOOLEAN
    /\ admission \in Targets \cup {None}
    /\ planner \in {"unavailable", "fresh", "measured"}
    /\ metadata \subseteq Frames
    /\ mutation \in [Packs -> {"none", "Install", "Activate"}]
    /\ step \in [Packs -> MutationSteps]
    /\ active \subseteq Packs
    /\ presenter \in [Presenters -> {"idle", "advance", "pressure", "submit", "commit", "pop"}]
    /\ frame \in [Presenters -> Frames \cup {None}]

Init ==
    /\ pending = <<>> /\ clock = 0
    /\ main = "idle" /\ mainPid = None /\ target = None /\ selecting = FALSE
    /\ admission = None /\ planner \in {"unavailable", "fresh"} /\ metadata = {}
    /\ mutation = [p \in Packs |-> "none"] /\ step = [p \in Packs |-> "none"]
    /\ active \in SUBSET Packs
    /\ presenter = [x \in Presenters |-> "idle"] /\ frame = [x \in Presenters |-> None]

\* mutant: only the planner's kinds are cancelled, the frames stay queued
RevokeKeepsFrames ==
    /\ pending' = IF planner = "unavailable" THEN pending ELSE Without(pending, Work \ Frames)
    /\ admission' = None
    /\ metadata' = {}
    /\ UNCHANGED <<clock, planner>>

\* revoke_active_loadout_admission, all of it under the planner's lock
Revoke ==
    /\ pending' = IF planner = "unavailable" THEN pending ELSE <<>>
    /\ admission' = None
    /\ metadata' = {}
    /\ UNCHANGED <<clock, planner>>

----------------------------------------------------------------------------
(* The main thread: admission and settings.                                *)

\* admit_selected_local_loadout reads the selected process first
AdmitCommand ==
    /\ main = "idle"
    /\ main' = "admit" /\ mainPid' = target
    /\ UNCHANGED <<schedulerVars, target, selecting, admission, planner, metadata, mutationVars, presenterVars>>

RegistryFree == main # "admitting"
Activating == \E p \in Packs: mutation[p] = "Activate"

\* mutant: an admission does not ask for pack mutations in progress
AdmitBeginUnchecked ==
    /\ main = "admit"
    /\ main' = "admitting" /\ UNCHANGED mainPid
    /\ UNCHANGED <<schedulerVars, target, selecting, admission, planner, metadata, mutationVars, presenterVars>>

\* admit_selected_loadout takes the registry's lock and keeps it until it returns
AdmitBegin ==
    /\ main = "admit"
    /\ \/ Activating /\ main' = "idle" /\ mainPid' = None
       \/ ~Activating /\ main' = "admitting" /\ UNCHANGED mainPid
    /\ UNCHANGED <<schedulerVars, target, selecting, admission, planner, metadata, mutationVars, presenterVars>>

\* under the planner's lock: admit sheds work by pressure before it decides; a refusal
\* revokes
AdmitDecide(level, late) ==
    /\ main = "admitting"
    /\ main' = "idle" /\ mainPid' = None
    /\ \/ /\ planner = "unavailable"
          /\ UNCHANGED <<pending, admission, planner, metadata>>
       \/ /\ planner # "unavailable" /\ mainPid # None
          /\ pending' = Without(pending, Shed(level, late))
          /\ admission' = mainPid /\ planner' = "measured"
          /\ UNCHANGED metadata
       \/ /\ planner # "unavailable"
          /\ pending' = <<>> /\ admission' = None /\ metadata' = {}
          /\ UNCHANGED planner
    /\ UNCHANGED <<clock, target, selecting, mutationVars, presenterVars>>

\* save_local_resource_settings: a new planner, then the admission, then the metadata, each
\* under its own lock, then a revocation
SavePlanner ==
    /\ main = "idle"
    /\ main' = "planned"
    /\ planner' \in {"unavailable", "fresh"}
    /\ pending' = <<>> /\ clock' = 0
    /\ UNCHANGED <<mainPid, target, selecting, admission, metadata, mutationVars, presenterVars>>

SaveClearsAdmission ==
    /\ main = "planned"
    /\ main' = "cleared" /\ admission' = None
    /\ UNCHANGED <<schedulerVars, mainPid, target, selecting, planner, metadata, mutationVars, presenterVars>>

SaveClearsMetadata ==
    /\ main = "cleared"
    /\ main' = "emptied" /\ metadata' = {}
    /\ UNCHANGED <<schedulerVars, mainPid, target, selecting, admission, planner, mutationVars, presenterVars>>

SaveRevokes ==
    /\ main = "emptied"
    /\ main' = "idle"
    /\ Revoke
    /\ UNCHANGED <<mainPid, target, selecting, mutationVars, presenterVars>>

\* select_game_target and clear_game_target: the selection changes, then the admission goes
SelectTarget(t) ==
    /\ ~selecting
    /\ target' = t /\ selecting' = TRUE
    /\ UNCHANGED <<schedulerVars, main, mainPid, admission, planner, metadata, mutationVars, presenterVars>>

SelectRevokes ==
    /\ selecting
    /\ selecting' = FALSE
    /\ Revoke
    /\ UNCHANGED <<main, mainPid, target, mutationVars, presenterVars>>

----------------------------------------------------------------------------
(* Pack mutations.                                                         *)

LifecycleFree == \A p \in Packs: step[p] # "holding"

\* begin_optional_mutation
BeginMutation(p, kind) ==
    /\ RegistryFree
    /\ mutation[p] = "none"
    /\ mutation' = [mutation EXCEPT ![p] = kind]
    /\ step' = [step EXCEPT ![p] = IF kind = "Activate" THEN "revoke" ELSE "waiting"]
    /\ UNCHANGED <<schedulerVars, commandVars, admission, planner, metadata, active, presenterVars>>

ActivateRevokes(p) ==
    /\ step[p] = "revoke"
    /\ step' = [step EXCEPT ![p] = "setup"]
    /\ Revoke
    /\ UNCHANGED <<commandVars, mutation, active, presenterVars>>

\* admit_for_setup, which touches neither the queue nor the admission, and the draft
ActivateSetup(p) ==
    /\ step[p] = "setup"
    /\ \/ planner # "unavailable" /\ step' = [step EXCEPT ![p] = "waiting"]
       \/ step' = [step EXCEPT ![p] = "last"]
    /\ UNCHANGED <<schedulerVars, commandVars, admission, planner, metadata, mutation, active, presenterVars>>

TakeLifecycle(p) ==
    /\ step[p] = "waiting" /\ LifecycleFree
    /\ step' = [step EXCEPT ![p] = "holding"]
    /\ UNCHANGED <<schedulerVars, commandVars, admission, planner, metadata, mutation, active, presenterVars>>

\* only a successful activation moves the pointer; install and repair stay inactive
LifecycleWork(p) ==
    /\ step[p] = "holding"
    /\ \/ mutation[p] = "Activate" /\ active' = active \cup {p}
       \/ UNCHANGED active
    /\ step' = [step EXCEPT ![p] = IF mutation[p] = "Activate" THEN "last" ELSE "finish"]
    /\ UNCHANGED <<schedulerVars, commandVars, admission, planner, metadata, mutation, presenterVars>>

LastRevocation(p) ==
    /\ step[p] = "last"
    /\ step' = [step EXCEPT ![p] = "finish"]
    /\ Revoke
    /\ UNCHANGED <<commandVars, mutation, active, presenterVars>>

\* finish_optional_mutation, on every path
FinishMutation(p) ==
    /\ RegistryFree
    /\ step[p] = "finish"
    /\ step' = [step EXCEPT ![p] = "none"]
    /\ mutation' = [mutation EXCEPT ![p] = "none"]
    /\ UNCHANGED <<schedulerVars, commandVars, admission, planner, metadata, active, presenterVars>>

\* remove_trusted_optional_pack is not registered.  It looks at the admission, whose loadout
\* may or may not hold the pack, before it waits for the lifecycle lock
RemovePack(p) ==
    /\ LifecycleFree
    /\ active' = active \ {p}
    /\ UNCHANGED <<schedulerVars, commandVars, admission, planner, metadata, mutation, step, presenterVars>>

----------------------------------------------------------------------------
(* The visual runtime: present_governed_current_frame.                     *)

\* resolve_admitted_openseeface_launch, under the planner's lock
Resolves == admission # None /\ planner = "measured" /\ active # {}

GoTo(x, where) ==
    /\ presenter' = [presenter EXCEPT ![x] = where]
    /\ frame' = IF where = "idle" THEN [frame EXCEPT ![x] = None] ELSE frame

Present(x, w) ==
    /\ presenter[x] = "idle" /\ Resolves
    /\ presenter' = [presenter EXCEPT ![x] = "advance"]
    /\ frame' = [frame EXCEPT ![x] = w]
    /\ UNCHANGED <<schedulerVars, commandVars, admission, planner, metadata, mutationVars>>

\* every bypass leaves the queue alone: no evidence, no admission, no planner, an old frame
GivesUp(x) ==
    /\ \/ presenter[x] = "advance"
       \/ presenter[x] \in {"pressure", "commit", "pop"} /\ planner = "unavailable"
       \/ presenter[x] = "submit" /\ ~Resolves
    /\ GoTo(x, "idle")
    /\ UNCHANGED <<schedulerVars, commandVars, admission, planner, metadata, mutationVars>>

\* work is handed on only if moving the clock cancelled nothing
Advance(x, late) ==
    /\ presenter[x] = "advance" /\ planner # "unavailable"
    /\ Address[frame[x]] >= clock
    /\ LET gone == Overtaken(Address[frame[x]], late) IN
       /\ clock' = Address[frame[x]]
       /\ pending' = Without(pending, gone)
       /\ metadata' = metadata \ gone
       /\ GoTo(x, IF gone = {} THEN "pressure" ELSE "idle")
    /\ UNCHANGED <<commandVars, admission, planner, mutationVars>>

ApplyPressure(x, level, late) ==
    /\ presenter[x] = "pressure" /\ planner # "unavailable"
    /\ LET gone == Shed(level, late) \cup (IF level = "Normal" THEN {} ELSE Queued \cap Frames) IN
       /\ pending' = Without(pending, gone)
       /\ metadata' = metadata \ gone
    /\ GoTo(x, IF level = "Normal" THEN "submit" ELSE "idle")
    /\ UNCHANGED <<clock, commandVars, admission, planner, mutationVars>>

\* submit_screen_space_lip_sync resolves the launch, lets go of the planner ...
SubmitCheck(x) ==
    /\ presenter[x] = "submit" /\ Resolves
    /\ GoTo(x, "commit")
    /\ UNCHANGED <<schedulerVars, commandVars, admission, planner, metadata, mutationVars>>

\* ... and takes it again to submit: an equal item is replaced.  (When the submission fails
\* behind that replacement, metadata without a queued frame stays behind until the next
\* revocation; a frame queued anew under that key brings its own, so this is left out)
SubmitCommit(x) ==
    /\ presenter[x] = "commit" /\ planner # "unavailable"
    /\ LET w == frame[x]
           r == Submitted(w)
       IN /\ pending' = r.pending /\ clock' = r.clock
          /\ metadata' = (metadata \ (Queued \ Range(r.pending)))
                         \cup (IF r.accepted THEN {w} ELSE {})
          /\ GoTo(x, IF r.accepted THEN "pop" ELSE "idle")
    /\ UNCHANGED <<commandVars, admission, planner, mutationVars>>

\* pop_next_screen_space_lip_sync; work of another presenter, or without metadata, is
\* dropped, and what this one had queued is cancelled (in a second section of the
\* planner's lock, which no property here tells from the first)
Pop(x, late) ==
    /\ presenter[x] = "pop" /\ planner # "unavailable"
    /\ LET ready  == Poppable("LipSync", late)
           popped == IF ready = <<>> THEN {} ELSE {Head(ready)}
           mine   == popped = {frame[x]} /\ frame[x] \in metadata
           gone   == (Queued \cap late) \cup popped
           cancel == IF mine THEN {} ELSE (Queued \ gone) \cap {frame[x]}
       IN /\ pending' = Without(pending, gone \cup cancel)
          /\ metadata' = metadata \ (popped \cup cancel)
    /\ GoTo(x, "idle")
    /\ UNCHANGED <<clock, commandVars, admission, planner, mutationVars>>

\* other runtimes share the scheduler through submit_work and pop_next_work_kind
SubmitOther(w) ==
    /\ planner # "unavailable"
    /\ w \notin Frames /\ w \notin Queued
    /\ pending' = Submitted(w).pending /\ clock' = Submitted(w).clock
    /\ UNCHANGED <<commandVars, admission, planner, metadata, mutationVars, presenterVars>>

PopOther(kind, late) ==
    /\ planner # "unavailable"
    /\ kind # "LipSync" /\ Poppable(kind, late) # <<>>
    /\ pending' = Without(pending, {Head(Poppable(kind, late))} \cup late)
    /\ UNCHANGED <<clock, commandVars, admission, planner, metadata, mutationVars, presenterVars>>

----------------------------------------------------------------------------
Levels == {"Normal", "Elevated", "Critical"}

MainStep ==
    \/ AdmitBegin \/ \E level \in Levels, late \in SUBSET Queued: AdmitDecide(level, late)
    \/ SaveClearsAdmission \/ SaveClearsMetadata \/ SaveRevokes

MutationStep(p) ==
    \/ ActivateRevokes(p) \/ ActivateSetup(p) \/ LifecycleWork(p) \/ LastRevocation(p)
    \/ FinishMutation(p)

Next ==
    \/ AdmitCommand \/ SavePlanner \/ MainStep
    \/ \E t \in Targets \cup {None}: SelectTarget(t)
    \/ SelectRevokes
    \/ \E p \in Packs:
        \/ \E kind \in {"Install", "Activate"}: BeginMutation(p, kind)
        \/ TakeLifecycle(p) \/ MutationStep(p) \/ RemovePack(p)
    \/ \E x \in Presenters:
        \/ \E w \in Frames: Present(x, w)
        \/ GivesUp(x) \/ SubmitCheck(x) \/ SubmitCommit(x)
        \/ \E late \in SUBSET (Queued \ {frame[x]}):
            \/ Advance(x, late) \/ Pop(x, late)
            \/ \E level \in Levels: ApplyPressure(x, level, late)
    \/ \E w \in Work: SubmitOther(w)
    \/ \E kind \in Kinds, late \in SUBSET Queued: PopOther(kind, late)

Spec == Init /\ [][Next]_vars

----------------------------------------------------------------------------
(* Properties.                                                             *)

\* Once an activation has revoked the admission, no admission exists until the activation
\* is over: an admission "either finishes before the barrier and is revoked, or observes
\* the barrier and cannot store a receipt".
ActivationBarrier ==
    \A p \in Packs: step[p] # "none" /\ mutation[p] = "Activate" /\ step[p] # "revoke"
        => admission = None

\* An admission always belongs to the planner that granted it, except while settings are
\* being saved: a replaced planner leaves no receipt behind.
AdmissionHasItsPlanner ==
    admission # None => planner = "measured" \/ main \in {"planned"}

\* A queued frame can always be dispatched: the metadata kept beside the scheduler follows
\* the queue through every cancellation, revocation and supersession, except for the
\* moment in which settings are being saved.
FramesHaveMetadata ==
    main \notin {"planned", "cleared", "emptied"} => Queued \cap Frames \subseteq metadata

\* A registration lasts exactly as long as the operation that made it, whichever of its
\* steps fails: a mutation that left its entry behind would lock admissions out, and one
\* that lost it early would let them in.
BarrierNotLeaked == \A p \in Packs: mutation[p] # "none" <=> step[p] # "none"
=============================================================================
