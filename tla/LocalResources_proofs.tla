----------------------- MODULE LocalResources_proofs ------------------------
(***************************************************************************)
(* The local resource manager and the queue it governs, for any packs,     *)
(* targets, presenters and work.                                           *)
(*                                                                         *)
(* The activation barrier: an admission cannot outlive, nor slip in        *)
(* behind, the revocation with which an activation begins.  The argument   *)
(* rests on the registry's lock: admit_selected_loadout keeps it from the  *)
(* look at the registry until it has stored its receipt, so that no        *)
(* activation registers in between.  None of the queue is expanded here.   *)
(*                                                                         *)
(* The queue: it never holds two frames of a visual kind, nor one older    *)
(* than the clock, nor a frame that has lost its metadata.  Filtering the  *)
(* queue is a fold; by induction on the queue's length it leaves out what  *)
(* it should, keeps the rest in places of their own and adds nothing.      *)
(* From that, every step keeps the conjunction of the three facts.         *)
(***************************************************************************)
EXTENDS LocalResources, FiniteSetTheorems, TLAPS

\* The control state of the manager.
ControlTypeOK ==
    /\ main \in {"idle", "admit", "admitting", "planned", "cleared", "emptied"}
    /\ selecting \in BOOLEAN /\ planner \in {"unavailable", "fresh", "measured"}
    /\ active \subseteq Packs
    /\ admission \in Targets \cup {None} /\ mainPid \in Targets \cup {None}
    /\ target \in Targets \cup {None}
    /\ mutation \in [Packs -> {"none", "Install", "Activate"}]
    /\ step \in [Packs -> MutationSteps]

\* The registry holds no activation while an admission is being decided.
RegistryHeld == main = "admitting" => ~Activating

\* The inductive invariant of the barrier.
BarrierInv ==
    ControlTypeOK /\ RegistryHeld /\ BarrierNotLeaked /\ ActivationBarrier

----------------------------------------------------------------------------
\* Every step keeps the types of the control state.
LEMMA ControlTypeInvariance ==
    ASSUME ControlTypeOK, [Next]_vars
    PROVE  ControlTypeOK'
<1> USE DEF ControlTypeOK, MutationSteps
<1>1. CASE UNCHANGED vars
  BY <1>1 DEF vars, commandVars, mutationVars, schedulerVars
<1>2. CASE AdmitCommand
  BY <1>2 DEF AdmitCommand, commandVars, mutationVars
<1>3. CASE AdmitBegin
  BY <1>3 DEF AdmitBegin, Activating, commandVars, mutationVars
<1>4. CASE SavePlanner
  BY <1>4 DEF SavePlanner, commandVars, mutationVars
<1>5. CASE SaveClearsAdmission
  BY <1>5 DEF SaveClearsAdmission, commandVars, mutationVars
<1>6. CASE SaveClearsMetadata
  BY <1>6 DEF SaveClearsMetadata, commandVars, mutationVars
<1>7. CASE SaveRevokes
  BY <1>7 DEF SaveRevokes, Revoke, commandVars, mutationVars
<1>8. CASE SelectRevokes
  BY <1>8 DEF SelectRevokes, Revoke, commandVars, mutationVars
<1>9. ASSUME NEW level \in Levels, NEW late \in SUBSET Queued, AdmitDecide(level, late) PROVE ControlTypeOK'
  BY <1>9 DEF AdmitDecide, commandVars, mutationVars, Activating
<1>10. ASSUME NEW t \in Targets \cup {None}, SelectTarget(t) PROVE ControlTypeOK'
  BY <1>10 DEF SelectTarget, commandVars, mutationVars
<1>11. ASSUME NEW p \in Packs, NEW kind \in {"Install", "Activate"}, BeginMutation(p, kind) PROVE ControlTypeOK'
  BY <1>11 DEF BeginMutation, RegistryFree, commandVars, mutationVars
<1>12. ASSUME NEW p \in Packs, TakeLifecycle(p) PROVE ControlTypeOK'
  BY <1>12 DEF TakeLifecycle, commandVars, mutationVars
<1>13. ASSUME NEW p \in Packs, ActivateRevokes(p) PROVE ControlTypeOK'
  BY <1>13 DEF ActivateRevokes, Revoke, commandVars, mutationVars
<1>14. ASSUME NEW p \in Packs, ActivateSetup(p) PROVE ControlTypeOK'
  BY <1>14 DEF ActivateSetup, commandVars, mutationVars
<1>15. ASSUME NEW p \in Packs, LifecycleWork(p) PROVE ControlTypeOK'
  BY <1>15 DEF LifecycleWork, commandVars, mutationVars
<1>16. ASSUME NEW p \in Packs, LastRevocation(p) PROVE ControlTypeOK'
  BY <1>16 DEF LastRevocation, Revoke, commandVars, mutationVars
<1>17. ASSUME NEW p \in Packs, FinishMutation(p) PROVE ControlTypeOK'
  BY <1>17 DEF FinishMutation, RegistryFree, commandVars, mutationVars
<1>18. ASSUME NEW p \in Packs, RemovePack(p) PROVE ControlTypeOK'
  BY <1>18 DEF RemovePack, commandVars, mutationVars
<1>19. ASSUME NEW x \in Presenters, NEW w \in Frames, Present(x, w) PROVE ControlTypeOK'
  BY <1>19 DEF Present, commandVars, mutationVars
<1>20. ASSUME NEW x \in Presenters, GivesUp(x) PROVE ControlTypeOK'
  BY <1>20 DEF GivesUp, commandVars, mutationVars
<1>21. ASSUME NEW x \in Presenters, SubmitCheck(x) PROVE ControlTypeOK'
  BY <1>21 DEF SubmitCheck, commandVars, mutationVars
<1>22. ASSUME NEW x \in Presenters, SubmitCommit(x) PROVE ControlTypeOK'
  BY <1>22 DEF SubmitCommit, commandVars, mutationVars
<1>23. ASSUME NEW x \in Presenters, NEW late \in SUBSET Queued, Advance(x, late) PROVE ControlTypeOK'
  BY <1>23 DEF Advance, commandVars, mutationVars
<1>24. ASSUME NEW x \in Presenters, NEW late \in SUBSET Queued, Pop(x, late) PROVE ControlTypeOK'
  BY <1>24 DEF Pop, commandVars, mutationVars
<1>25. ASSUME NEW x \in Presenters, NEW level \in Levels, NEW late \in SUBSET Queued,
             ApplyPressure(x, level, late) PROVE ControlTypeOK'
  BY <1>25 DEF ApplyPressure, commandVars, mutationVars
<1>26. ASSUME NEW w \in Work, SubmitOther(w) PROVE ControlTypeOK'
  BY <1>26 DEF SubmitOther, commandVars, mutationVars
<1>27. ASSUME NEW kind \in Kinds, NEW late \in SUBSET Queued, PopOther(kind, late) PROVE ControlTypeOK'
  BY <1>27 DEF PopOther, commandVars, mutationVars
<1> QED
  BY <1>1, <1>2, <1>3, <1>4, <1>5, <1>6, <1>7, <1>8, <1>9, <1>10, <1>11, <1>12, <1>13, <1>14,
     <1>15, <1>16, <1>17, <1>18, <1>19, <1>20, <1>21, <1>22, <1>23, <1>24, <1>25, <1>26, <1>27
  DEF Next, MainStep, MutationStep

\* A mutation is registered as long as it has steps to take.
LEMMA RegistrationInvariance ==
    ASSUME ControlTypeOK, BarrierNotLeaked, [Next]_vars
    PROVE  BarrierNotLeaked'
<1> USE DEF ControlTypeOK, BarrierNotLeaked
<1>1. CASE UNCHANGED vars
  BY <1>1 DEF vars, commandVars, mutationVars, schedulerVars
<1>2. CASE AdmitCommand
  BY <1>2 DEF AdmitCommand, commandVars, mutationVars
<1>3. CASE AdmitBegin
  BY <1>3 DEF AdmitBegin, Activating, commandVars, mutationVars
<1>4. CASE SavePlanner
  BY <1>4 DEF SavePlanner, commandVars, mutationVars
<1>5. CASE SaveClearsAdmission
  BY <1>5 DEF SaveClearsAdmission, commandVars, mutationVars
<1>6. CASE SaveClearsMetadata
  BY <1>6 DEF SaveClearsMetadata, commandVars, mutationVars
<1>7. CASE SaveRevokes
  BY <1>7 DEF SaveRevokes, Revoke, commandVars, mutationVars
<1>8. CASE SelectRevokes
  BY <1>8 DEF SelectRevokes, Revoke, commandVars, mutationVars
<1>9. ASSUME NEW level \in Levels, NEW late \in SUBSET Queued, AdmitDecide(level, late) PROVE BarrierNotLeaked'
  BY <1>9 DEF AdmitDecide, commandVars, mutationVars, Activating
<1>10. ASSUME NEW t \in Targets \cup {None}, SelectTarget(t) PROVE BarrierNotLeaked'
  BY <1>10 DEF SelectTarget, commandVars, mutationVars
<1>11. ASSUME NEW p \in Packs, NEW kind \in {"Install", "Activate"}, BeginMutation(p, kind) PROVE BarrierNotLeaked'
  BY <1>11 DEF BeginMutation, RegistryFree, commandVars, mutationVars
<1>12. ASSUME NEW p \in Packs, TakeLifecycle(p) PROVE BarrierNotLeaked'
  BY <1>12 DEF TakeLifecycle, commandVars, mutationVars
<1>13. ASSUME NEW p \in Packs, ActivateRevokes(p) PROVE BarrierNotLeaked'
  BY <1>13 DEF ActivateRevokes, Revoke, commandVars, mutationVars
<1>14. ASSUME NEW p \in Packs, ActivateSetup(p) PROVE BarrierNotLeaked'
  BY <1>14 DEF ActivateSetup, commandVars, mutationVars
<1>15. ASSUME NEW p \in Packs, LifecycleWork(p) PROVE BarrierNotLeaked'
  BY <1>15 DEF LifecycleWork, commandVars, mutationVars
<1>16. ASSUME NEW p \in Packs, LastRevocation(p) PROVE BarrierNotLeaked'
  BY <1>16 DEF LastRevocation, Revoke, commandVars, mutationVars
<1>17. ASSUME NEW p \in Packs, FinishMutation(p) PROVE BarrierNotLeaked'
  BY <1>17 DEF FinishMutation, RegistryFree, commandVars, mutationVars
<1>18. ASSUME NEW p \in Packs, RemovePack(p) PROVE BarrierNotLeaked'
  BY <1>18 DEF RemovePack, commandVars, mutationVars
<1>19. ASSUME NEW x \in Presenters, NEW w \in Frames, Present(x, w) PROVE BarrierNotLeaked'
  BY <1>19 DEF Present, commandVars, mutationVars
<1>20. ASSUME NEW x \in Presenters, GivesUp(x) PROVE BarrierNotLeaked'
  BY <1>20 DEF GivesUp, commandVars, mutationVars
<1>21. ASSUME NEW x \in Presenters, SubmitCheck(x) PROVE BarrierNotLeaked'
  BY <1>21 DEF SubmitCheck, commandVars, mutationVars
<1>22. ASSUME NEW x \in Presenters, SubmitCommit(x) PROVE BarrierNotLeaked'
  BY <1>22 DEF SubmitCommit, commandVars, mutationVars
<1>23. ASSUME NEW x \in Presenters, NEW late \in SUBSET Queued, Advance(x, late) PROVE BarrierNotLeaked'
  BY <1>23 DEF Advance, commandVars, mutationVars
<1>24. ASSUME NEW x \in Presenters, NEW late \in SUBSET Queued, Pop(x, late) PROVE BarrierNotLeaked'
  BY <1>24 DEF Pop, commandVars, mutationVars
<1>25. ASSUME NEW x \in Presenters, NEW level \in Levels, NEW late \in SUBSET Queued,
             ApplyPressure(x, level, late) PROVE BarrierNotLeaked'
  BY <1>25 DEF ApplyPressure, commandVars, mutationVars
<1>26. ASSUME NEW w \in Work, SubmitOther(w) PROVE BarrierNotLeaked'
  BY <1>26 DEF SubmitOther, commandVars, mutationVars
<1>27. ASSUME NEW kind \in Kinds, NEW late \in SUBSET Queued, PopOther(kind, late) PROVE BarrierNotLeaked'
  BY <1>27 DEF PopOther, commandVars, mutationVars
<1> QED
  BY <1>1, <1>2, <1>3, <1>4, <1>5, <1>6, <1>7, <1>8, <1>9, <1>10, <1>11, <1>12, <1>13, <1>14,
     <1>15, <1>16, <1>17, <1>18, <1>19, <1>20, <1>21, <1>22, <1>23, <1>24, <1>25, <1>26, <1>27
  DEF Next, MainStep, MutationStep

\* The admission and begin_optional_mutation exclude one another through the registry.
LEMMA RegistryInvariance ==
    ASSUME ControlTypeOK, RegistryHeld, [Next]_vars
    PROVE  RegistryHeld'
<1> USE DEF ControlTypeOK, RegistryHeld, Activating
<1>1. CASE UNCHANGED vars
  BY <1>1 DEF vars, commandVars, mutationVars, schedulerVars
<1>2. CASE AdmitCommand
  BY <1>2 DEF AdmitCommand, commandVars, mutationVars
<1>3. CASE AdmitBegin
  BY <1>3 DEF AdmitBegin, Activating, commandVars, mutationVars
<1>4. CASE SavePlanner
  BY <1>4 DEF SavePlanner, commandVars, mutationVars
<1>5. CASE SaveClearsAdmission
  BY <1>5 DEF SaveClearsAdmission, commandVars, mutationVars
<1>6. CASE SaveClearsMetadata
  BY <1>6 DEF SaveClearsMetadata, commandVars, mutationVars
<1>7. CASE SaveRevokes
  BY <1>7 DEF SaveRevokes, Revoke, commandVars, mutationVars
<1>8. CASE SelectRevokes
  BY <1>8 DEF SelectRevokes, Revoke, commandVars, mutationVars
<1>9. ASSUME NEW level \in Levels, NEW late \in SUBSET Queued, AdmitDecide(level, late) PROVE RegistryHeld'
  BY <1>9 DEF AdmitDecide, commandVars, mutationVars, Activating
<1>10. ASSUME NEW t \in Targets \cup {None}, SelectTarget(t) PROVE RegistryHeld'
  BY <1>10 DEF SelectTarget, commandVars, mutationVars
<1>11. ASSUME NEW p \in Packs, NEW kind \in {"Install", "Activate"}, BeginMutation(p, kind) PROVE RegistryHeld'
  BY <1>11 DEF BeginMutation, RegistryFree, commandVars, mutationVars
<1>12. ASSUME NEW p \in Packs, TakeLifecycle(p) PROVE RegistryHeld'
  BY <1>12 DEF TakeLifecycle, commandVars, mutationVars
<1>13. ASSUME NEW p \in Packs, ActivateRevokes(p) PROVE RegistryHeld'
  BY <1>13 DEF ActivateRevokes, Revoke, commandVars, mutationVars
<1>14. ASSUME NEW p \in Packs, ActivateSetup(p) PROVE RegistryHeld'
  BY <1>14 DEF ActivateSetup, commandVars, mutationVars
<1>15. ASSUME NEW p \in Packs, LifecycleWork(p) PROVE RegistryHeld'
  BY <1>15 DEF LifecycleWork, commandVars, mutationVars
<1>16. ASSUME NEW p \in Packs, LastRevocation(p) PROVE RegistryHeld'
  BY <1>16 DEF LastRevocation, Revoke, commandVars, mutationVars
<1>17. ASSUME NEW p \in Packs, FinishMutation(p) PROVE RegistryHeld'
  BY <1>17 DEF FinishMutation, RegistryFree, commandVars, mutationVars
<1>18. ASSUME NEW p \in Packs, RemovePack(p) PROVE RegistryHeld'
  BY <1>18 DEF RemovePack, commandVars, mutationVars
<1>19. ASSUME NEW x \in Presenters, NEW w \in Frames, Present(x, w) PROVE RegistryHeld'
  BY <1>19 DEF Present, commandVars, mutationVars
<1>20. ASSUME NEW x \in Presenters, GivesUp(x) PROVE RegistryHeld'
  BY <1>20 DEF GivesUp, commandVars, mutationVars
<1>21. ASSUME NEW x \in Presenters, SubmitCheck(x) PROVE RegistryHeld'
  BY <1>21 DEF SubmitCheck, commandVars, mutationVars
<1>22. ASSUME NEW x \in Presenters, SubmitCommit(x) PROVE RegistryHeld'
  BY <1>22 DEF SubmitCommit, commandVars, mutationVars
<1>23. ASSUME NEW x \in Presenters, NEW late \in SUBSET Queued, Advance(x, late) PROVE RegistryHeld'
  BY <1>23 DEF Advance, commandVars, mutationVars
<1>24. ASSUME NEW x \in Presenters, NEW late \in SUBSET Queued, Pop(x, late) PROVE RegistryHeld'
  BY <1>24 DEF Pop, commandVars, mutationVars
<1>25. ASSUME NEW x \in Presenters, NEW level \in Levels, NEW late \in SUBSET Queued,
             ApplyPressure(x, level, late) PROVE RegistryHeld'
  BY <1>25 DEF ApplyPressure, commandVars, mutationVars
<1>26. ASSUME NEW w \in Work, SubmitOther(w) PROVE RegistryHeld'
  BY <1>26 DEF SubmitOther, commandVars, mutationVars
<1>27. ASSUME NEW kind \in Kinds, NEW late \in SUBSET Queued, PopOther(kind, late) PROVE RegistryHeld'
  BY <1>27 DEF PopOther, commandVars, mutationVars
<1> QED
  BY <1>1, <1>2, <1>3, <1>4, <1>5, <1>6, <1>7, <1>8, <1>9, <1>10, <1>11, <1>12, <1>13, <1>14,
     <1>15, <1>16, <1>17, <1>18, <1>19, <1>20, <1>21, <1>22, <1>23, <1>24, <1>25, <1>26, <1>27
  DEF Next, MainStep, MutationStep

\* A receipt is stored only under the registry's lock, hence never behind the barrier.
LEMMA BarrierInvariance ==
    ASSUME ControlTypeOK, RegistryHeld, BarrierNotLeaked, ActivationBarrier, [Next]_vars
    PROVE  ActivationBarrier'
<1> USE DEF ControlTypeOK, RegistryHeld, BarrierNotLeaked, ActivationBarrier
<1>1. CASE UNCHANGED vars
  BY <1>1 DEF vars, commandVars, mutationVars, schedulerVars
<1>2. CASE AdmitCommand
  BY <1>2 DEF AdmitCommand, commandVars, mutationVars
<1>3. CASE AdmitBegin
  BY <1>3 DEF AdmitBegin, Activating, commandVars, mutationVars
<1>4. CASE SavePlanner
  BY <1>4 DEF SavePlanner, commandVars, mutationVars
<1>5. CASE SaveClearsAdmission
  BY <1>5 DEF SaveClearsAdmission, commandVars, mutationVars
<1>6. CASE SaveClearsMetadata
  BY <1>6 DEF SaveClearsMetadata, commandVars, mutationVars
<1>7. CASE SaveRevokes
  BY <1>7 DEF SaveRevokes, Revoke, commandVars, mutationVars
<1>8. CASE SelectRevokes
  BY <1>8 DEF SelectRevokes, Revoke, commandVars, mutationVars
<1>9. ASSUME NEW level \in Levels, NEW late \in SUBSET Queued, AdmitDecide(level, late) PROVE ActivationBarrier'
  BY <1>9 DEF AdmitDecide, commandVars, mutationVars, Activating
<1>10. ASSUME NEW t \in Targets \cup {None}, SelectTarget(t) PROVE ActivationBarrier'
  BY <1>10 DEF SelectTarget, commandVars, mutationVars
<1>11. ASSUME NEW p \in Packs, NEW kind \in {"Install", "Activate"}, BeginMutation(p, kind) PROVE ActivationBarrier'
  BY <1>11 DEF BeginMutation, RegistryFree, commandVars, mutationVars
<1>12. ASSUME NEW p \in Packs, TakeLifecycle(p) PROVE ActivationBarrier'
  BY <1>12 DEF TakeLifecycle, commandVars, mutationVars
<1>13. ASSUME NEW p \in Packs, ActivateRevokes(p) PROVE ActivationBarrier'
  BY <1>13 DEF ActivateRevokes, Revoke, commandVars, mutationVars
<1>14. ASSUME NEW p \in Packs, ActivateSetup(p) PROVE ActivationBarrier'
  BY <1>14 DEF ActivateSetup, commandVars, mutationVars
<1>15. ASSUME NEW p \in Packs, LifecycleWork(p) PROVE ActivationBarrier'
  BY <1>15 DEF LifecycleWork, commandVars, mutationVars
<1>16. ASSUME NEW p \in Packs, LastRevocation(p) PROVE ActivationBarrier'
  BY <1>16 DEF LastRevocation, Revoke, commandVars, mutationVars
<1>17. ASSUME NEW p \in Packs, FinishMutation(p) PROVE ActivationBarrier'
  BY <1>17 DEF FinishMutation, RegistryFree, commandVars, mutationVars
<1>18. ASSUME NEW p \in Packs, RemovePack(p) PROVE ActivationBarrier'
  BY <1>18 DEF RemovePack, commandVars, mutationVars
<1>19. ASSUME NEW x \in Presenters, NEW w \in Frames, Present(x, w) PROVE ActivationBarrier'
  BY <1>19 DEF Present, commandVars, mutationVars
<1>20. ASSUME NEW x \in Presenters, GivesUp(x) PROVE ActivationBarrier'
  BY <1>20 DEF GivesUp, commandVars, mutationVars
<1>21. ASSUME NEW x \in Presenters, SubmitCheck(x) PROVE ActivationBarrier'
  BY <1>21 DEF SubmitCheck, commandVars, mutationVars
<1>22. ASSUME NEW x \in Presenters, SubmitCommit(x) PROVE ActivationBarrier'
  BY <1>22 DEF SubmitCommit, commandVars, mutationVars
<1>23. ASSUME NEW x \in Presenters, NEW late \in SUBSET Queued, Advance(x, late) PROVE ActivationBarrier'
  BY <1>23 DEF Advance, commandVars, mutationVars
<1>24. ASSUME NEW x \in Presenters, NEW late \in SUBSET Queued, Pop(x, late) PROVE ActivationBarrier'
  BY <1>24 DEF Pop, commandVars, mutationVars
<1>25. ASSUME NEW x \in Presenters, NEW level \in Levels, NEW late \in SUBSET Queued,
             ApplyPressure(x, level, late) PROVE ActivationBarrier'
  BY <1>25 DEF ApplyPressure, commandVars, mutationVars
<1>26. ASSUME NEW w \in Work, SubmitOther(w) PROVE ActivationBarrier'
  BY <1>26 DEF SubmitOther, commandVars, mutationVars
<1>27. ASSUME NEW kind \in Kinds, NEW late \in SUBSET Queued, PopOther(kind, late) PROVE ActivationBarrier'
  BY <1>27 DEF PopOther, commandVars, mutationVars
<1> QED
  BY <1>1, <1>2, <1>3, <1>4, <1>5, <1>6, <1>7, <1>8, <1>9, <1>10, <1>11, <1>12, <1>13, <1>14,
     <1>15, <1>16, <1>17, <1>18, <1>19, <1>20, <1>21, <1>22, <1>23, <1>24, <1>25, <1>26, <1>27
  DEF Next, MainStep, MutationStep

\* A replaced planner takes its receipt with it.
LEMMA PlannerInvariance ==
    ASSUME AdmissionHasItsPlanner, [Next]_vars
    PROVE  AdmissionHasItsPlanner'
<1> USE DEF AdmissionHasItsPlanner
<1>1. CASE UNCHANGED vars
  BY <1>1 DEF vars, commandVars, mutationVars, schedulerVars
<1>2. CASE AdmitCommand
  BY <1>2 DEF AdmitCommand, commandVars, mutationVars
<1>3. CASE AdmitBegin
  BY <1>3 DEF AdmitBegin, Activating, commandVars, mutationVars
<1>4. CASE SavePlanner
  BY <1>4 DEF SavePlanner, commandVars, mutationVars
<1>5. CASE SaveClearsAdmission
  BY <1>5 DEF SaveClearsAdmission, commandVars, mutationVars
<1>6. CASE SaveClearsMetadata
  BY <1>6 DEF SaveClearsMetadata, commandVars, mutationVars
<1>7. CASE SaveRevokes
  BY <1>7 DEF SaveRevokes, Revoke, commandVars, mutationVars
<1>8. CASE SelectRevokes
  BY <1>8 DEF SelectRevokes, Revoke, commandVars, mutationVars
<1>9. ASSUME NEW level \in Levels, NEW late \in SUBSET Queued, AdmitDecide(level, late) PROVE AdmissionHasItsPlanner'
  BY <1>9 DEF AdmitDecide, commandVars, mutationVars, Activating
<1>10. ASSUME NEW t \in Targets \cup {None}, SelectTarget(t) PROVE AdmissionHasItsPlanner'
  BY <1>10 DEF SelectTarget, commandVars, mutationVars
<1>11. ASSUME NEW p \in Packs, NEW kind \in {"Install", "Activate"}, BeginMutation(p, kind) PROVE AdmissionHasItsPlanner'
  BY <1>11 DEF BeginMutation, RegistryFree, commandVars, mutationVars
<1>12. ASSUME NEW p \in Packs, TakeLifecycle(p) PROVE AdmissionHasItsPlanner'
  BY <1>12 DEF TakeLifecycle, commandVars, mutationVars
<1>13. ASSUME NEW p \in Packs, ActivateRevokes(p) PROVE AdmissionHasItsPlanner'
  BY <1>13 DEF ActivateRevokes, Revoke, commandVars, mutationVars
<1>14. ASSUME NEW p \in Packs, ActivateSetup(p) PROVE AdmissionHasItsPlanner'
  BY <1>14 DEF ActivateSetup, commandVars, mutationVars
<1>15. ASSUME NEW p \in Packs, LifecycleWork(p) PROVE AdmissionHasItsPlanner'
  BY <1>15 DEF LifecycleWork, commandVars, mutationVars
<1>16. ASSUME NEW p \in Packs, LastRevocation(p) PROVE AdmissionHasItsPlanner'
  BY <1>16 DEF LastRevocation, Revoke, commandVars, mutationVars
<1>17. ASSUME NEW p \in Packs, FinishMutation(p) PROVE AdmissionHasItsPlanner'
  BY <1>17 DEF FinishMutation, RegistryFree, commandVars, mutationVars
<1>18. ASSUME NEW p \in Packs, RemovePack(p) PROVE AdmissionHasItsPlanner'
  BY <1>18 DEF RemovePack, commandVars, mutationVars
<1>19. ASSUME NEW x \in Presenters, NEW w \in Frames, Present(x, w) PROVE AdmissionHasItsPlanner'
  BY <1>19 DEF Present, commandVars, mutationVars
<1>20. ASSUME NEW x \in Presenters, GivesUp(x) PROVE AdmissionHasItsPlanner'
  BY <1>20 DEF GivesUp, commandVars, mutationVars
<1>21. ASSUME NEW x \in Presenters, SubmitCheck(x) PROVE AdmissionHasItsPlanner'
  BY <1>21 DEF SubmitCheck, commandVars, mutationVars
<1>22. ASSUME NEW x \in Presenters, SubmitCommit(x) PROVE AdmissionHasItsPlanner'
  BY <1>22 DEF SubmitCommit, commandVars, mutationVars
<1>23. ASSUME NEW x \in Presenters, NEW late \in SUBSET Queued, Advance(x, late) PROVE AdmissionHasItsPlanner'
  BY <1>23 DEF Advance, commandVars, mutationVars
<1>24. ASSUME NEW x \in Presenters, NEW late \in SUBSET Queued, Pop(x, late) PROVE AdmissionHasItsPlanner'
  BY <1>24 DEF Pop, commandVars, mutationVars
<1>25. ASSUME NEW x \in Presenters, NEW level \in Levels, NEW late \in SUBSET Queued,
             ApplyPressure(x, level, late) PROVE AdmissionHasItsPlanner'
  BY <1>25 DEF ApplyPressure, commandVars, mutationVars
<1>26. ASSUME NEW w \in Work, SubmitOther(w) PROVE AdmissionHasItsPlanner'
  BY <1>26 DEF SubmitOther, commandVars, mutationVars
<1>27. ASSUME NEW kind \in Kinds, NEW late \in SUBSET Queued, PopOther(kind, late) PROVE AdmissionHasItsPlanner'
  BY <1>27 DEF PopOther, commandVars, mutationVars
<1> QED
  BY <1>1, <1>2, <1>3, <1>4, <1>5, <1>6, <1>7, <1>8, <1>9, <1>10, <1>11, <1>12, <1>13, <1>14,
     <1>15, <1>16, <1>17, <1>18, <1>19, <1>20, <1>21, <1>22, <1>23, <1>24, <1>25, <1>26, <1>27
  DEF Next, MainStep, MutationStep

----------------------------------------------------------------------------
\* The invariant the barrier rests on holds in every behaviour.
LEMMA BarrierInvariant == Spec => []BarrierInv
<1>1. Init => BarrierInv
  BY DEF Init, BarrierInv, ControlTypeOK, MutationSteps, RegistryHeld, BarrierNotLeaked,
         ActivationBarrier
<1>2. BarrierInv /\ [Next]_vars => BarrierInv'
  BY ControlTypeInvariance, RegistrationInvariance, RegistryInvariance, BarrierInvariance
  DEF BarrierInv
<1> QED
  BY <1>1, <1>2, PTL DEF Spec

\* Once an activation has revoked the admission, no admission exists until it is over,
\* whatever the other threads do (local_resources.rs, activate_trusted_optional_pack and
\* admit_selected_loadout).
THEOREM Barrier == Spec => []ActivationBarrier
<1>1. BarrierInv => ActivationBarrier
  BY DEF BarrierInv
<1> QED
  BY <1>1, BarrierInvariant, PTL

\* A registration lasts exactly as long as its operation (local_resources.rs,
\* begin_optional_mutation and finish_optional_mutation).
THEOREM RegistrationsEnd == Spec => []BarrierNotLeaked
<1>1. BarrierInv => BarrierNotLeaked
  BY DEF BarrierInv
<1> QED
  BY <1>1, BarrierInvariant, PTL

\* A receipt belongs to the planner that granted it, except while settings are being saved
\* (local_resources.rs, save_settings).
THEOREM ReceiptsHavePlanner == Spec => []AdmissionHasItsPlanner
<1>1. Init => AdmissionHasItsPlanner
  BY DEF Init, AdmissionHasItsPlanner
<1>2. AdmissionHasItsPlanner /\ [Next]_vars => AdmissionHasItsPlanner'
  BY PlannerInvariance
<1> QED
  BY <1>1, <1>2, PTL DEF Spec

----------------------------------------------------------------------------
(* The queue without some of its items, a fold, by induction on its length. *)

\* Induction on the natural numbers, for a set instead of a predicate.
LEMMA NatSetInduction ==
    ASSUME NEW T, 0 \in T, \A n \in Nat : n \in T => n + 1 \in T
    PROVE  Nat \subseteq T
<1> SUFFICES ASSUME Nat \ T # {}
             PROVE  FALSE
  OBVIOUS
<1>1. PICK n \in Nat \ T : \A k \in Nat \ T : ~(<<k, n>> \in OpToRel(<, Nat))
  BY NatLessThanWellFounded, WFMin
<1>2. n # 0 /\ n - 1 \in Nat
  OBVIOUS
<1>3. <<n - 1, n>> \in OpToRel(<, Nat)
  BY <1>2 DEF OpToRel
<1>4. n - 1 \in T
  BY <1>1, <1>2, <1>3
<1> QED
  BY <1>2, <1>4

\* A set of natural numbers has a least one.
LEMMA LeastNat ==
    ASSUME NEW T \in SUBSET Nat, T # {}
    PROVE  \E n \in T: \A k \in T: n <= k
<1>1. PICK n \in T : \A k \in T : ~(<<k, n>> \in OpToRel(<, Nat))
  BY NatLessThanWellFounded, WFMin
<1>2. \A k \in T: ~(k < n)
  BY <1>1 DEF OpToRel
<1> QED
  BY <1>2

\* What Without does with the next item, and with the items at a set of places.
Retain(rest, w, gone) == IF w \in gone THEN rest ELSE Append(rest, w)
Fold(queue, gone, g, s) == IF s = {} THEN <<>> ELSE Retain(g[s \ {Max(s)}], queue[Max(s)], gone)

\* A solution of the recursion for the first n items of the queue.
Solves(g, queue, gone, n) == g = [s \in SUBSET (1 .. n) |-> Fold(queue, gone, g, s)]

\* The place that the fold takes off is the last one.
LEMMA MaxOfRange ==
    ASSUME NEW n \in Nat, NEW s \in SUBSET (1 .. n + 1), n + 1 \in s
    PROVE  Max(s) = n + 1 /\ s \ {n + 1} \in SUBSET (1 .. n)
<1>1. \A y \in s: y \in Nat /\ n + 1 >= y
  OBVIOUS
<1>2. \E x \in s: \A y \in s: x >= y
  BY <1>1
<1>3. Max(s) \in s /\ \A y \in s: Max(s) >= y
  BY <1>2 DEF Max
<1>4. Max(s) = n + 1
  <2>1. Max(s) \in Nat /\ n + 1 >= Max(s)
    BY <1>1, <1>3
  <2>2. Max(s) >= n + 1
    BY <1>3
  <2> QED
    BY <2>1, <2>2
<1>5. s \ {n + 1} \in SUBSET (1 .. n)
  OBVIOUS
<1> QED
  BY <1>4, <1>5

\* The recursion of the fold has a solution for every queue.
LEMMA FoldDefined ==
    ASSUME NEW queue \in Seq(Work), NEW gone
    PROVE  \E g: Solves(g, queue, gone, Len(queue))
<1> DEFINE T == {n \in Nat: n <= Len(queue) => \E g: Solves(g, queue, gone, n)}
<1>1. 0 \in T
  <2> DEFINE g == [s \in SUBSET (1 .. 0) |-> <<>>]
  <2>1. \A s \in SUBSET (1 .. 0): s = {}
    OBVIOUS
  <2>2. Solves(g, queue, gone, 0)
    BY <2>1 DEF Solves, Fold
  <2> HIDE DEF g
  <2> QED
    BY <2>2
<1>2. ASSUME NEW n \in Nat, n \in T
      PROVE  n + 1 \in T
  <2> SUFFICES ASSUME n + 1 <= Len(queue)
               PROVE  \E g: Solves(g, queue, gone, n + 1)
    OBVIOUS
  <2>1. PICK g: Solves(g, queue, gone, n)
    BY <1>2
  <2> DEFINE f == [s \in SUBSET (1 .. n + 1) |->
                     IF n + 1 \in s THEN Retain(g[s \ {n + 1}], queue[n + 1], gone) ELSE g[s]]
  <2>2. \A s \in SUBSET (1 .. n + 1): n + 1 \notin s => s \in SUBSET (1 .. n)
    OBVIOUS
  <2>3. f = [s \in SUBSET (1 .. n + 1) |-> f[s]]
    OBVIOUS
  <2>4. ASSUME NEW s \in SUBSET (1 .. n)
        PROVE  f[s] = g[s]
    <3>1. s \in SUBSET (1 .. n + 1) /\ n + 1 \notin s
      OBVIOUS
    <3> QED
      BY <3>1
  <2>5. ASSUME NEW s \in SUBSET (1 .. n + 1)
        PROVE  f[s] = Fold(queue, gone, f, s)
    <3>1. CASE n + 1 \in s
      <4>1. Max(s) = n + 1 /\ s \ {n + 1} \in SUBSET (1 .. n)
        BY <3>1, MaxOfRange
      <4>2. f[s] = Retain(g[s \ {n + 1}], queue[n + 1], gone)
        BY <3>1
      <4>3. f[s \ {n + 1}] = g[s \ {n + 1}]
        BY <2>4, <4>1
      <4> HIDE DEF f
      <4> QED
        BY <3>1, <4>1, <4>2, <4>3 DEF Fold
    <3>2. CASE n + 1 \notin s
      <4>1. s \in SUBSET (1 .. n) /\ s \ {Max(s)} \in SUBSET (1 .. n)
        BY <2>2, <3>2
      <4>2. f[s] = g[s] /\ f[s \ {Max(s)}] = g[s \ {Max(s)}]
        BY <2>4, <4>1
      <4>3. g[s] = Fold(queue, gone, g, s)
        BY <2>1, <4>1 DEF Solves
      <4> HIDE DEF f
      <4> QED
        BY <4>2, <4>3 DEF Fold
    <3> QED
      BY <3>1, <3>2
  <2>6. Solves(f, queue, gone, n + 1)
    <3> HIDE DEF f
    <3> QED
      BY <2>3, <2>5 DEF Solves
  <2> HIDE DEF f
  <2> QED
    BY <2>6
<1>3. Nat \subseteq T
  <2> HIDE DEF T
  <2> QED
    BY <1>1, <1>2, NatSetInduction
<1> QED
  BY <1>3

\* Without is a solution of that recursion.
LEMMA WithoutFolds ==
    ASSUME NEW queue \in Seq(Work), NEW gone
    PROVE  \E g: Solves(g, queue, gone, Len(queue)) /\ Without(queue, gone) = g[1 .. Len(queue)]
<1> DEFINE n == Len(queue)
           S == SUBSET (1 .. n)
           it == CHOOSE g: g = [s \in S |-> Fold(queue, gone, g, s)]
<1>1. DOMAIN queue = 1 .. n
  OBVIOUS
<1>2. PICK f: Solves(f, queue, gone, n)
  BY FoldDefined
<1>3. f = [s \in S |-> Fold(queue, gone, f, s)]
  BY <1>2 DEF Solves
<1>4. it = [s \in S |-> Fold(queue, gone, it, s)]
  BY <1>3, Zenon
<1>5. Without(queue, gone) = it[1 .. n]
  BY <1>1, Zenon DEF Without, FoldLeft, MapThenFoldSet, Fold, Retain
<1> HIDE DEF it
<1> QED
  BY <1>4, <1>5 DEF Solves

\* The items of d stand, each in a place of its own, among the first k of the queue.
PartOf(d, queue, k) ==
    \E f \in [1 .. Len(d) -> 1 .. k]:
        /\ \A i \in 1 .. Len(d): d[i] = queue[f[i]]
        /\ \A i, j \in 1 .. Len(d): f[i] = f[j] => i = j

\* d is what is left of the first k items of the queue.
LeftOf(d, queue, gone, k) ==
    /\ d \in Seq(Work) /\ Len(d) <= k
    /\ \A i \in 1 .. Len(d): d[i] \notin gone
    /\ (\E i \in 1 .. k: queue[i] \in gone) => Len(d) < k
    /\ PartOf(d, queue, k)

\* One more item is left out, or stands behind those that are left.
LEMMA RetainLeft ==
    ASSUME NEW queue \in Seq(Work), NEW gone, NEW k \in Nat, k + 1 <= Len(queue),
           NEW d, LeftOf(d, queue, gone, k)
    PROVE  LeftOf(Retain(d, queue[k + 1], gone), queue, gone, k + 1)
<1>0. queue[k + 1] \in Work /\ d \in Seq(Work) /\ Len(d) \in Nat /\ Len(d) <= k
  BY DEF LeftOf
<1>1. PICK f \in [1 .. Len(d) -> 1 .. k]:
         /\ \A i \in 1 .. Len(d): d[i] = queue[f[i]]
         /\ \A i, j \in 1 .. Len(d): f[i] = f[j] => i = j
  BY DEF LeftOf, PartOf
<1>2. CASE queue[k + 1] \in gone
  <2>1. Retain(d, queue[k + 1], gone) = d
    BY <1>2 DEF Retain
  <2>2. f \in [1 .. Len(d) -> 1 .. k + 1]
    BY <1>1
  <2>3. PartOf(d, queue, k + 1)
    BY <1>1, <2>2 DEF PartOf
  <2>4. Len(d) <= k + 1 /\ Len(d) < k + 1
    BY <1>0
  <2> QED
    BY <2>1, <2>3, <2>4 DEF LeftOf
<1>3. CASE queue[k + 1] \notin gone
  <2> DEFINE e == Append(d, queue[k + 1])
             g == [i \in 1 .. Len(d) + 1 |-> IF i = Len(d) + 1 THEN k + 1 ELSE f[i]]
  <2>1. Retain(d, queue[k + 1], gone) = e
    BY <1>3 DEF Retain
  <2>2. /\ e \in Seq(Work) /\ Len(e) = Len(d) + 1 /\ e[Len(d) + 1] = queue[k + 1]
        /\ \A i \in 1 .. Len(d): e[i] = d[i]
    BY <1>0
  <2>3. \A i \in 1 .. Len(d) + 1: i # Len(d) + 1 => i \in 1 .. Len(d)
    BY <1>0
  <2>4. /\ \A i \in 1 .. Len(d): g[i] = f[i] /\ f[i] \in 1 .. k /\ f[i] # k + 1
        /\ g[Len(d) + 1] = k + 1
    <3>1. \A i \in 1 .. Len(d): i \in 1 .. Len(d) + 1 /\ i # Len(d) + 1
      BY <1>0
    <3>2. \A i \in 1 .. Len(d): f[i] \in 1 .. k
      BY <1>1
    <3>3. \A i \in 1 .. k: i # k + 1
      OBVIOUS
    <3>4. Len(d) + 1 \in 1 .. Len(d) + 1
      BY <1>0
    <3> QED
      BY <3>1, <3>2, <3>3, <3>4
  <2>5. g \in [1 .. Len(e) -> 1 .. k + 1]
    <3>1. \A i \in 1 .. Len(d) + 1: g[i] \in 1 .. k + 1
      BY <2>3, <2>4
    <3> QED
      BY <2>2, <3>1
  <2> HIDE DEF e, g
  <2>6. \A i \in 1 .. Len(e): e[i] = queue[g[i]]
    BY <1>1, <2>2, <2>3, <2>4
  <2>7. \A i, j \in 1 .. Len(e): g[i] = g[j] => i = j
    BY <1>1, <2>2, <2>3, <2>4
  <2>8. PartOf(e, queue, k + 1)
    BY <2>5, <2>6, <2>7 DEF PartOf
  <2>9. \A i \in 1 .. Len(e): e[i] \notin gone
    BY <1>3, <2>2, <2>3 DEF LeftOf
  <2>10. (\E i \in 1 .. k + 1: queue[i] \in gone) => Len(e) < k + 1
    <3> SUFFICES ASSUME NEW i \in 1 .. k + 1, queue[i] \in gone
                 PROVE  Len(e) < k + 1
      OBVIOUS
    <3>1. i \in 1 .. k
      BY <1>3
    <3>2. Len(d) < k
      BY <3>1 DEF LeftOf
    <3> QED
      BY <1>0, <2>2, <3>2
  <2>11. Len(e) <= k + 1
    BY <1>0, <2>2
  <2> QED
    BY <2>1, <2>2, <2>8, <2>9, <2>10, <2>11 DEF LeftOf
<1> QED
  BY <1>2, <1>3

\* Without leaves out what is gone, keeps the rest in places of their own, and adds nothing.
LEMMA WithoutLeft ==
    ASSUME NEW queue \in Seq(Work), NEW gone
    PROVE  LeftOf(Without(queue, gone), queue, gone, Len(queue))
<1>1. PICK g: Solves(g, queue, gone, Len(queue)) /\ Without(queue, gone) = g[1 .. Len(queue)]
  BY WithoutFolds
<1> DEFINE T == {k \in Nat: k <= Len(queue) => LeftOf(g[1 .. k], queue, gone, k)}
<1>2. 0 \in T
  <2>1. 1 .. 0 = {} /\ 1 .. 0 \in SUBSET (1 .. Len(queue))
    OBVIOUS
  <2>2. g[1 .. 0] = <<>>
    BY <1>1, <2>1 DEF Solves, Fold
  <2>3. <<>> \in Seq(Work) /\ Len(<<>>) = 0
    OBVIOUS
  <2>4. PartOf(<<>>, queue, 0)
    <3> DEFINE f == [i \in 1 .. 0 |-> i]
    <3>1. f \in [1 .. Len(<<>>) -> 1 .. 0]
      BY <2>3
    <3> HIDE DEF f
    <3> QED
      BY <2>1, <2>3, <3>1 DEF PartOf
  <2>5. LeftOf(<<>>, queue, gone, 0)
    BY <2>1, <2>3, <2>4 DEF LeftOf
  <2> QED
    BY <2>2, <2>5
<1>3. ASSUME NEW k \in Nat, k \in T
      PROVE  k + 1 \in T
  <2> SUFFICES ASSUME k + 1 <= Len(queue)
               PROVE  LeftOf(g[1 .. k + 1], queue, gone, k + 1)
    OBVIOUS
  <2>1. LeftOf(g[1 .. k], queue, gone, k)
    BY <1>3
  <2>2. /\ 1 .. k + 1 \in SUBSET (1 .. Len(queue)) /\ 1 .. k + 1 # {} /\ k + 1 \in 1 .. k + 1
        /\ (1 .. k + 1) \ {k + 1} = 1 .. k
    <3>1. k + 1 \in 1 .. Len(queue) /\ Len(queue) \in Nat
      OBVIOUS
    <3>2. k + 1 \in 1 .. k + 1
      OBVIOUS
    <3>3. 1 .. k + 1 \in SUBSET (1 .. Len(queue))
      BY <3>1
    <3>4. (1 .. k + 1) \ {k + 1} = 1 .. k
      OBVIOUS
    <3> QED
      BY <3>2, <3>3, <3>4
  <2>3. Max(1 .. k + 1) = k + 1
    BY <2>2, MaxOfRange
  <2>4. g[1 .. k + 1] = Retain(g[1 .. k], queue[k + 1], gone)
    BY <1>1, <2>2, <2>3 DEF Solves, Fold
  <2>5. LeftOf(Retain(g[1 .. k], queue[k + 1], gone), queue, gone, k + 1)
    BY <2>1, RetainLeft
  <2> QED
    BY <2>4, <2>5
<1>4. Nat \subseteq T
  <2> HIDE DEF T
  <2> QED
    BY <1>2, <1>3, NatSetInduction
<1> QED
  BY <1>1, <1>4

\* What that says about the queue's items.
LEMMA WithoutKeeps ==
    ASSUME NEW queue \in Seq(Work), NEW gone
    PROVE  /\ Without(queue, gone) \in Seq(Work)
           /\ Len(Without(queue, gone)) <= Len(queue)
           /\ Range(Without(queue, gone)) \subseteq Range(queue) \ gone
           /\ Range(queue) \cap gone # {} => Len(Without(queue, gone)) < Len(queue)
<1> DEFINE d == Without(queue, gone)
<1>1. LeftOf(d, queue, gone, Len(queue))
  BY WithoutLeft
<1> HIDE DEF d
<1>2. PICK f \in [1 .. Len(d) -> 1 .. Len(queue)]: \A i \in 1 .. Len(d): d[i] = queue[f[i]]
  BY <1>1 DEF LeftOf, PartOf
<1>3. Range(d) \subseteq Range(queue) \ gone
  BY <1>1, <1>2 DEF LeftOf, Range
<1>4. Range(queue) \cap gone # {} => Len(d) < Len(queue)
  BY <1>1 DEF LeftOf, Range
<1> QED
  BY <1>1, <1>3, <1>4 DEF LeftOf, d

----------------------------------------------------------------------------
(* The scheduler.                                                           *)

\* OneCurrentFrame for a queue and a clock.
Current(queue, c) ==
    \A i, j \in 1 .. Len(queue):
        Kind[queue[i]] \in Visual =>
            /\ Address[queue[i]] = c
            /\ Kind[queue[i]] = Kind[queue[j]] => i = j

\* Leaving items out keeps the frames current,
LEMMA LeftCurrent ==
    ASSUME NEW queue \in Seq(Work), NEW gone, NEW c, Current(queue, c)
    PROVE  Current(Without(queue, gone), c)
<1> DEFINE d == Without(queue, gone)
<1>1. LeftOf(d, queue, gone, Len(queue))
  BY WithoutLeft
<1> HIDE DEF d
<1>2. PICK f \in [1 .. Len(d) -> 1 .. Len(queue)]:
         /\ \A i \in 1 .. Len(d): d[i] = queue[f[i]]
         /\ \A i, j \in 1 .. Len(d): f[i] = f[j] => i = j
  BY <1>1 DEF LeftOf, PartOf
<1>3. Current(d, c)
  <2> SUFFICES ASSUME NEW i \in 1 .. Len(d), NEW j \in 1 .. Len(d), Kind[d[i]] \in Visual
               PROVE  Address[d[i]] = c /\ (Kind[d[i]] = Kind[d[j]] => i = j)
    BY DEF Current
  <2>1. /\ f[i] \in 1 .. Len(queue) /\ f[j] \in 1 .. Len(queue)
        /\ d[i] = queue[f[i]] /\ d[j] = queue[f[j]]
    BY <1>2
  <2>2. Address[queue[f[i]]] = c /\ (Kind[queue[f[i]]] = Kind[queue[f[j]]] => f[i] = f[j])
    BY <2>1 DEF Current
  <2> QED
    BY <1>2, <2>1, <2>2
<1> QED
  BY <1>3 DEF d

\* and with the stale ones left out, of a later clock as well.
LEMMA LaterCurrent ==
    ASSUME NEW queue \in Seq(Work), NEW gone, NEW c \in Nat, NEW e \in Nat, c <= e, Current(queue, c),
           \A w \in Range(queue): Stale(w, e) => w \in gone
    PROVE  Current(Without(queue, gone), e)
<1> DEFINE d == Without(queue, gone)
<1>1. /\ Current(d, c) /\ d \in Seq(Work) /\ Range(d) \subseteq Range(queue) \ gone
  BY LeftCurrent, WithoutKeeps
<1> HIDE DEF d
<1>2. ASSUME NEW i \in 1 .. Len(d), Kind[d[i]] \in Visual
      PROVE  Address[d[i]] = e
  <2>1. d[i] \in Range(d) /\ d[i] \in Work
    BY <1>1 DEF Range
  <2>2. ~Stale(d[i], e)
    BY <1>1, <2>1
  <2>3. Address[d[i]] = c
    BY <1>1, <1>2 DEF Current
  <2> QED
    BY <1>2, <2>2, <2>3 DEF Stale
<1> QED
  BY <1>1, <1>2 DEF Current, d

\* An item of the clock's frame may join a queue without its kind.
LEMMA AppendCurrent ==
    ASSUME NEW d \in Seq(Work), NEW c, Current(d, c), NEW w \in Work,
           Kind[w] \in Visual => Address[w] = c /\ \A e \in Range(d): Kind[e] # Kind[w]
    PROVE  /\ Current(Append(d, w), c)
           /\ Append(d, w) \in Seq(Work) /\ Len(Append(d, w)) = Len(d) + 1
           /\ Range(Append(d, w)) \subseteq Range(d) \cup {w}
<1> DEFINE q == Append(d, w)
<1>1. /\ q \in Seq(Work) /\ Len(q) = Len(d) + 1 /\ q[Len(d) + 1] = w
      /\ \A i \in 1 .. Len(d): q[i] = d[i] /\ d[i] \in Range(d)
  BY DEF Range
<1>2. \A i \in 1 .. Len(d) + 1: i = Len(d) + 1 \/ i \in 1 .. Len(d)
  OBVIOUS
<1> HIDE DEF q
<1>3. Current(q, c)
  BY <1>1, <1>2 DEF Current
<1>4. Range(q) \subseteq Range(d) \cup {w}
  <2>1. DOMAIN q = 1 .. Len(d) + 1
    BY <1>1
  <2> QED
    BY <1>1, <1>2, <2>1 DEF Range
<1> QED
  BY <1>1, <1>3, <1>4 DEF q

\* min_by_key finds an item of a queue that is not empty.
LEMMA LowestQueued ==
    ASSUME NEW queue \in Seq(Work), queue # <<>>
    PROVE  Lowest(queue) \in Range(queue)
<1> DEFINE p(i) == Priority[Kind[queue[i]]]
           P == {p(i): i \in DOMAIN queue}
<1>1. \A i \in DOMAIN queue: p(i) \in Nat /\ i \in Nat
  BY WorkAssumption DEF Kinds, Priority
<1>2. 1 \in DOMAIN queue
  OBVIOUS
<1>3. PICK n \in P: \A k \in P: n <= k
  <2>1. P \in SUBSET Nat /\ P # {}
    BY <1>1, <1>2
  <2> HIDE DEF P
  <2> QED
    BY <2>1, LeastNat
<1> DEFINE I == {i \in DOMAIN queue: p(i) = n}
<1>4. PICK i \in I: \A j \in I: i <= j
  <2>1. I \in SUBSET Nat /\ I # {}
    BY <1>1
  <2> HIDE DEF I
  <2> QED
    BY <2>1, LeastNat
<1>5. \A j \in DOMAIN queue: p(i) < p(j) \/ (p(i) = p(j) /\ i <= j)
  <2>1. n \in Nat /\ p(i) = n
    BY <1>1, <1>3, <1>4
  <2>2. \A j \in DOMAIN queue: n <= p(j) /\ (p(j) = n => i <= j)
    BY <1>3, <1>4
  <2> HIDE DEF p
  <2> QED
    BY <1>1, <2>1, <2>2
<1>6. PICK k \in DOMAIN queue: Lowest(queue) = queue[k]
  <2>1. i \in DOMAIN queue
    BY <1>4
  <2> QED
    BY <1>5, <2>1, Zenon DEF Lowest
<1> QED
  BY <1>6 DEF Range

\* The scheduler by itself: a bounded queue whose frames are current.
SchedulerInv == SchedulerTypeOK /\ Current(pending, clock)

\* Current is the property of the scheduler, with its two variables as parameters.
LEMMA CurrentIsOneCurrent == OneCurrentFrame <=> Current(pending, clock)
BY DEF OneCurrentFrame, Current

\* submit keeps the queue bounded and its frames current, whatever it pushes out; only an
\* accepted item joins it.
LEMMA SubmittedKeeps ==
    ASSUME SchedulerInv, NEW w \in Work
    PROVE  /\ Submitted(w).pending \in Seq(Work)
           /\ Len(Submitted(w).pending) <= MaximumPending
           /\ Submitted(w).clock \in Nat
           /\ Current(Submitted(w).pending, Submitted(w).clock)
           /\ Range(Submitted(w).pending)
                \subseteq Queued \cup (IF Submitted(w).accepted THEN {w} ELSE {})
<1> DEFINE others == Without(pending, {w})
           c      == IF Kind[w] \in Visual THEN Address[w] ELSE clock
           kept   == Without(others, Displaced(w, c))
           low    == Lowest(kept)
<1>0. /\ pending \in Seq(Work) /\ Len(pending) <= MaximumPending /\ Len(pending) \in Nat
      /\ clock \in Nat /\ Current(pending, clock)
      /\ MaximumPending \in Nat \ {0} /\ Address[w] \in Nat /\ c \in Nat
  BY WorkAssumption DEF SchedulerInv, SchedulerTypeOK
<1>1. /\ others \in Seq(Work) /\ Len(others) <= Len(pending) /\ Range(others) \subseteq Queued
      /\ Current(others, clock) /\ Len(others) \in Nat
  BY <1>0, WithoutKeeps, LeftCurrent DEF Queued
<1>2. Submitted(w) =
         IF Stale(w, clock) THEN [accepted |-> FALSE, pending |-> others, clock |-> clock]
         ELSE IF Len(kept) < MaximumPending
              THEN [accepted |-> TRUE, pending |-> Append(kept, w), clock |-> c]
         ELSE IF Priority[Kind[w]] > Priority[Kind[low]]
              THEN [accepted |-> TRUE, pending |-> Append(Without(kept, {low}), w), clock |-> c]
         ELSE [accepted |-> FALSE, pending |-> kept, clock |-> c]
  BY DEF Submitted
<1> HIDE DEF others
<1>3. CASE Stale(w, clock)
  BY <1>0, <1>1, <1>2, <1>3
<1>4. CASE ~Stale(w, clock)
  <2>1. clock <= c
    BY <1>0, <1>4 DEF Stale
  <2>2. \A e \in Range(others): Stale(e, c) => e \in Displaced(w, c)
    BY <1>1 DEF Displaced
  <2> HIDE DEF c
  <2>3. /\ kept \in Seq(Work) /\ Len(kept) <= Len(others) /\ Len(kept) \in Nat
        /\ Range(kept) \subseteq Range(others) \ Displaced(w, c)
        /\ Current(kept, c)
    BY <1>0, <1>1, <2>1, <2>2, WithoutKeeps, LaterCurrent
  <2>4. Kind[w] \in Visual => Address[w] = c /\ \A e \in Range(kept): Kind[e] # Kind[w]
    BY <1>1, <2>3 DEF Displaced, c
  <2>5. Range(kept) \subseteq Queued /\ Len(kept) <= MaximumPending
    BY <1>0, <1>1, <2>3
  <2> HIDE DEF kept
  <2>6. CASE Len(kept) < MaximumPending
    <3>1. /\ Current(Append(kept, w), c) /\ Append(kept, w) \in Seq(Work)
          /\ Len(Append(kept, w)) = Len(kept) + 1 /\ Range(Append(kept, w)) \subseteq Range(kept) \cup {w}
      BY <2>3, <2>4, AppendCurrent
    <3>2. Len(Append(kept, w)) <= MaximumPending
      BY <1>0, <2>3, <2>6, <3>1
    <3>3. Submitted(w) = [accepted |-> TRUE, pending |-> Append(kept, w), clock |-> c]
      BY <1>2, <1>4, <2>6
    <3> QED
      BY <1>0, <2>5, <3>1, <3>2, <3>3
  <2>7. CASE ~(Len(kept) < MaximumPending) /\ Priority[Kind[w]] > Priority[Kind[low]]
    <3> DEFINE rest == Without(kept, {low})
    <3>1. kept # <<>>
      BY <1>0, <2>3, <2>7
    <3>2. low \in Range(kept)
      BY <2>3, <3>1, LowestQueued
    <3>3. /\ rest \in Seq(Work) /\ Len(rest) < Len(kept) /\ Len(rest) \in Nat
          /\ Range(rest) \subseteq Range(kept) /\ Current(rest, c)
      <4>1. Range(kept) \cap {low} # {}
        BY <3>2
      <4> HIDE DEF low
      <4> QED
        BY <2>3, <4>1, WithoutKeeps, LeftCurrent
    <3>4. Submitted(w) = [accepted |-> TRUE, pending |-> Append(rest, w), clock |-> c]
      BY <1>2, <1>4, <2>7
    <3> HIDE DEF rest
    <3>5. Kind[w] \in Visual => Address[w] = c /\ \A e \in Range(rest): Kind[e] # Kind[w]
      BY <2>4, <3>3
    <3>6. /\ Current(Append(rest, w), c) /\ Append(rest, w) \in Seq(Work)
          /\ Len(Append(rest, w)) = Len(rest) + 1 /\ Range(Append(rest, w)) \subseteq Range(rest) \cup {w}
      BY <3>3, <3>5, AppendCurrent
    <3>7. Len(Append(rest, w)) <= MaximumPending
      BY <1>0, <2>3, <2>5, <3>3, <3>6
    <3> QED
      BY <1>0, <2>5, <3>3, <3>4, <3>6, <3>7
  <2>8. CASE ~(Len(kept) < MaximumPending) /\ ~(Priority[Kind[w]] > Priority[Kind[low]])
    <3>1. Submitted(w) = [accepted |-> FALSE, pending |-> kept, clock |-> c]
      BY <1>2, <1>4, <2>8
    <3> QED
      BY <1>0, <2>3, <2>5, <3>1
  <2> QED
    BY <2>6, <2>7, <2>8
<1> QED
  BY <1>3, <1>4

----------------------------------------------------------------------------
(* The threads that share the scheduler.                                    *)

\* Where save_local_resource_settings may stand.
Saving == {"planned", "cleared", "emptied"}

\* A presenter under way has a frame.
PresenterInv ==
    /\ presenter \in [Presenters -> {"idle", "advance", "pressure", "submit", "commit", "pop"}]
    /\ frame \in [Presenters -> Frames \cup {None}]
    /\ \A x \in Presenters: presenter[x] # "idle" => frame[x] \in Frames

\* What a step does to the presenters: one of them begins, moves on or ends.
LEMMA PresenterStep ==
    ASSUME PresenterInv, [Next]_vars
    PROVE  PresenterInv'
<1>1. CASE UNCHANGED presenterVars
  BY <1>1 DEF PresenterInv, presenterVars
<1>2. ASSUME NEW x \in Presenters, NEW w \in Frames, Present(x, w)
      PROVE  PresenterInv'
  BY <1>2 DEF Present, PresenterInv
<1>3. ASSUME NEW x \in Presenters, NEW where \in {"idle", "pressure", "submit", "commit", "pop"},
             presenter[x] # "idle", GoTo(x, where)
      PROVE  PresenterInv'
  BY <1>3 DEF GoTo, PresenterInv
<1>4. ASSUME NEW x \in Presenters, GivesUp(x) \/ SubmitCheck(x) \/ SubmitCommit(x)
      PROVE  PresenterInv'
  <2>1. \E where \in {"idle", "pressure", "submit", "commit", "pop"}:
           presenter[x] # "idle" /\ GoTo(x, where)
    BY <1>4 DEF GivesUp, SubmitCheck, SubmitCommit
  <2> QED
    BY <1>3, <2>1
<1>5. ASSUME NEW x \in Presenters, NEW late, \/ Advance(x, late) \/ Pop(x, late)
                                             \/ \E level \in Levels: ApplyPressure(x, level, late)
      PROVE  PresenterInv'
  <2>1. \E where \in {"idle", "pressure", "submit", "commit", "pop"}:
           presenter[x] # "idle" /\ GoTo(x, where)
    BY <1>5 DEF Advance, Pop, ApplyPressure
  <2> QED
    BY <1>3, <2>1
<1>6. CASE AdmitCommand \/ SavePlanner \/ MainStep \/ SelectRevokes
  BY <1>1, <1>6 DEF AdmitCommand, SavePlanner, MainStep, AdmitBegin, AdmitDecide, SaveClearsAdmission,
     SaveClearsMetadata, SaveRevokes, SelectRevokes
<1>7. ASSUME NEW p \in Packs, \/ \E kind \in {"Install", "Activate"}: BeginMutation(p, kind)
                              \/ TakeLifecycle(p) \/ MutationStep(p) \/ RemovePack(p)
      PROVE  PresenterInv'
  BY <1>1, <1>7 DEF BeginMutation, TakeLifecycle, MutationStep, ActivateRevokes, ActivateSetup,
     LifecycleWork, LastRevocation, FinishMutation, RemovePack
<1>8. CASE \/ \E t \in Targets \cup {None}: SelectTarget(t)
           \/ \E w \in Work: SubmitOther(w)
           \/ \E kind \in Kinds, late \in SUBSET Queued: PopOther(kind, late)
           \/ UNCHANGED vars
  BY <1>1, <1>8 DEF SelectTarget, SubmitOther, PopOther, vars
<1> QED
  BY <1>2, <1>4, <1>5, <1>6, <1>7, <1>8 DEF Next

\* Every item of the queue was submitted to the planner that is in place.
QueueHasPlanner == planner = "unavailable" => pending = <<>>

\* The invariant of the queue and of what is kept beside it.
QueueInv == SchedulerInv /\ metadata \subseteq Frames /\ QueueHasPlanner /\ FramesHaveMetadata

\* A step of the queue that leaves items out, and with them at most their metadata.
Drops(gone) ==
    /\ pending' = Without(pending, gone) /\ clock' = clock
    /\ metadata' \subseteq metadata /\ metadata \ gone \subseteq metadata'
    /\ planner # "unavailable" /\ planner' # "unavailable"
    /\ main' \notin Saving => main \notin Saving

\* Such a step keeps the invariant: nothing that stays queued loses its metadata.
LEMMA DropsKeeps ==
    ASSUME QueueInv, NEW gone, Drops(gone)
    PROVE  QueueInv'
<1>1. /\ pending \in Seq(Work) /\ Len(pending) <= MaximumPending /\ clock \in Nat
      /\ Current(pending, clock) /\ Len(pending) \in Nat
  BY DEF QueueInv, SchedulerInv, SchedulerTypeOK
<1>2. /\ pending' \in Seq(Work) /\ Len(pending') <= Len(pending) /\ Len(pending') \in Nat
      /\ Queued' \subseteq Queued \ gone /\ Current(pending', clock)
  BY <1>1, WithoutKeeps, LeftCurrent DEF Drops, Queued
<1>3. SchedulerInv'
  <2>1. Len(pending') <= MaximumPending
    BY <1>1, <1>2, WorkAssumption
  <2> QED
    BY <1>1, <1>2, <2>1 DEF SchedulerInv, SchedulerTypeOK, Drops
<1>4. FramesHaveMetadata'
  BY <1>2 DEF FramesHaveMetadata, QueueInv, Drops, Saving
<1> QED
  BY <1>3, <1>4 DEF QueueInv, QueueHasPlanner, Drops

\* An emptied queue needs no metadata.
LEMMA EmptyKeeps ==
    ASSUME QueueInv, pending' = <<>>, clock' \in Nat, metadata' \subseteq Frames
    PROVE  QueueInv'
<1>1. <<>> \in Seq(Work) /\ Len(<<>>) = 0 /\ Range(<<>>) = {}
  BY DEF Range
<1>2. SchedulerInv'
  BY <1>1, WorkAssumption DEF SchedulerInv, SchedulerTypeOK, Current
<1> QED
  BY <1>1, <1>2 DEF QueueInv, QueueHasPlanner, FramesHaveMetadata, Queued

\* revoke_active_loadout_admission leaves nothing queued.
LEMMA RevokeKeeps ==
    ASSUME QueueInv, Revoke
    PROVE  QueueInv'
<1>1. pending' = <<>> /\ clock' \in Nat /\ metadata' \subseteq Frames
  BY DEF Revoke, QueueInv, QueueHasPlanner, SchedulerInv, SchedulerTypeOK
<1> QED
  BY <1>1, EmptyKeeps

\* Steps that touch neither the queue nor the metadata.
LEMMA UntouchedKeeps ==
    ASSUME QueueInv, UNCHANGED <<schedulerVars, planner, metadata>>,
           main' \notin Saving => main \notin Saving
    PROVE  QueueInv'
BY DEF QueueInv, SchedulerInv, SchedulerTypeOK, schedulerVars, QueueHasPlanner, FramesHaveMetadata,
   Queued, Saving, Current

\* advance_visual_clock: what is not dropped shows the new frame.
LEMMA AdvanceKeeps ==
    ASSUME QueueInv, PresenterInv, NEW x \in Presenters, NEW late, Advance(x, late)
    PROVE  QueueInv'
<1> DEFINE e == Address[frame[x]]
           gone == Overtaken(e, late)
<1>1. /\ pending \in Seq(Work) /\ Len(pending) <= MaximumPending /\ clock \in Nat
      /\ Current(pending, clock) /\ Len(pending) \in Nat
  BY DEF QueueInv, SchedulerInv, SchedulerTypeOK
<1>2. /\ e \in Nat /\ clock <= e /\ clock' = e
      /\ pending' = Without(pending, gone) /\ metadata' = metadata \ gone
      /\ planner # "unavailable" /\ planner' = planner /\ main' = main
  <2>1. frame[x] \in Work
    BY DEF Advance, PresenterInv, Frames
  <2> QED
    BY <1>1, <2>1, WorkAssumption DEF Advance, commandVars
<1>3. \A w \in Range(pending): Stale(w, e) => w \in gone
  BY DEF Overtaken, Queued
<1> HIDE DEF gone, e
<1>4. /\ pending' \in Seq(Work) /\ Len(pending') <= Len(pending) /\ Len(pending') \in Nat
      /\ Range(pending') \subseteq Range(pending) \ gone
      /\ Current(pending', e)
  BY <1>1, <1>2, <1>3, WithoutKeeps, LaterCurrent
<1>5. SchedulerInv'
  <2>1. Len(pending') <= MaximumPending
    BY <1>1, <1>4, WorkAssumption
  <2> QED
    BY <1>2, <1>4, <2>1 DEF SchedulerInv, SchedulerTypeOK
<1>6. FramesHaveMetadata'
  BY <1>2, <1>4 DEF FramesHaveMetadata, QueueInv, Queued
<1> QED
  BY <1>2, <1>5, <1>6 DEF QueueInv, QueueHasPlanner

\* submit, by a presenter or by another runtime.
LEMMA SubmitKeeps ==
    ASSUME QueueInv, NEW w \in Work,
           pending' = Submitted(w).pending, clock' = Submitted(w).clock,
           metadata' \subseteq Frames,
           \A e \in Frames: e \in metadata /\ e \in Queued' => e \in metadata',
           w \in Frames /\ Submitted(w).accepted => w \in metadata',
           planner # "unavailable", UNCHANGED <<planner, main>>
    PROVE  QueueInv'
<1>1. /\ Submitted(w).pending \in Seq(Work)
      /\ Len(Submitted(w).pending) <= MaximumPending
      /\ Submitted(w).clock \in Nat
      /\ Current(Submitted(w).pending, Submitted(w).clock)
      /\ Range(Submitted(w).pending)
           \subseteq Queued \cup (IF Submitted(w).accepted THEN {w} ELSE {})
  BY SubmittedKeeps DEF QueueInv
<1>2. SchedulerInv'
  BY <1>1 DEF SchedulerInv, SchedulerTypeOK
<1>3. FramesHaveMetadata'
  <2> SUFFICES ASSUME main \notin {"planned", "cleared", "emptied"}, NEW e \in Frames, e \in Queued'
               PROVE  e \in metadata'
    BY DEF FramesHaveMetadata
  <2>1. e \in Queued \/ (e = w /\ Submitted(w).accepted)
    BY <1>1 DEF Queued
  <2>2. e \in Queued => e \in metadata
    BY DEF QueueInv, FramesHaveMetadata
  <2> QED
    BY <2>1, <2>2
<1> QED
  BY <1>2, <1>3 DEF QueueInv, QueueHasPlanner

\* Every step keeps the queue bounded, its frames current and dispatchable.
LEMMA QueueStep ==
    ASSUME QueueInv, PresenterInv, [Next]_vars
    PROVE  QueueInv'
<1>0. metadata \subseteq Frames /\ clock \in Nat
  BY DEF QueueInv, SchedulerInv, SchedulerTypeOK
<1>1. CASE UNCHANGED <<schedulerVars, planner, metadata>> /\ (main' \notin Saving => main \notin Saving)
  BY <1>1, UntouchedKeeps
<1>2. CASE AdmitCommand \/ AdmitBegin \/ SaveClearsAdmission \/ UNCHANGED vars
  BY <1>1, <1>2
  DEF AdmitCommand, AdmitBegin, SaveClearsAdmission, Saving, vars, commandVars, schedulerVars
<1>3. ASSUME NEW t \in Targets \cup {None}, SelectTarget(t)
      PROVE  QueueInv'
  BY <1>1, <1>3 DEF SelectTarget
<1>4. CASE SavePlanner
  BY <1>0, <1>4, EmptyKeeps DEF SavePlanner
<1>5. CASE SaveClearsMetadata
  BY <1>5 DEF SaveClearsMetadata, QueueInv, SchedulerInv, SchedulerTypeOK, schedulerVars, Current,
     QueueHasPlanner, FramesHaveMetadata
<1>6. CASE SaveRevokes \/ SelectRevokes
  BY <1>6, RevokeKeeps DEF SaveRevokes, SelectRevokes
<1>7. ASSUME NEW level \in Levels, NEW late \in SUBSET Queued, AdmitDecide(level, late)
      PROVE  QueueInv'
  <2>1. main = "admitting" /\ main' = "idle" /\ clock' = clock
    BY <1>7 DEF AdmitDecide
  <2>2. CASE UNCHANGED <<pending, planner, metadata>>
    BY <1>1, <2>1, <2>2 DEF schedulerVars, Saving
  <2>3. CASE /\ planner # "unavailable" /\ planner' = "measured" /\ UNCHANGED metadata
             /\ pending' = Without(pending, Shed(level, late))
    <3>1. Drops(Shed(level, late))
      BY <2>1, <2>3 DEF Drops, Saving
    <3> QED
      BY <3>1, DropsKeeps
  <2>4. CASE pending' = <<>> /\ metadata' = {}
    BY <1>0, <2>1, <2>4, EmptyKeeps
  <2> QED
    BY <1>7, <2>2, <2>3, <2>4 DEF AdmitDecide
<1>8. ASSUME NEW p \in Packs,
             \/ \E kind \in {"Install", "Activate"}: BeginMutation(p, kind)
             \/ TakeLifecycle(p) \/ RemovePack(p) \/ ActivateSetup(p) \/ LifecycleWork(p)
             \/ FinishMutation(p)
      PROVE  QueueInv'
  BY <1>1, <1>8
  DEF BeginMutation, TakeLifecycle, RemovePack, ActivateSetup, LifecycleWork, FinishMutation,
      commandVars
<1>9. ASSUME NEW p \in Packs, ActivateRevokes(p) \/ LastRevocation(p)
      PROVE  QueueInv'
  BY <1>9, RevokeKeeps DEF ActivateRevokes, LastRevocation
<1>10. ASSUME NEW x \in Presenters, \/ \E w \in Frames: Present(x, w)
                                    \/ GivesUp(x) \/ SubmitCheck(x)
       PROVE  QueueInv'
  BY <1>1, <1>10 DEF Present, GivesUp, SubmitCheck, commandVars
<1>11. ASSUME NEW x \in Presenters, SubmitCommit(x)
       PROVE  QueueInv'
  <2>1. PICK w \in Frames: w = frame[x]
    BY <1>11 DEF SubmitCommit, PresenterInv
  <2>2. w \in Work
    BY DEF Frames
  <2>3. /\ pending' = Submitted(w).pending /\ clock' = Submitted(w).clock
        /\ metadata' = (metadata \ (Queued \ Range(Submitted(w).pending)))
                         \cup (IF Submitted(w).accepted THEN {w} ELSE {})
        /\ planner # "unavailable" /\ UNCHANGED <<planner, main>>
    BY <1>11, <2>1 DEF SubmitCommit, commandVars
  <2>4. metadata' \subseteq Frames
    BY <1>0, <2>3
  <2>5. \A e \in Frames: e \in metadata /\ e \in Queued' => e \in metadata'
    BY <2>3 DEF Queued
  <2>6. Submitted(w).accepted => w \in metadata'
    BY <2>3
  <2> QED
    BY <2>2, <2>3, <2>4, <2>5, <2>6, SubmitKeeps
<1>12. ASSUME NEW x \in Presenters, NEW late, Advance(x, late)
       PROVE  QueueInv'
  BY <1>12, AdvanceKeeps
<1>13. ASSUME NEW x \in Presenters, NEW late, NEW level \in Levels, ApplyPressure(x, level, late)
       PROVE  QueueInv'
  <2>1. PICK gone: /\ pending' = Without(pending, gone) /\ metadata' = metadata \ gone
                   /\ planner # "unavailable" /\ UNCHANGED <<clock, planner, main>>
    BY <1>13 DEF ApplyPressure, commandVars
  <2>2. Drops(gone)
    BY <2>1 DEF Drops
  <2> QED
    BY <2>2, DropsKeeps
<1>14. ASSUME NEW x \in Presenters, NEW late, Pop(x, late)
       PROVE  QueueInv'
  <2>1. PICK gone, popped, cancel:
           /\ pending' = Without(pending, gone \cup cancel)
           /\ metadata' = metadata \ (popped \cup cancel)
           /\ popped \subseteq gone
           /\ planner # "unavailable" /\ UNCHANGED <<clock, planner, main>>
    <3> DEFINE ready  == Poppable("LipSync", late)
               popped == IF ready = <<>> THEN {} ELSE {Head(ready)}
               mine   == popped = {frame[x]} /\ frame[x] \in metadata
               gone   == (Queued \cap late) \cup popped
               cancel == IF mine THEN {} ELSE (Queued \ gone) \cap {frame[x]}
    <3>1. /\ pending' = Without(pending, gone \cup cancel)
          /\ metadata' = metadata \ (popped \cup cancel)
          /\ planner # "unavailable" /\ UNCHANGED <<clock, planner, main>>
      BY <1>14 DEF Pop, commandVars
    <3>2. popped \subseteq gone
      OBVIOUS
    <3> HIDE DEF popped, gone, cancel
    <3> QED
      BY <3>1, <3>2
  <2>2. Drops(gone \cup cancel)
    BY <2>1 DEF Drops
  <2> QED
    BY <2>2, DropsKeeps
<1>15. ASSUME NEW w \in Work, SubmitOther(w)
       PROVE  QueueInv'
  <2>1. /\ pending' = Submitted(w).pending /\ clock' = Submitted(w).clock
        /\ w \notin Frames /\ planner # "unavailable" /\ UNCHANGED <<planner, main, metadata>>
    BY <1>15 DEF SubmitOther, commandVars
  <2> QED
    BY <1>0, <2>1, SubmitKeeps
<1>16. ASSUME NEW kind \in Kinds, NEW late \in SUBSET Queued, PopOther(kind, late)
       PROVE  QueueInv'
  <2>1. PICK gone: /\ pending' = Without(pending, gone)
                   /\ planner # "unavailable" /\ UNCHANGED <<clock, planner, main, metadata>>
    BY <1>16 DEF PopOther, commandVars
  <2>2. Drops(gone)
    BY <2>1 DEF Drops
  <2> QED
    BY <2>2, DropsKeeps
<1> QED
  BY <1>2, <1>3, <1>4, <1>5, <1>6, <1>7, <1>8, <1>9, <1>10, <1>11, <1>12, <1>13, <1>14, <1>15, <1>16
  DEF Next, MainStep, MutationStep

\* The invariant of the queue holds in every behaviour.
LEMMA QueueInvariant == Spec => [](QueueInv /\ PresenterInv)
<1>1. Init => QueueInv /\ PresenterInv
  <2> SUFFICES ASSUME Init
               PROVE  QueueInv /\ PresenterInv
    OBVIOUS
  <2>1. <<>> \in Seq(Work) /\ Len(<<>>) = 0 /\ Range(<<>>) = {}
    BY DEF Range
  <2>2. SchedulerInv
    BY <2>1, WorkAssumption DEF Init, SchedulerInv, SchedulerTypeOK, Current
  <2> QED
    BY <2>1, <2>2 DEF Init, QueueInv, QueueHasPlanner, FramesHaveMetadata, Queued, PresenterInv
<1>2. QueueInv /\ PresenterInv /\ [Next]_vars => QueueInv' /\ PresenterInv'
  BY QueueStep, PresenterStep
<1> QED
  BY <1>1, <1>2, PTL DEF Spec

\* The queue holds at most one frame of each visual kind, the one the clock shows, by
\* whichever of submit, advance_visual_clock, apply_pressure, pop_next_kind and a
\* replacement of the planner it was changed (resource_governor.rs).
THEOREM CurrentFrame == Spec => []OneCurrentFrame
<1>1. QueueInv => OneCurrentFrame
  BY CurrentIsOneCurrent DEF QueueInv, SchedulerInv
<1> QED
  BY <1>1, QueueInvariant, PTL

\* A queued frame can always be dispatched: the metadata beside the scheduler follows the
\* queue through every cancellation, revocation and supersession, except while settings
\* are being saved (local_resources.rs, submit_screen_space_lip_sync,
\* revoke_active_loadout_admission and pop_next_screen_space_lip_sync).
THEOREM FramesDispatchable == Spec => []FramesHaveMetadata
<1>1. QueueInv => FramesHaveMetadata
  BY DEF QueueInv
<1> QED
  BY <1>1, QueueInvariant, PTL

\* Every variable keeps its type; in particular the queue never exceeds maximum_pending,
\* by whichever thread it is filled (resource_governor.rs, submit), and the metadata is that
\* of frames only.
THEOREM TypeCorrect == Spec => []TypeOK
<1>1. BarrierInv /\ QueueInv /\ PresenterInv => TypeOK
  BY DEF BarrierInv, ControlTypeOK, QueueInv, SchedulerInv, PresenterInv, TypeOK
<1> QED
  BY <1>1, BarrierInvariant, QueueInvariant, PTL
=============================================================================
