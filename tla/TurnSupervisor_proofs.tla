----------------------- MODULE TurnSupervisor_proofs ------------------------
(***************************************************************************)
(* What start_gate, `current' and the generation together guarantee, for   *)
(* any number of turns and with or without resource admission.             *)
(***************************************************************************)
EXTENDS TurnSupervisor, TLAPS

InGate(c) == call[c] \in {"stopping", "proceed"}

\* Only the holder of start_gate is past it, and while it is there nobody is
\* in the foreground.
GateInv ==
    \A c \in Callers : InGate(c) => gate = c /\ current = NoTurn

\* The turn in `current' has the newest generation.
CurrentInv ==
    current # NoTurn => gen[current] = generation

\* The shutdown flag is set before shutdown waits for the gate, and from then on
\* only the calls that were already past the check go on.
ShutdownInv ==
    /\ call[Shutdown] # "idle" => shuttingDown
    /\ shuttingDown => \A t \in Turns : call[t] = "gate" \/ InGate(t) => t \in raced
    /\ call[Shutdown] \in {"stopping", "proceed", "done"} =>
         \A t \in Turns : Active(t) /\ ~token[t] => t \in raced

\* The inductive invariant.
IInv ==
    /\ TypeOK
    /\ GateInv
    /\ CurrentInv
    /\ UncancelledTurnIsCurrent
    /\ LeaseHolderIsActive
    /\ ShutdownInv

-----------------------------------------------------------------------------
(* Type correctness. *)

LEMMA CallersFacts ==
    /\ Turns \subseteq Callers /\ Barge \in Callers /\ Shutdown \in Callers
    /\ NoTurn \notin Callers
BY TurnsAssumption, CallersDiffer DEF Callers

\* The steps of the callers keep the types.
LEMMA CallerStepType ==
    ASSUME TypeOK,
           \/ CallBargeIn \/ CallShutdown
           \/ \E c \in Callers : EnterGate(c) \/ StopReturns(c) \/ LeaveGate(c)
           \/ \E t \in Turns : CallStartTurn(t) \/ StartStep(t)
    PROVE  TypeOK'
<1> USE CallersFacts DEF TypeOK, turnVars, callVars, CallStates, Phases
<1>1. CASE CallBargeIn
  BY <1>1 DEF CallBargeIn
<1>2. CASE CallShutdown
  BY <1>2 DEF CallShutdown
<1>3. ASSUME NEW c \in Callers, EnterGate(c)
      PROVE  TypeOK'
  <2>1. call' \in [Callers -> CallStates] /\ gate' \in Callers \cup {NoTurn}
    BY <1>3 DEF EnterGate
  <2>2. current' \in Turns \cup {NoTurn} /\ token' \in [Turns -> BOOLEAN]
    BY <1>3 DEF EnterGate
  <2>3. jobCancelled' \in [Turns -> BOOLEAN]
    BY <1>3 DEF EnterGate, CancelJob
  <2> QED
    BY <1>3, <2>1, <2>2, <2>3 DEF EnterGate
<1>4. ASSUME NEW c \in Callers, StopReturns(c)
      PROVE  TypeOK'
  BY <1>4 DEF StopReturns
<1>5. ASSUME NEW c \in Callers, LeaveGate(c)
      PROVE  TypeOK'
  BY <1>5 DEF LeaveGate
<1>6. ASSUME NEW t \in Turns, CallStartTurn(t)
      PROVE  TypeOK'
  BY <1>6 DEF CallStartTurn
<1>7. ASSUME NEW t \in Turns, StartStep(t)
      PROVE  TypeOK'
  BY <1>7 DEF StartStep, StartAdmitted, StartRejected, Goto
<1> QED
  BY <1>1, <1>2, <1>3, <1>4, <1>5, <1>6, <1>7

\* The steps of a turn's task and the cancellations keep the types.
LEMMA TaskStepType ==
    ASSUME TypeOK, NEW t \in Turns,
           HandleCancel(t) \/ BrokerCancel(t) \/ Bridge(t) \/ TaskStep(t)
    PROVE  TypeOK'
<1> USE DEF TypeOK, turnVars, callVars, Phases, TaskUnchanged, Goto, Return
<1>1. CASE HandleCancel(t)
  BY <1>1 DEF HandleCancel, CancelJob
<1>2. CASE BrokerCancel(t)
  BY <1>2 DEF BrokerCancel, CancelJob
<1>3. CASE Bridge(t)
  BY <1>3 DEF Bridge
<1>4. CASE Prepare(t)
  BY <1>4 DEF Prepare
<1>5. CASE LanesDone(t)
  BY <1>5 DEF LanesDone
<1>6. CASE LanesCancelled(t) \/ LanesInterrupted(t) \/ LanesFail(t)
  BY <1>6 DEF LanesCancelled, LanesInterrupted, LanesFail
<1>7. CASE CommitCheck(t)
  BY <1>7 DEF CommitCheck
<1>8. CASE Store(t)
  BY <1>8 DEF Store
<1>9. CASE AfterCommit(t)
  BY <1>9 DEF AfterCommit
<1>10. CASE Settle(t)
  BY <1>10 DEF Settle
<1>11. CASE ClearIfCurrent(t)
  BY <1>11 DEF ClearIfCurrent
<1> QED
  BY <1>1, <1>2, <1>3, <1>4, <1>5, <1>6, <1>7, <1>8, <1>9, <1>10, <1>11 DEF TaskStep

-----------------------------------------------------------------------------
(* The inductive invariant. *)

\* A caller moves towards the gate, through it, or out of it.
LEMMA CallerStepInv ==
    ASSUME IInv, TypeOK',
           \/ CallBargeIn \/ CallShutdown
           \/ \E c \in Callers : EnterGate(c) \/ StopReturns(c) \/ LeaveGate(c)
           \/ \E t \in Turns : CallStartTurn(t) \/ StartStep(t)
    PROVE  IInv'
<1> USE CallersFacts, CallersDiffer, TurnsAssumption
    DEF IInv, TypeOK, GateInv, CurrentInv, UncancelledTurnIsCurrent, LeaseHolderIsActive,
        ShutdownInv, InGate, Active, turnVars, callVars, CallStates
<1>1. CASE CallBargeIn
  BY <1>1 DEF CallBargeIn
<1>2. CASE CallShutdown
  BY <1>2 DEF CallShutdown
<1>3. ASSUME NEW c \in Callers, EnterGate(c)
      PROVE  IInv'
  BY <1>3 DEF EnterGate
<1>4. ASSUME NEW c \in Callers, StopReturns(c)
      PROVE  IInv'
  BY <1>4 DEF StopReturns
<1>5. ASSUME NEW c \in Callers, LeaveGate(c)
      PROVE  IInv'
  BY <1>5 DEF LeaveGate
<1>6. ASSUME NEW t \in Turns, CallStartTurn(t)
      PROVE  IInv'
  BY <1>6 DEF CallStartTurn
<1>7. ASSUME NEW t \in Turns, StartAdmitted(t)
      PROVE  IInv'
  BY <1>7 DEF StartAdmitted, Goto
<1>8. ASSUME NEW t \in Turns, StartRejected(t)
      PROVE  IInv'
  BY <1>8 DEF StartRejected
<1> QED
  BY <1>1, <1>2, <1>3, <1>4, <1>5, <1>6, <1>7, <1>8 DEF StartStep

\* A cancellation or a step of a task that neither spawns nor ends a turn.
LEMMA TaskStepInv ==
    ASSUME IInv, TypeOK', NEW t \in Turns,
           HandleCancel(t) \/ BrokerCancel(t) \/ Bridge(t) \/ TaskStep(t)
    PROVE  IInv'
<1> USE CallersFacts, CallersDiffer, TurnsAssumption
    DEF IInv, TypeOK, GateInv, CurrentInv, UncancelledTurnIsCurrent, LeaseHolderIsActive,
        ShutdownInv, InGate, Active, turnVars, callVars
<1>1. CASE HandleCancel(t)
  BY <1>1 DEF HandleCancel
<1>2. CASE BrokerCancel(t)
  BY <1>2 DEF BrokerCancel
<1>3. CASE Bridge(t)
  BY <1>3 DEF Bridge
<1>4. ASSUME TaskUnchanged,
             NEW p \in {"responding", "committing", "storing", "stored", "settling"}, Goto(t, p),
             task[t] \in {"preparing", "responding", "committing", "storing", "stored"}
      PROVE  IInv'
  BY <1>4 DEF TaskUnchanged, Goto
<1>5. CASE Prepare(t) \/ LanesDone(t) \/ LanesCancelled(t) \/ LanesInterrupted(t) \/ LanesFail(t)
  BY <1>4, <1>5 DEF Prepare, LanesDone, LanesCancelled, LanesInterrupted, LanesFail, Return
<1>6. CASE CommitCheck(t) \/ Store(t) \/ AfterCommit(t)
  BY <1>4, <1>6 DEF CommitCheck, Store, AfterCommit, Return
<1>7. CASE Settle(t)
  BY <1>7 DEF Settle, Goto
<1>8. CASE ClearIfCurrent(t)
  BY <1>8 DEF ClearIfCurrent, Goto
<1> QED
  BY <1>1, <1>2, <1>3, <1>5, <1>6, <1>7, <1>8 DEF TaskStep

\* The supervisor keeps the inductive invariant.
THEOREM Invariance == Spec => []IInv
<1>1. Init => IInv
  <2> SUFFICES ASSUME Init
               PROVE  IInv
    OBVIOUS
  <2>1. TypeOK
    <3>1. call \in [Callers -> CallStates] /\ task \in [Turns -> Phases]
      BY DEF Init, CallStates, Phases
    <3>2. gen \in [Turns -> Nat] /\ generation \in Nat
      BY DEF Init
    <3>3. /\ token \in [Turns -> BOOLEAN] /\ jobCancelled \in [Turns -> BOOLEAN]
          /\ shuttingDown \in BOOLEAN
      BY DEF Init
    <3>4. /\ result \in [Turns -> {"none", "ok", "cancelled", "failed"}]
          /\ outcome \in [Turns -> {"none", "Completed", "Cancelled", "Failed"}]
      BY DEF Init
    <3> QED
      BY <3>1, <3>2, <3>3, <3>4 DEF Init, TypeOK
  <2>2. GateInv /\ CurrentInv /\ LeaseHolderIsActive
    BY DEF Init, GateInv, CurrentInv, LeaseHolderIsActive, InGate
  <2>3. UncancelledTurnIsCurrent /\ ShutdownInv
    BY CallersFacts DEF Init, UncancelledTurnIsCurrent, ShutdownInv, Active
  <2> QED
    BY <2>1, <2>2, <2>3 DEF IInv
<1>2. IInv /\ [Next]_vars => IInv'
  <2> SUFFICES ASSUME IInv, [Next]_vars
               PROVE  IInv'
    OBVIOUS
  <2>1. CASE UNCHANGED vars
    BY <2>1 DEF vars, callVars, turnVars, IInv, TypeOK, GateInv, CurrentInv,
       UncancelledTurnIsCurrent, LeaseHolderIsActive, ShutdownInv, InGate, Active
  <2>2. CASE Next
    <3>1. TypeOK'
      BY <2>2, CallerStepType, TaskStepType DEF IInv, Next
    <3> QED
      BY <2>2, <3>1, CallerStepInv, TaskStepInv DEF Next
  <2> QED
    BY <2>1, <2>2
<1> QED
  BY <1>1, <1>2, PTL DEF Spec

\* Type correctness of the supervisor's state.
THEOREM TypeCorrect == Spec => []TypeOK
<1>1. IInv => TypeOK
  BY DEF IInv
<1> QED
  BY <1>1, Invariance, PTL

\* Whatever runs in the foreground without having been cancelled is the turn that
\* barge_in, shutdown and the next start_turn will find in `current'.
THEOREM ForegroundReachable == Spec => []UncancelledTurnIsCurrent
<1>1. IInv => UncancelledTurnIsCurrent
  BY DEF IInv
<1> QED
  BY <1>1, Invariance, PTL

\* A turn overtaken by a newer generation has its token cancelled, so that the
\* lanes that wait on the token alone are woken.
THEOREM SupersededCancelled == Spec => []SupersededTurnIsCancelled
<1>1. IInv => SupersededTurnIsCancelled
  BY TurnsAssumption DEF IInv, TypeOK, UncancelledTurnIsCurrent, CurrentInv, SupersededTurnIsCancelled
<1> QED
  BY <1>1, Invariance, PTL

\* No lease of the resource broker is held by a turn that has reported its outcome.
THEOREM LeaseNotLeaked == Spec => []LeaseHolderIsActive
<1>1. IInv => LeaseHolderIsActive
  BY DEF IInv
<1> QED
  BY <1>1, Invariance, PTL

\* After shutdown has returned only calls that raced with it can still hold the
\* foreground.
THEOREM ShutdownWins == Spec => []OnlyRacingCallsOutliveShutdown
<1>1. IInv => OnlyRacingCallsOutliveShutdown
  BY DEF IInv, ShutdownInv, OnlyRacingCallsOutliveShutdown
<1> QED
  BY <1>1, Invariance, PTL
=============================================================================
