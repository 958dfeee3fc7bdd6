---------------------- MODULE RuntimeSupervisor_proofs ----------------------
(***************************************************************************)
(* At most one runtime host runs, none is orphaned and the router's slot   *)
(* is not leaked, for any number of concurrent callers and any limit on    *)
(* the failures.  The invariant is carried by the startup gate: a caller   *)
(* between live_client and the end of ensure_ready holds it, and from the  *)
(* moment it found, or made, nothing managed until it installs its own     *)
(* runtime nobody else installs one.                                       *)
(***************************************************************************)
EXTENDS RuntimeSupervisor, FiniteSetTheorems, TLAPS

\* The steps of ensure_ready behind startup_gate.
GateSteps == {"look", "ping", "backoff", "start", "launch", "installed"}

GateHeld == \A c \in Callers: pc[c] \in GateSteps => gate = c

NothingManaged ==
    \A c \in Callers:
        pc[c] \in {"backoff", "start", "launch"} \/ (pc[c] = "count" /\ gate = c)
            => managed = None

StopStage ==
    \A c \in Callers:
        pc[c] \in {"down", "take", "stopping", "maintenance"} => stage[c] = "stop"

IInv == TypeOK /\ GateHeld /\ NothingManaged /\ StopStage /\ NoOrphanedRuntime /\ SlotNotLeaked

----------------------------------------------------------------------------
\* A launch finds an identity that nobody holds.
LEMMA FreshProcess ==
    ASSUME TypeOK, NoOrphanedRuntime
    PROVE  \E q \in Processes: q \notin Held
<1> DEFINE Clients == {client[c] : c \in Callers}
<1>1. client \in Surjection(Callers, Clients)
  BY DEF TypeOK, Surjection
<1>2. IsFiniteSet(Clients) /\ Cardinality(Clients) <= Cardinality(Callers)
  <2> HIDE DEF Clients
  <2> QED
    BY <1>1, CallersAssumption, FS_Surjection
<1>3. /\ IsFiniteSet(Clients \cup {managed})
      /\ Cardinality(Clients \cup {managed}) <= Cardinality(Callers) + 1
      /\ Cardinality(Clients \cup {managed}) \in Nat
  <2> HIDE DEF Clients
  <2>1. Cardinality(Clients) \in Nat /\ Cardinality(Callers) \in Nat
    BY <1>2, CallersAssumption, FS_CardinalityType
  <2> QED
    BY <1>2, <2>1, FS_AddElement, FS_CardinalityType
<1>4. Held \subseteq Clients \cup {managed}
  BY DEF Held, NoOrphanedRuntime, Launching, Stopping
<1> SUFFICES ASSUME Processes \subseteq Held
             PROVE  FALSE
  OBVIOUS
<1>5. Processes \in SUBSET (Clients \cup {managed})
  BY <1>4
<1>6. Cardinality(Processes) <= Cardinality(Clients \cup {managed})
  <2> HIDE DEF Clients
  <2> QED
    BY <1>3, <1>5, FS_Subset
<1>7. Cardinality(Processes) \in Nat /\ Cardinality(Callers) \in Nat
  BY CallersAssumption, FS_CardinalityType
<1> QED
  <2> HIDE DEF Clients
  <2> QED
    BY <1>3, <1>6, <1>7, CallersAssumption

\* Every step keeps the types.
LEMMA TypeInvariance ==
    ASSUME TypeOK, NoOrphanedRuntime, [Next]_vars
    PROVE  TypeOK'
<1> USE DEF TypeOK, GoTo, Forget
<1>1. CASE UNCHANGED vars
  BY <1>1 DEF vars
<1>2. ASSUME NEW p \in Processes, Exit(p) PROVE TypeOK'
  BY <1>2 DEF Exit
<1>3. CASE TimePasses
  BY <1>3 DEF TimePasses
<1>4. ASSUME NEW c \in Callers, NEW s \in Stages, Begin(c, s) PROVE TypeOK'
  BY <1>4 DEF Begin, Steps
<1>5. ASSUME NEW c \in Callers PROVE TakeGate(c) \/ Step(c) => TypeOK'
  <2>0. Over(c) => /\ pc' \in [Callers -> Steps] /\ stage' \in [Callers -> Stages]
                   /\ storage' \in Callers \cup {None} /\ active' \in Callers \cup {None}
                   /\ client' \in [Callers -> Processes \cup {None}]
    BY DEF Over, Steps, Stages
  <2>1. ASSUME NEW p \in Processes \cup {None}, ReturnsClient(c, p)
        PROVE  /\ pc' \in [Callers -> Steps] /\ stage' \in [Callers -> Stages]
               /\ storage' \in Callers \cup {None} /\ active' \in Callers \cup {None}
               /\ client' \in [Callers -> Processes \cup {None}] /\ gate' \in Callers \cup {None}
    BY <2>0, <2>1 DEF ReturnsClient, TurnAccepted, Steps, Stages
  <2>2. CASE TakeGate(c)
    BY <2>2 DEF TakeGate, Steps
  <2>3. CASE EnsureReady(c)
    BY <2>0, <2>3 DEF EnsureReady, ReturnsError, Steps
  <2>4. CASE LiveClient(c)
    BY <2>0, <2>4 DEF LiveClient, ReturnsError, Steps
  <2>5. CASE PingAnswered(c)
    BY <2>1, <2>5 DEF PingAnswered
  <2>6. CASE PingFails(c)
    BY <2>6 DEF PingFails, Steps
  <2>7. CASE ApplyBackoff(c)
    BY <2>0, <2>7 DEF ApplyBackoff, ReturnsError, Steps
  <2>8. CASE Launch(c)
    <3>1. PICK q \in Processes: q = CHOOSE r \in Processes: r \notin Held
      BY FreshProcess
    <3> QED
      BY <2>8, <3>1 DEF Launch, Steps
  <2>9. CASE LaunchSucceeds(c)
    BY <2>9 DEF LaunchSucceeds, Steps
  <2>10. CASE SetReady(c)
    BY <2>1, <2>10 DEF SetReady
  <2>11. CASE LaunchFails(c)
    BY <2>11 DEF LaunchFails, Steps
  <2>12. CASE KillManaged(c)
    BY <2>12 DEF KillManaged, Steps
  <2>13. CASE RecordFailure(c)
    BY <2>0, <2>13 DEF RecordFailure, ReturnsError, Steps
  <2>14. CASE Send(c)
    BY <2>14 DEF Send, Steps
  <2>15. CASE Answered(c)
    BY <2>0, <2>15 DEF Answered
  <2>16. CASE RequestFails(c)
    BY <2>16 DEF RequestFails, Steps
  <2>17. CASE SetShuttingDown(c)
    BY <2>17 DEF SetShuttingDown, Steps
  <2>18. CASE TakeManaged(c)
    BY <2>18 DEF TakeManaged, Steps
  <2>19. CASE Stopped(c)
    BY <2>19 DEF Stopped, Steps
  <2>20. CASE MaintenanceDone(c)
    BY <2>20 DEF MaintenanceDone, Steps, Stages
  <2> QED
    BY <2>2, <2>3, <2>4, <2>5, <2>6, <2>7, <2>8, <2>9, <2>10, <2>11, <2>12, <2>13, <2>14,
       <2>15, <2>16, <2>17, <2>18, <2>19, <2>20 DEF Step
<1> QED
  BY <1>1, <1>2, <1>3, <1>4, <1>5 DEF Next

----------------------------------------------------------------------------
\* Whoever is behind the startup gate holds it, since ensure_ready keeps the guard until
\* it returns.
LEMMA GateInvariance ==
    ASSUME TypeOK, GateHeld, [Next]_vars
    PROVE  GateHeld'
<1> USE DEF TypeOK, GoTo, Forget, GateHeld, GateSteps
<1>1. CASE UNCHANGED vars
  BY <1>1 DEF vars
<1>2. ASSUME NEW p \in Processes, Exit(p) PROVE GateHeld'
  BY <1>2 DEF Exit
<1>3. CASE TimePasses
  BY <1>3 DEF TimePasses
<1>4. ASSUME NEW c \in Callers, NEW s \in Stages, Begin(c, s) PROVE GateHeld'
  BY <1>4 DEF Begin
<1>5. ASSUME NEW c \in Callers PROVE TakeGate(c) \/ Step(c) => GateHeld'
  <2>1. CASE TakeGate(c)
    BY <2>1, CallersAssumption DEF TakeGate
  <2>2. CASE EnsureReady(c)
    BY <2>2 DEF EnsureReady, ReturnsError, Over
  <2>3. CASE LiveClient(c)
    BY <2>3 DEF LiveClient, ReturnsError, Over
  <2>4. CASE PingAnswered(c)
    BY <2>4 DEF PingAnswered, ReturnsClient, TurnAccepted, Over
  <2>5. CASE PingFails(c)
    BY <2>5 DEF PingFails
  <2>6. CASE ApplyBackoff(c)
    BY <2>6 DEF ApplyBackoff, ReturnsError, Over
  <2>7. CASE Launch(c)
    BY <2>7 DEF Launch
  <2>8. CASE LaunchSucceeds(c)
    BY <2>8 DEF LaunchSucceeds
  <2>9. CASE SetReady(c)
    BY <2>9 DEF SetReady, ReturnsClient, TurnAccepted, Over
  <2>10. CASE LaunchFails(c)
    BY <2>10 DEF LaunchFails
  <2>11. CASE KillManaged(c)
    BY <2>11 DEF KillManaged
  <2>12. CASE RecordFailure(c)
    BY <2>12 DEF RecordFailure, ReturnsError, Over
  <2>13. CASE Send(c)
    BY <2>13 DEF Send, Superseded
  <2>14. CASE Answered(c)
    BY <2>14 DEF Answered, Over
  <2>15. CASE RequestFails(c)
    BY <2>15 DEF RequestFails
  <2>16. CASE SetShuttingDown(c)
    BY <2>16 DEF SetShuttingDown
  <2>17. CASE TakeManaged(c)
    BY <2>17 DEF TakeManaged
  <2>18. CASE Stopped(c)
    BY <2>18 DEF Stopped
  <2>19. CASE MaintenanceDone(c)
    BY <2>19 DEF MaintenanceDone
  <2> QED
    BY <2>1, <2>2, <2>3, <2>4, <2>5, <2>6, <2>7, <2>8, <2>9, <2>10, <2>11, <2>12,
       <2>13, <2>14, <2>15, <2>16, <2>17, <2>18, <2>19 DEF Step
<1> QED
  BY <1>1, <1>2, <1>3, <1>4, <1>5 DEF Next

\* Nothing is managed between the look at the managed runtime and the installation of a
\* new one.
LEMMA NothingManagedInvariance ==
    ASSUME TypeOK, GateHeld, NothingManaged, [Next]_vars
    PROVE  NothingManaged'
<1> USE DEF TypeOK, GoTo, Forget, GateHeld, GateSteps, NothingManaged
<1>1. CASE UNCHANGED vars
  BY <1>1 DEF vars
<1>2. ASSUME NEW p \in Processes, Exit(p) PROVE NothingManaged'
  BY <1>2 DEF Exit
<1>3. CASE TimePasses
  BY <1>3 DEF TimePasses
<1>4. ASSUME NEW c \in Callers, NEW s \in Stages, Begin(c, s) PROVE NothingManaged'
  BY <1>4 DEF Begin
<1>5. ASSUME NEW c \in Callers PROVE TakeGate(c) \/ Step(c) => NothingManaged'
  <2>1. CASE TakeGate(c)
    BY <2>1 DEF TakeGate
  <2>2. CASE EnsureReady(c)
    BY <2>2, CallersAssumption DEF EnsureReady, ReturnsError, Over
  <2>3. CASE LiveClient(c)
    BY <2>3, CallersAssumption DEF LiveClient, ReturnsError, Over
  <2>4. CASE PingAnswered(c)
    BY <2>4, CallersAssumption DEF PingAnswered, ReturnsClient, TurnAccepted, Over
  <2>5. CASE PingFails(c)
    BY <2>5 DEF PingFails
  <2>6. CASE ApplyBackoff(c)
    BY <2>6 DEF ApplyBackoff, ReturnsError, Over
  <2>7. CASE Launch(c)
    BY <2>7 DEF Launch
  <2>8. CASE LaunchSucceeds(c)
    BY <2>8 DEF LaunchSucceeds
  <2>9. CASE SetReady(c)
    BY <2>9, CallersAssumption DEF SetReady, ReturnsClient, TurnAccepted, Over
  <2>10. CASE LaunchFails(c)
    BY <2>10 DEF LaunchFails
  <2>11. CASE KillManaged(c)
    BY <2>11 DEF KillManaged
  <2>12. CASE RecordFailure(c)
    BY <2>12 DEF RecordFailure, ReturnsError, Over
  <2>13. CASE Send(c)
    BY <2>13 DEF Send, Superseded
  <2>14. CASE Answered(c)
    BY <2>14 DEF Answered, Over
  <2>15. CASE RequestFails(c)
    BY <2>15 DEF RequestFails
  <2>16. CASE SetShuttingDown(c)
    BY <2>16 DEF SetShuttingDown
  <2>17. CASE TakeManaged(c)
    BY <2>17 DEF TakeManaged
  <2>18. CASE Stopped(c)
    BY <2>18 DEF Stopped
  <2>19. CASE MaintenanceDone(c)
    BY <2>19 DEF MaintenanceDone
  <2> QED
    BY <2>1, <2>2, <2>3, <2>4, <2>5, <2>6, <2>7, <2>8, <2>9, <2>10, <2>11, <2>12,
       <2>13, <2>14, <2>15, <2>16, <2>17, <2>18, <2>19 DEF Step
<1> QED
  BY <1>1, <1>2, <1>3, <1>4, <1>5 DEF Next

\* Only a call that stops the runtime shuts it down.
LEMMA StopInvariance ==
    ASSUME TypeOK, StopStage, [Next]_vars
    PROVE  StopStage'
<1> USE DEF TypeOK, GoTo, Forget, StopStage
<1>1. CASE UNCHANGED vars
  BY <1>1 DEF vars
<1>2. ASSUME NEW p \in Processes, Exit(p) PROVE StopStage'
  BY <1>2 DEF Exit
<1>3. CASE TimePasses
  BY <1>3 DEF TimePasses
<1>4. ASSUME NEW c \in Callers, NEW s \in Stages, Begin(c, s) PROVE StopStage'
  BY <1>4 DEF Begin
<1>5. ASSUME NEW c \in Callers PROVE TakeGate(c) \/ Step(c) => StopStage'
  <2>1. CASE TakeGate(c)
    BY <2>1 DEF TakeGate
  <2>2. CASE EnsureReady(c)
    BY <2>2 DEF EnsureReady, ReturnsError, Over
  <2>3. CASE LiveClient(c)
    BY <2>3 DEF LiveClient, ReturnsError, Over
  <2>4. CASE PingAnswered(c)
    BY <2>4 DEF PingAnswered, ReturnsClient, TurnAccepted, Over
  <2>5. CASE PingFails(c)
    BY <2>5 DEF PingFails
  <2>6. CASE ApplyBackoff(c)
    BY <2>6 DEF ApplyBackoff, ReturnsError, Over
  <2>7. CASE Launch(c)
    BY <2>7 DEF Launch
  <2>8. CASE LaunchSucceeds(c)
    BY <2>8 DEF LaunchSucceeds
  <2>9. CASE SetReady(c)
    BY <2>9 DEF SetReady, ReturnsClient, TurnAccepted, Over
  <2>10. CASE LaunchFails(c)
    BY <2>10 DEF LaunchFails
  <2>11. CASE KillManaged(c)
    BY <2>11 DEF KillManaged
  <2>12. CASE RecordFailure(c)
    BY <2>12 DEF RecordFailure, ReturnsError, Over
  <2>13. CASE Send(c)
    BY <2>13 DEF Send, Superseded
  <2>14. CASE Answered(c)
    BY <2>14 DEF Answered, Over
  <2>15. CASE RequestFails(c)
    BY <2>15 DEF RequestFails
  <2>16. CASE SetShuttingDown(c)
    BY <2>16 DEF SetShuttingDown
  <2>17. CASE TakeManaged(c)
    BY <2>17 DEF TakeManaged
  <2>18. CASE Stopped(c)
    BY <2>18 DEF Stopped
  <2>19. CASE MaintenanceDone(c)
    BY <2>19 DEF MaintenanceDone
  <2> QED
    BY <2>1, <2>2, <2>3, <2>4, <2>5, <2>6, <2>7, <2>8, <2>9, <2>10, <2>11, <2>12,
       <2>13, <2>14, <2>15, <2>16, <2>17, <2>18, <2>19 DEF Step
<1> QED
  BY <1>1, <1>2, <1>3, <1>4, <1>5 DEF Next

\* A runtime leaves the managed slot, or the launch, only to be killed or stopped.
LEMMA OrphanInvariance ==
    ASSUME TypeOK, NothingManaged, NoOrphanedRuntime, [Next]_vars
    PROVE  NoOrphanedRuntime'
<1> USE DEF TypeOK, GoTo, Forget, NothingManaged, NoOrphanedRuntime, Launching, Stopping
<1>1. CASE UNCHANGED vars
  BY <1>1 DEF vars
<1>2. ASSUME NEW p \in Processes, Exit(p) PROVE NoOrphanedRuntime'
  BY <1>2 DEF Exit
<1>3. CASE TimePasses
  BY <1>3 DEF TimePasses
<1>4. ASSUME NEW c \in Callers, NEW s \in Stages, Begin(c, s) PROVE NoOrphanedRuntime'
  BY <1>4 DEF Begin
<1>5. ASSUME NEW c \in Callers PROVE TakeGate(c) \/ Step(c) => NoOrphanedRuntime'
  <2>1. CASE TakeGate(c)
    BY <2>1 DEF TakeGate
  <2>2. CASE EnsureReady(c)
    BY <2>2 DEF EnsureReady, ReturnsError, Over
  <2>3. CASE LiveClient(c)
    BY <2>3 DEF LiveClient, ReturnsError, Over
  <2>4. CASE PingAnswered(c)
    BY <2>4 DEF PingAnswered, ReturnsClient, TurnAccepted, Over
  <2>5. CASE PingFails(c)
    BY <2>5 DEF PingFails
  <2>6. CASE ApplyBackoff(c)
    BY <2>6 DEF ApplyBackoff, ReturnsError, Over
  <2>7. CASE Launch(c)
    BY <2>7 DEF Launch
  <2>8. CASE LaunchSucceeds(c)
    BY <2>8, CallersAssumption DEF LaunchSucceeds
  <2>9. CASE SetReady(c)
    BY <2>9 DEF SetReady, ReturnsClient, TurnAccepted, Over
  <2>10. CASE LaunchFails(c)
    BY <2>10 DEF LaunchFails
  <2>11. CASE KillManaged(c)
    BY <2>11 DEF KillManaged
  <2>12. CASE RecordFailure(c)
    BY <2>12 DEF RecordFailure, ReturnsError, Over
  <2>13. CASE Send(c)
    BY <2>13 DEF Send, Superseded
  <2>14. CASE Answered(c)
    BY <2>14 DEF Answered, Over
  <2>15. CASE RequestFails(c)
    BY <2>15 DEF RequestFails
  <2>16. CASE SetShuttingDown(c)
    BY <2>16 DEF SetShuttingDown
  <2>17. CASE TakeManaged(c)
    BY <2>17 DEF TakeManaged
  <2>18. CASE Stopped(c)
    BY <2>18 DEF Stopped
  <2>19. CASE MaintenanceDone(c)
    BY <2>19 DEF MaintenanceDone
  <2> QED
    BY <2>1, <2>2, <2>3, <2>4, <2>5, <2>6, <2>7, <2>8, <2>9, <2>10, <2>11, <2>12,
       <2>13, <2>14, <2>15, <2>16, <2>17, <2>18, <2>19 DEF Step
<1> QED
  BY <1>1, <1>2, <1>3, <1>4, <1>5 DEF Next

\* Every way out of a turn gives up the router's slot.
LEMMA SlotInvariance ==
    ASSUME TypeOK, StopStage, SlotNotLeaked, [Next]_vars
    PROVE  SlotNotLeaked'
<1> USE DEF TypeOK, GoTo, Forget, StopStage, SlotNotLeaked
<1>1. CASE UNCHANGED vars
  BY <1>1 DEF vars
<1>2. ASSUME NEW p \in Processes, Exit(p) PROVE SlotNotLeaked'
  BY <1>2 DEF Exit
<1>3. CASE TimePasses
  BY <1>3 DEF TimePasses
<1>4. ASSUME NEW c \in Callers, NEW s \in Stages, Begin(c, s) PROVE SlotNotLeaked'
  BY <1>4 DEF Begin
<1>5. ASSUME NEW c \in Callers PROVE TakeGate(c) \/ Step(c) => SlotNotLeaked'
  <2>1. CASE TakeGate(c)
    BY <2>1 DEF TakeGate
  <2>2. CASE EnsureReady(c)
    BY <2>2 DEF EnsureReady, ReturnsError, Over
  <2>3. CASE LiveClient(c)
    BY <2>3 DEF LiveClient, ReturnsError, Over
  <2>4. CASE PingAnswered(c)
    BY <2>4 DEF PingAnswered, ReturnsClient, TurnAccepted, Over
  <2>5. CASE PingFails(c)
    BY <2>5 DEF PingFails
  <2>6. CASE ApplyBackoff(c)
    BY <2>6 DEF ApplyBackoff, ReturnsError, Over
  <2>7. CASE Launch(c)
    BY <2>7 DEF Launch
  <2>8. CASE LaunchSucceeds(c)
    BY <2>8 DEF LaunchSucceeds
  <2>9. CASE SetReady(c)
    BY <2>9 DEF SetReady, ReturnsClient, TurnAccepted, Over
  <2>10. CASE LaunchFails(c)
    BY <2>10 DEF LaunchFails
  <2>11. CASE KillManaged(c)
    BY <2>11 DEF KillManaged
  <2>12. CASE RecordFailure(c)
    BY <2>12 DEF RecordFailure, ReturnsError, Over
  <2>13. CASE Send(c)
    BY <2>13 DEF Send, Superseded
  <2>14. CASE Answered(c)
    BY <2>14 DEF Answered, Over
  <2>15. CASE RequestFails(c)
    BY <2>15 DEF RequestFails
  <2>16. CASE SetShuttingDown(c)
    BY <2>16 DEF SetShuttingDown
  <2>17. CASE TakeManaged(c)
    BY <2>17 DEF TakeManaged
  <2>18. CASE Stopped(c)
    BY <2>18 DEF Stopped
  <2>19. CASE MaintenanceDone(c)
    BY <2>19 DEF MaintenanceDone
  <2> QED
    BY <2>1, <2>2, <2>3, <2>4, <2>5, <2>6, <2>7, <2>8, <2>9, <2>10, <2>11, <2>12,
       <2>13, <2>14, <2>15, <2>16, <2>17, <2>18, <2>19 DEF Step
<1> QED
  BY <1>1, <1>2, <1>3, <1>4, <1>5 DEF Next

----------------------------------------------------------------------------
\* The inductive invariant holds in every behaviour.
LEMMA Invariance == Spec => []IInv
<1>1. Init => IInv
  BY CallersAssumption
  DEF Init, IInv, TypeOK, GateHeld, GateSteps, NothingManaged, StopStage, NoOrphanedRuntime,
      SlotNotLeaked, Steps, Stages
<1>2. IInv /\ [Next]_vars => IInv'
  BY TypeInvariance, GateInvariance, NothingManagedInvariance, StopInvariance,
     OrphanInvariance, SlotInvariance
  DEF IInv
<1> QED
  BY <1>1, <1>2, PTL DEF Spec

\* The supervisor's variables keep their types, for any set of callers: a launch always
\* finds a process identity.
THEOREM TypeCorrect == Spec => []TypeOK
<1>1. IInv => TypeOK
  BY DEF IInv
<1> QED
  BY <1>1, Invariance, PTL

\* However many callers record failures, kill and launch runtimes, at most one runtime
\* runs besides those being shut down (sidecar_supervisor.rs, startup_gate).
THEOREM OneRuntimeAtATime == Spec => []OneRuntime
<1>1. ASSUME IInv PROVE OneRuntime
  <2> SUFFICES ASSUME NEW p \in alive \ Stopping, NEW q \in alive \ Stopping
               PROVE  p = q
    BY DEF OneRuntime
  <2>1. p # None /\ q # None
    BY <1>1, CallersAssumption DEF IInv, TypeOK
  <2>2. CASE p \in Launching \/ q \in Launching
    <3>1. PICK c \in Callers: pc[c] = "launch"
      BY <2>2 DEF Launching
    <3>2. managed = None /\ gate = c
      BY <1>1, <3>1 DEF IInv, NothingManaged, GateHeld, GateSteps
    <3>3. \A d \in Callers: pc[d] = "launch" => d = c
      BY <1>1, <3>2 DEF IInv, GateHeld, GateSteps
    <3>4. Launching \subseteq {client[c]}
      BY <3>3 DEF Launching
    <3> QED
      BY <1>1, <2>1, <3>2, <3>4 DEF IInv, NoOrphanedRuntime
  <2>3. CASE p \notin Launching /\ q \notin Launching
    BY <1>1, <2>3 DEF IInv, NoOrphanedRuntime
  <2> QED
    BY <2>2, <2>3
<1> QED
  BY <1>1, Invariance, PTL

\* Every runtime that runs can still be stopped: record_failure, a failed launch and
\* shutdown together lose none.
THEOREM NoOrphans == Spec => []NoOrphanedRuntime
<1>1. IInv => NoOrphanedRuntime
  BY DEF IInv
<1> QED
  BY <1>1, Invariance, PTL

\* The router's slot always belongs to a turn under way (runtime_router.rs).
THEOREM SlotReturned == Spec => []SlotNotLeaked
<1>1. IInv => SlotNotLeaked
  BY DEF IInv
<1> QED
  BY <1>1, Invariance, PTL
=============================================================================
