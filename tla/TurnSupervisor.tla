--------------------------- MODULE TurnSupervisor ---------------------------
(***************************************************************************)
(* The foreground turn supervisor of crates/runtime-core: start_turn,      *)
(* barge_in and shutdown race for start_gate, every admitted turn runs in  *)
(* a task of its own, and a turn that lost the foreground goes on running  *)
(* until it notices its cancellation.                                      *)
(*                                                                         *)
(* An action is the code between two awaits.  The lanes of a turn (LLM,    *)
(* speech, effects) and the commit of what they delivered are collapsed to *)
(* what the rest of the supervisor sees of them: when they end, and how.   *)
(* Module ResponseLanes opens that box.  The resource broker is seen       *)
(* through the one foreground slot of its leases; module ResourceBroker    *)
(* opens that one.                                                         *)
(***************************************************************************)
EXTENDS Naturals

CONSTANTS
    Turns,              \* turns, each started by one call of start_turn
    ResourceAdmission,  \* whether the supervisor was built with a resource broker
    NoTurn, Barge, Shutdown  \* no turn; the callers of barge_in and of shutdown

ASSUME TurnsAssumption == NoTurn \notin Turns /\ Barge \notin Turns /\ Shutdown \notin Turns
ASSUME CallersDiffer == Barge # Shutdown /\ NoTurn # Barge /\ NoTurn # Shutdown
ASSUME AdmissionAssumption == ResourceAdmission \in BOOLEAN

Callers == Turns \cup {Barge, Shutdown}

VARIABLES
    call,         \* where each caller stands in start_turn, barge_in or shutdown
    gate,         \* holder of start_gate, or NoTurn
    shuttingDown, \* the AtomicBool shutting_down
    generation,   \* CancellationGeneration.current
    current,      \* the ActiveTurn in `current', or NoTurn
    gen,          \* each turn's own generation, 0 before it has one
    token,        \* each turn's CancellationToken is cancelled
    task,         \* where each turn's spawned task stands
    result,       \* what run_turn_inner returned
    outcome,      \* TurnOutcome.lifecycle
    lease,        \* the turn whose job holds the broker's foreground slot, or NoTurn
    jobCancelled, \* the cancellation token of each turn's resource lease
    raced         \* history: calls past the shutting_down check when the flag was set

callVars == <<call, gate, shuttingDown, raced>>
turnVars == <<gen, task, result, outcome>>
vars == <<callVars, generation, current, token, lease, jobCancelled, turnVars>>

CallStates == {"idle", "gate", "stopping", "proceed", "refused", "rejected", "done"}
Phases == {"none", "preparing", "responding", "committing", "storing", "stored",
           "settling", "clearing", "ended"}

TypeOK ==
    /\ call \in [Callers -> CallStates]
    /\ gate \in Callers \cup {NoTurn}
    /\ shuttingDown \in BOOLEAN
    /\ generation \in Nat
    /\ current \in Turns \cup {NoTurn}
    /\ gen \in [Turns -> Nat]
    /\ token \in [Turns -> BOOLEAN]
    /\ task \in [Turns -> Phases]
    /\ result \in [Turns -> {"none", "ok", "cancelled", "failed"}]
    /\ outcome \in [Turns -> {"none", "Completed", "Cancelled", "Failed"}]
    /\ lease \in Turns \cup {NoTurn}
    /\ jobCancelled \in [Turns -> BOOLEAN]
    /\ raced \subseteq Turns

Init ==
    /\ call = [c \in Callers |-> "idle"]
    /\ gate = NoTurn /\ shuttingDown = FALSE /\ raced = {}
    /\ generation = 0 /\ current = NoTurn
    /\ gen = [t \in Turns |-> 0]
    /\ token = [t \in Turns |-> FALSE]
    /\ task = [t \in Turns |-> "none"]
    /\ result = [t \in Turns |-> "none"]
    /\ outcome = [t \in Turns |-> "none"]
    /\ lease = NoTurn
    /\ jobCancelled = [t \in Turns |-> FALSE]

\* GenerationToken::is_cancelled.
IsCancelled(t) == token[t] \/ gen[t] # generation

\* The turn's task has been spawned and has not finished.
Active(t) == task[t] \notin {"none", "ended"}

Goto(t, phase) == task' = [task EXCEPT ![t] = phase]

\* run_turn_inner returns r.
Return(t, r) ==
    /\ Goto(t, "settling")
    /\ result' = [result EXCEPT ![t] = r]

-----------------------------------------------------------------------------
(* Callers of start_turn, barge_in and shutdown. *)

\* Bug: start_turn ignores shutting_down.
CallStartTurnUnchecked(t) ==
    /\ call[t] = "idle"
    /\ call' = [call EXCEPT ![t] = "gate"]
    /\ UNCHANGED <<gate, shuttingDown, raced, generation, current, token, lease, jobCancelled, turnVars>>

\* start_turn up to the lock: the flag is read before the gate is taken.
CallStartTurn(t) ==
    /\ call[t] = "idle"
    /\ call' = [call EXCEPT ![t] = IF shuttingDown THEN "refused" ELSE "gate"]
    /\ UNCHANGED <<gate, shuttingDown, raced, generation, current, token, lease, jobCancelled, turnVars>>

CallBargeIn ==
    /\ call[Barge] = "idle"
    /\ call' = [call EXCEPT ![Barge] = "gate"]
    /\ UNCHANGED <<gate, shuttingDown, raced, generation, current, token, lease, jobCancelled, turnVars>>

CallShutdown ==
    /\ call[Shutdown] = "idle"
    /\ shuttingDown' = TRUE
    /\ raced' = {t \in Turns : call[t] \in {"gate", "stopping", "proceed"}}
    /\ call' = [call EXCEPT ![Shutdown] = "gate"]
    /\ UNCHANGED <<gate, generation, current, token, lease, jobCancelled, turnVars>>

\* broker.cancel of a job that is already running only signals its lease.
CancelJob(t) ==
    jobCancelled' = IF lease = t THEN [jobCancelled EXCEPT ![t] = TRUE] ELSE jobCancelled

\* The gate is free: barge_in_locked up to its await of audio.stop.
EnterGate(c) ==
    /\ call[c] = "gate" /\ gate = NoTurn
    /\ gate' = c
    /\ \/ /\ current = NoTurn
          /\ call' = [call EXCEPT ![c] = "proceed"]
          /\ UNCHANGED <<current, token, jobCancelled>>
       \/ /\ current # NoTurn
          /\ token' = [token EXCEPT ![current] = TRUE]
          /\ CancelJob(current)
          /\ current' = NoTurn
          /\ call' = [call EXCEPT ![c] = "stopping"]
    /\ UNCHANGED <<shuttingDown, raced, generation, lease, turnVars>>

\* audio.stop returned; its errors are only logged.
StopReturns(c) ==
    /\ call[c] = "stopping"
    /\ call' = [call EXCEPT ![c] = "proceed"]
    /\ UNCHANGED <<gate, shuttingDown, raced, generation, current, token, lease, jobCancelled, turnVars>>

\* barge_in and shutdown are over; barge_in may be called again.
LeaveGate(c) ==
    /\ c \in {Barge, Shutdown} /\ call[c] = "proceed"
    /\ gate' = NoTurn
    /\ call' = [call EXCEPT ![c] = IF c = Barge THEN "idle" ELSE "done"]
    /\ UNCHANGED <<shuttingDown, raced, generation, current, token, lease, jobCancelled, turnVars>>

\* start_turn behind the gate: a new generation, a resource lease if the
\* supervisor needs one, the turn becomes current and its task is spawned.
StartAdmitted(t) ==
    /\ call[t] = "proceed"
    /\ ResourceAdmission => lease = NoTurn
    /\ lease' = IF ResourceAdmission THEN t ELSE lease
    /\ generation' = generation + 1
    /\ gen' = [gen EXCEPT ![t] = generation + 1]
    /\ current' = t
    /\ Goto(t, "preparing")
    /\ call' = [call EXCEPT ![t] = "done"] /\ gate' = NoTurn
    /\ UNCHANGED <<shuttingDown, raced, token, jobCancelled, result, outcome>>

\* Bug: the error path keeps the gate.
StartRejectedKeepsGate(t) ==
    /\ call[t] = "proceed" /\ ResourceAdmission
    /\ generation' = generation + 1
    /\ gen' = [gen EXCEPT ![t] = generation + 1]
    /\ call' = [call EXCEPT ![t] = "rejected"]
    /\ UNCHANGED <<gate, shuttingDown, raced, current, token, lease, jobCancelled,
                   task, result, outcome>>

\* start_turn behind the gate when the planner or the broker refuses: the broker
\* always does while another turn's job holds the foreground slot, and may for
\* want of any other resource.  The queued job is cancelled again.
StartRejected(t) ==
    /\ call[t] = "proceed" /\ ResourceAdmission
    /\ generation' = generation + 1
    /\ gen' = [gen EXCEPT ![t] = generation + 1]
    /\ call' = [call EXCEPT ![t] = "rejected"] /\ gate' = NoTurn
    /\ UNCHANGED <<shuttingDown, raced, current, token, lease, jobCancelled,
                   task, result, outcome>>

\* TurnHandle::cancel.  Once the task has ended nobody reads the token any more.
HandleCancel(t) ==
    /\ Active(t) /\ ~token[t]
    /\ token' = [token EXCEPT ![t] = TRUE]
    /\ CancelJob(t)
    /\ UNCHANGED <<callVars, generation, current, lease, turnVars>>

\* The owner of the broker cancels the turn's job.
BrokerCancel(t) ==
    /\ lease = t /\ ~jobCancelled[t]
    /\ CancelJob(t)
    /\ UNCHANGED <<callVars, generation, current, token, lease, turnVars>>

-----------------------------------------------------------------------------
(* The task of a turn. *)

TaskUnchanged == UNCHANGED <<callVars, generation, current, token, lease, jobCancelled, gen, outcome>>

\* Bug: the bridge is only there while the turn prepares.
BridgeEndsEarly(t) ==
    /\ jobCancelled[t] /\ ~token[t] /\ task[t] = "preparing"
    /\ token' = [token EXCEPT ![t] = TRUE]
    /\ UNCHANGED <<callVars, generation, current, lease, jobCancelled, turnVars>>

\* The bridge task forwards a broker cancellation until run_turn has returned.
Bridge(t) ==
    /\ jobCancelled[t] /\ ~token[t]
    /\ task[t] \in {"preparing", "responding", "committing", "storing", "stored", "settling"}
    /\ token' = [token EXCEPT ![t] = TRUE]
    /\ UNCHANGED <<callVars, generation, current, lease, jobCancelled, turnVars>>

\* Identity and memory retrieval: their failures degrade, a cancellation ends
\* the turn at the next event.
Prepare(t) ==
    /\ task[t] = "preparing"
    /\ IF IsCancelled(t) THEN Return(t, "cancelled")
                         ELSE Goto(t, "responding") /\ UNCHANGED result
    /\ TaskUnchanged

\* All lanes have ended with something to commit, be it of a stream that broke
\* off.  The event that announces Committing is the last check.
LanesDone(t) ==
    /\ task[t] = "responding" /\ ~IsCancelled(t)
    /\ Goto(t, "committing")
    /\ UNCHANGED result /\ TaskUnchanged

\* Bug: the lanes only compare the generation.
LanesStale(t) ==
    /\ task[t] = "responding" /\ gen[t] # generation
    /\ Return(t, "cancelled")
    /\ TaskUnchanged

\* A lane saw the cancellation.
LanesCancelled(t) ==
    /\ task[t] = "responding" /\ IsCancelled(t)
    /\ Return(t, "cancelled")
    /\ TaskUnchanged

\* The sink reported an incomplete playback: the speech lane takes that for a
\* cancellation, whether or not there was one.
LanesInterrupted(t) ==
    /\ task[t] = "responding"
    /\ Return(t, "cancelled")
    /\ TaskUnchanged

\* No authorized provider, or all of them failed before any output.
LanesFail(t) ==
    /\ task[t] = "responding"
    /\ Return(t, "failed")
    /\ TaskUnchanged

\* commit_delivered up to its last look at the token: a cancellation, the decision
\* to store, or nothing to store or a missing receipt.
CommitCheck(t) ==
    /\ task[t] = "committing"
    /\ \/ token[t] /\ Return(t, "cancelled")
       \/ ~token[t] /\ Goto(t, "storing") /\ UNCHANGED result
       \/ Goto(t, "stored") /\ UNCHANGED result
    /\ TaskUnchanged

\* commit_batch has returned: stored or deferred.
Store(t) ==
    /\ task[t] = "storing"
    /\ Goto(t, "stored")
    /\ UNCHANGED result /\ TaskUnchanged

\* Back in run_turn_inner: the timing event, then the error of an LLM stream that
\* had broken off after some output, or the Completed event.
AfterCommit(t) ==
    /\ task[t] = "stored"
    /\ \E r \in {"ok", "failed"} : Return(t, IF IsCancelled(t) THEN "cancelled" ELSE r)
    /\ TaskUnchanged

\* Bug: the lease of a cancelled turn is not completed.
SettleKeepsCancelledLease(t) ==
    /\ task[t] = "settling"
    /\ Goto(t, "clearing")
    /\ outcome' = [outcome EXCEPT ![t] =
                     CASE result[t] = "failed" -> "Failed"
                       [] result[t] = "ok" /\ ~IsCancelled(t) -> "Completed"
                       [] OTHER -> "Cancelled"]
    /\ lease' = IF lease = t /\ ~IsCancelled(t) THEN NoTurn ELSE lease
    /\ UNCHANGED <<callVars, generation, current, token, jobCancelled, gen,
                   result>>

\* run_turn turns the result into the outcome and looks at the token once more;
\* the task then aborts the bridge, completes the lease whatever the outcome,
\* emits Terminal and completes the handle.
Settle(t) ==
    /\ task[t] = "settling"
    /\ Goto(t, "clearing")
    /\ outcome' = [outcome EXCEPT ![t] =
                     CASE result[t] = "failed" -> "Failed"
                       [] result[t] = "ok" /\ ~IsCancelled(t) -> "Completed"
                       [] OTHER -> "Cancelled"]
    /\ lease' = IF lease = t THEN NoTurn ELSE lease
    /\ UNCHANGED <<callVars, generation, current, token, jobCancelled, gen,
                   result>>

\* Bug: the generation of the turn in `current' is not compared.
ClearCurrent(t) ==
    /\ task[t] = "clearing"
    /\ Goto(t, "ended")
    /\ current' = NoTurn
    /\ UNCHANGED <<callVars, generation, token, lease, jobCancelled, gen,
                   result, outcome>>

\* clear_if_current: a newer turn in `current' is left alone.
ClearIfCurrent(t) ==
    /\ task[t] = "clearing"
    /\ Goto(t, "ended")
    /\ current' = IF current = t THEN NoTurn ELSE current
    /\ UNCHANGED <<callVars, generation, token, lease, jobCancelled, gen,
                   result, outcome>>

TaskStep(t) ==
    \/ Prepare(t) \/ LanesDone(t) \/ LanesCancelled(t) \/ LanesInterrupted(t)
    \/ LanesFail(t)
    \/ CommitCheck(t) \/ Store(t) \/ AfterCommit(t)
    \/ Settle(t) \/ ClearIfCurrent(t)

StartStep(t) == StartAdmitted(t) \/ StartRejected(t)

Next ==
    \/ CallBargeIn \/ CallShutdown
    \/ \E c \in Callers : EnterGate(c) \/ StopReturns(c) \/ LeaveGate(c)
    \/ \E t \in Turns : \/ CallStartTurn(t) \/ StartStep(t)
                        \/ HandleCancel(t) \/ BrokerCancel(t) \/ Bridge(t)
                        \/ TaskStep(t)

Spec == Init /\ [][Next]_vars

\* The steps of a task that depend on nobody outside the process.
Progress(t) ==
    Prepare(t) \/ LanesCancelled(t) \/ CommitCheck(t) \/ Store(t)
    \/ AfterCommit(t) \/ Settle(t) \/ ClearIfCurrent(t)

\* Tokio polls every runnable task again and again, the local store and
\* audio.stop return, and the tokio mutex behind start_gate is granted in the
\* order of the requests, so no waiter is overtaken for ever.  Nothing is assumed
\* of the providers: a stream may hang, and then the lanes end only because they
\* watch the cancellation.
Fairness ==
    /\ \A t \in Turns : WF_vars(Progress(t)) /\ WF_vars(StartStep(t)) /\ WF_vars(Bridge(t))
    /\ \A c \in Callers : /\ SF_vars(EnterGate(c))
                          /\ WF_vars(StopReturns(c)) /\ WF_vars(LeaveGate(c))

FairSpec == Spec /\ Fairness

-----------------------------------------------------------------------------
(* Properties *)

\* A turn that runs and has not been told to stop is the one `current' names:
\* barge_in, shutdown and a newer start_turn can always reach it.  A stale
\* clear_if_current or a turn started outside the gate would break this.
UncancelledTurnIsCurrent ==
    \A t \in Turns : Active(t) /\ ~token[t] => current = t

\* GenerationToken::cancelled() waits on the token alone once it has seen its
\* generation current, so a turn overtaken by a newer generation must also have
\* its token cancelled, or its lanes would wait for ever.
SupersededTurnIsCancelled ==
    \A t \in Turns : Active(t) /\ gen[t] # generation => token[t]

\* A resource lease belongs to a turn whose task will still return it.
LeaseHolderIsActive ==
    lease # NoTurn => task[lease] \notin {"none", "clearing", "ended"}

\* A turn that is still in the foreground after shutdown returned was started by
\* a call that had passed the shutting_down check before the flag was set.
OnlyRacingCallsOutliveShutdown ==
    call[Shutdown] = "done" =>
        \A t \in Turns : Active(t) /\ ~token[t] => t \in raced

\* A turn that was cancelled or overtaken ends, even when its provider hangs: no
\* barge-in leaves a zombie behind.
CancelledTurnsEnd ==
    \A t \in Turns : Active(t) /\ IsCancelled(t) ~> task[t] = "ended"

\* A cancellation that the resource broker initiates reaches the turn through the
\* bridge and ends it.
BrokerCancellationEndsTurn ==
    \A t \in Turns : jobCancelled[t] ~> task[t] = "ended"

\* Every caller that waits for start_gate gets through it and returns.
CallsReturn ==
    \A c \in Callers : call[c] = "gate" ~> call[c] \notin {"gate", "stopping", "proceed"}

\* The doc of TurnSupervisor: it "owns exactly one foreground conversation turn and
\* provides deterministic barge-in".  A turn that took the foreground from another
\* one is not refused on account of the turn it has just cancelled.
BargeInIsDeterministic ==
    [][\A t \in Turns : call[t] = "proceed" /\ call'[t] = "rejected" => lease = NoTurn]_vars
=============================================================================
