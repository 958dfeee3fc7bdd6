--------------------------- MODULE CircuitBreaker ---------------------------
(***************************************************************************)
(* One CircuitBreaker of crates/runtime-core/src/circuit_breaker.rs, shared *)
(* by any number of provider calls.  Every action is one critical section  *)
(* of the mutex around CircuitState; between the acquisition of a permit   *)
(* and its completion every other call may run.                            *)
(*                                                                         *)
(* Time: an Open circuit remembers opened_at.  The model keeps `elapsed',  *)
(* the time since opened_at, saturated at OpenDuration because the code    *)
(* only compares it with open_duration.                                    *)
(***************************************************************************)
EXTENDS Naturals, FiniteSets

CONSTANTS
    Calls,                    \* provider calls, each holds at most one CircuitPermit
    FailureThreshold,
    RecoverySuccessThreshold,
    OpenDuration,
    HalfOpenMaxInFlight

\* CircuitBreaker::new asserts that the three thresholds are non-zero.
ASSUME ConfigAssumption ==
    /\ FailureThreshold \in Nat \ {0}
    /\ RecoverySuccessThreshold \in Nat \ {0}
    /\ HalfOpenMaxInFlight \in Nat \ {0}
    /\ OpenDuration \in Nat

ASSUME CallsAssumption == IsFiniteSet(Calls)

VARIABLES
    mode,       \* the variant of CircuitState
    failures,   \* Closed.consecutive_failures
    elapsed,    \* Open: now - opened_at, saturated at OpenDuration
    inFlight,   \* HalfOpen.in_flight
    successes,  \* HalfOpen.successes
    held,       \* calls that hold an unfinished CircuitPermit
    probes,     \* history: the permits of `held' granted by the current HalfOpen episode
    setbacks    \* history: the parity of the number of permits failed or dropped so far

vars == <<mode, failures, elapsed, inFlight, successes, held, probes, setbacks>>

Modes == {"Closed", "Open", "HalfOpen"}

TypeOK ==
    /\ mode \in Modes
    /\ failures \in 0 .. FailureThreshold - 1
    /\ elapsed \in 0 .. OpenDuration
    /\ inFlight \in 0 .. HalfOpenMaxInFlight
    /\ successes \in 0 .. RecoverySuccessThreshold - 1
    /\ held \subseteq Calls
    /\ probes \subseteq (IF mode = "HalfOpen" THEN held ELSE {})
    /\ setbacks \in {0, 1}

Init ==
    /\ mode = "Closed"
    /\ failures = 0 /\ elapsed = 0 /\ inFlight = 0 /\ successes = 0
    /\ held = {} /\ probes = {} /\ setbacks = 0

-----------------------------------------------------------------------------
\* Assigning a whole CircuitState: the fields of the other variants are gone.

ToClosed ==
    /\ mode' = "Closed"
    /\ failures' = 0 /\ elapsed' = 0 /\ inFlight' = 0 /\ successes' = 0
    /\ probes' = {}

ToOpen ==
    /\ mode' = "Open"
    /\ failures' = 0 /\ elapsed' = 0 /\ inFlight' = 0 /\ successes' = 0
    /\ probes' = {}

Dec(n) == IF n = 0 THEN 0 ELSE n - 1

\* A permit is consumed; a failed or dropped one counts as a setback.
Spend(c, how) ==
    /\ c \in held /\ held' = held \ {c}
    /\ setbacks' = IF how = "success" THEN setbacks ELSE 1 - setbacks

(* Plausible bugs, used to show that the properties below can fail. *)

\* Drop forgets to give the half-open slot back.
DropLeaksSlot(c) ==
    /\ Spend(c, "drop")
    /\ probes' = probes \ {c}
    /\ UNCHANGED <<mode, failures, elapsed, inFlight, successes>>

\* A failure recorded on an open circuit restarts opened_at.
FailureRestartsClock(c) ==
    /\ Spend(c, "failure")
    /\ \/ /\ mode = "Closed" /\ failures + 1 < FailureThreshold
          /\ failures' = failures + 1
          /\ UNCHANGED <<mode, elapsed, inFlight, successes, probes>>
       \/ /\ mode = "Closed" => failures + 1 >= FailureThreshold
          /\ ToOpen

\* A probe's success gives its slot back and is not counted.
SuccessNotCounted(c) ==
    /\ Spend(c, "success")
    /\ failures' = IF mode = "Closed" THEN 0 ELSE failures
    /\ inFlight' = IF mode = "HalfOpen" THEN Dec(inFlight) ELSE inFlight
    /\ probes' = probes \ {c}
    /\ UNCHANGED <<mode, elapsed, successes>>
-----------------------------------------------------------------------------
\* The clock advances; it matters only while the circuit is Open.
Tick ==
    /\ mode = "Open" /\ elapsed < OpenDuration
    /\ elapsed' = elapsed + 1
    /\ UNCHANGED <<mode, failures, inFlight, successes, held, probes, setbacks>>

\* try_acquire on a Closed circuit always yields a permit.
AcquireClosed(c) ==
    /\ mode = "Closed" /\ c \notin held
    /\ held' = held \cup {c}
    /\ UNCHANGED <<mode, failures, elapsed, inFlight, successes, probes, setbacks>>

\* try_acquire on a circuit whose open_duration has elapsed: it becomes
\* HalfOpen and the caller holds the first probe.
AcquireFirstProbe(c) ==
    /\ mode = "Open" /\ elapsed >= OpenDuration /\ c \notin held
    /\ mode' = "HalfOpen" /\ inFlight' = 1 /\ successes' = 0 /\ elapsed' = 0
    /\ held' = held \cup {c} /\ probes' = {c}
    /\ UNCHANGED <<failures, setbacks>>

\* try_acquire on a HalfOpen circuit with a free probe slot.
AcquireProbe(c) ==
    /\ mode = "HalfOpen" /\ inFlight < HalfOpenMaxInFlight /\ c \notin held
    /\ inFlight' = inFlight + 1
    /\ held' = held \cup {c} /\ probes' = probes \cup {c}
    /\ UNCHANGED <<mode, failures, elapsed, successes, setbacks>>

\* try_acquire; the refused caller (CircuitOpen) changes nothing.
TryAcquire(c) == AcquireClosed(c) \/ AcquireFirstProbe(c) \/ AcquireProbe(c)

\* CircuitPermit::success: record_success, then the permit is spent.
Success(c) ==
    /\ Spend(c, "success")
    /\ \/ /\ mode = "Closed"
          /\ failures' = 0
          /\ UNCHANGED <<mode, elapsed, inFlight, successes, probes>>
       \/ /\ mode = "HalfOpen" /\ successes + 1 < RecoverySuccessThreshold
          /\ inFlight' = Dec(inFlight) /\ successes' = successes + 1
          /\ probes' = probes \ {c}
          /\ UNCHANGED <<mode, failures, elapsed>>
       \/ /\ mode = "HalfOpen" /\ successes + 1 >= RecoverySuccessThreshold
          /\ ToClosed
       \/ /\ mode = "Open"
          /\ UNCHANGED <<mode, failures, elapsed, inFlight, successes, probes>>

\* CircuitPermit::failure: record_failure, then the permit is spent.
Failure(c) ==
    /\ Spend(c, "failure")
    /\ \/ /\ mode = "Closed" /\ failures + 1 < FailureThreshold
          /\ failures' = failures + 1
          /\ UNCHANGED <<mode, elapsed, inFlight, successes, probes>>
       \/ /\ \/ mode = "Closed" /\ failures + 1 >= FailureThreshold
             \/ mode = "HalfOpen"
          /\ ToOpen
       \/ /\ mode = "Open"
          /\ UNCHANGED <<mode, failures, elapsed, inFlight, successes, probes>>

\* CircuitPermit::drop of an unfinished permit (an interrupted call).
Drop(c) ==
    /\ Spend(c, "drop")
    /\ inFlight' = IF mode = "HalfOpen" THEN Dec(inFlight) ELSE inFlight
    /\ probes' = probes \ {c}
    /\ UNCHANGED <<mode, failures, elapsed, successes>>

Next ==
    \/ Tick
    \/ \E c \in Calls : TryAcquire(c) \/ Success(c) \/ Failure(c) \/ Drop(c)

Spec == Init /\ [][Next]_vars

-----------------------------------------------------------------------------
(* Properties *)

\* A half-open slot is never leaked: the slots counted by in_flight are held by
\* unfinished probes of this half-open episode, so a circuit without probes
\* always has a free slot for the next one, whatever late completions of calls
\* admitted earlier did to the counter.
ProbeSlotsNotLeaked ==
    mode = "HalfOpen" => inFlight <= Cardinality(probes)

\* What half_open_max_in_flight promises by its name and by the message of the
\* assertion in `new': no more than that many unfinished probes at a time.
\* Completions of permits that hold no slot give a slot back as well, so the
\* code does not keep this.
ProbeLimit == Cardinality(probes) <= HalfOpenMaxInFlight

\* While an open circuit cools down no call is admitted and nothing that was
\* admitted before can close it, reopen it or restart its clock.
CoolsDownUndisturbed ==
    [][mode = "Open" /\ elapsed < OpenDuration =>
         mode' = "Open" /\ elapsed' >= elapsed /\ held' \subseteq held]_vars

\* The callers keep using the provider and every call ends one way or another;
\* the wall clock moves on.
Fairness ==
    /\ WF_vars(Tick)
    /\ \A c \in Calls : /\ WF_vars(TryAcquire(c))
                        /\ WF_vars(Success(c) \/ Failure(c) \/ Drop(c))

FairSpec == Spec /\ Fairness

\* A provider that is healthy again gets its circuit closed: when only finitely
\* many calls fail or are dropped (their parity settles), the circuit ends up
\* Closed for good, whatever those failures, drops and the late completions of
\* earlier calls have left behind.
HealthyProviderRecovers ==
    <>[](setbacks = 0) \/ <>[](setbacks = 1) => <>[](mode = "Closed")

=============================================================================
