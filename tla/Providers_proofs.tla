-------------------------- MODULE Providers_proofs --------------------------
(***************************************************************************)
(* Which provider a turn may call: the circuit breaker in front of each    *)
(* provider (module CircuitBreaker, Spec) and the walk of a lane over its  *)
(* configured providers (module Routing, LaneSpec).  The two share no      *)
(* variable, and nothing is said here of their composition.                *)
(*                                                                         *)
(* The circuit breaker never leaks a half-open slot and cools down         *)
(* undisturbed, for any number of concurrent calls and any configuration   *)
(* CircuitBreaker::new accepts.                                            *)
(*                                                                         *)
(* A lane reaches the providers of RoutingPlan::candidates and no other,   *)
(* for any request and any list of providers with distinct ids: at every   *)
(* moment what it has reached is the filter of what it has decided about.  *)
(***************************************************************************)
EXTENDS CircuitBreaker, Routing, FiniteSetTheorems, TLAPS

(* The circuit breaker.                                                     *)

\* The set of calls is finite, so the probes always have a cardinality.
LEMMA ProbesFinite ==
    ASSUME TypeOK
    PROVE  IsFiniteSet(probes) /\ Cardinality(probes) \in Nat
<1>1. probes \subseteq Calls
  BY DEF TypeOK
<1>2. IsFiniteSet(probes)
  BY <1>1, CallsAssumption, FS_Subset
<1> QED
  BY <1>2, FS_CardinalityType

\* The counters of CircuitState stay below their thresholds and only holders of
\* a permit are probes.
LEMMA TypeInvariance ==
    ASSUME TypeOK, [Next]_vars
    PROVE  TypeOK'
<1> USE ConfigAssumption DEF TypeOK, Modes
<1>1. CASE UNCHANGED vars
  BY <1>1 DEF vars
<1>2. CASE Tick
  BY <1>2 DEF Tick
<1>3. ASSUME NEW c \in Calls, TryAcquire(c)
      PROVE  TypeOK'
  BY <1>3 DEF TryAcquire, AcquireClosed, AcquireFirstProbe, AcquireProbe
<1>4. ASSUME NEW c \in Calls, Success(c)
      PROVE  TypeOK'
  <2>1. Dec(inFlight) \in 0 .. HalfOpenMaxInFlight
    BY DEF Dec
  <2> QED
    BY <1>4, <2>1 DEF Success, Spend, ToClosed
<1>5. ASSUME NEW c \in Calls, Failure(c)
      PROVE  TypeOK'
  BY <1>5 DEF Failure, Spend, ToOpen
<1>6. ASSUME NEW c \in Calls, Drop(c)
      PROVE  TypeOK'
  BY <1>6 DEF Drop, Spend, Dec
<1> QED
  BY <1>1, <1>2, <1>3, <1>4, <1>5, <1>6 DEF Next

\* Every completion of a probe gives back at most the slot it took, and a
\* completion of any other permit can only lower in_flight.
LEMMA SlotInvariance ==
    ASSUME TypeOK, TypeOK', ProbeSlotsNotLeaked, [Next]_vars
    PROVE  ProbeSlotsNotLeaked'
<1> SUFFICES ASSUME mode' = "HalfOpen"
             PROVE  inFlight' <= Cardinality(probes')
  BY DEF ProbeSlotsNotLeaked
<1> USE ConfigAssumption DEF TypeOK
<1>1. IsFiniteSet(probes) /\ Cardinality(probes) \in Nat
  BY ProbesFinite
<1>2. ASSUME NEW c \in Calls
      PROVE  /\ Cardinality(probes \ {c}) \in Nat
             /\ Cardinality(probes \ {c}) >= Cardinality(probes) - 1
             /\ c \notin probes => Cardinality(probes \cup {c}) = Cardinality(probes) + 1
  <2>1. c \in probes => Cardinality(probes \ {c}) = Cardinality(probes) - 1
    BY <1>1, FS_RemoveElement
  <2>2. c \notin probes => probes \ {c} = probes
    OBVIOUS
  <2>3. c \notin probes => Cardinality(probes \cup {c}) = Cardinality(probes) + 1
    BY <1>1, FS_AddElement
  <2>4. IsFiniteSet(probes \ {c})
    BY <1>1, FS_Subset
  <2>5. Cardinality(probes \ {c}) \in Nat
    BY <2>4, FS_CardinalityType
  <2>6. Cardinality(probes \ {c}) >= Cardinality(probes) - 1
    <3>1. CASE c \in probes
      BY <1>1, <2>1, <3>1
    <3>2. CASE c \notin probes
      <4>1. Cardinality(probes \ {c}) = Cardinality(probes)
        BY <2>2, <3>2
      <4> QED
        BY <1>1, <4>1
    <3> QED
      BY <3>1, <3>2
  <2> QED
    BY <2>3, <2>5, <2>6, Zenon
<1>3. ASSUME NEW c \in Calls, mode = "HalfOpen",
             inFlight' = Dec(inFlight), probes' = probes \ {c}
      PROVE  inFlight' <= Cardinality(probes')
  <2>1. inFlight <= Cardinality(probes)
    BY <1>3 DEF ProbeSlotsNotLeaked
  <2>2. /\ Cardinality(probes \ {c}) \in Nat
        /\ Cardinality(probes \ {c}) >= Cardinality(probes) - 1
    BY <1>2
  <2>3. inFlight' = IF inFlight = 0 THEN 0 ELSE inFlight - 1
    BY <1>3 DEF Dec
  <2> QED
    BY <1>1, <1>3, <2>1, <2>2, <2>3
<1>4. CASE UNCHANGED vars
  BY <1>4 DEF vars, ProbeSlotsNotLeaked
<1>5. CASE Tick
  BY <1>5 DEF Tick
<1>6. ASSUME NEW c \in Calls, TryAcquire(c)
      PROVE  inFlight' <= Cardinality(probes')
  <2>1. CASE AcquireClosed(c)
    BY <2>1 DEF AcquireClosed
  <2>2. CASE AcquireFirstProbe(c)
    <3>1. Cardinality({c}) = 1
      BY FS_Singleton
    <3> QED
      BY <2>2, <3>1 DEF AcquireFirstProbe
  <2>3. CASE AcquireProbe(c)
    <3>1. c \notin probes /\ inFlight <= Cardinality(probes)
      BY <2>3 DEF AcquireProbe, ProbeSlotsNotLeaked
    <3>2. Cardinality(probes \cup {c}) = Cardinality(probes) + 1
      BY <1>2, <3>1
    <3> QED
      BY <1>1, <2>3, <3>1, <3>2 DEF AcquireProbe
  <2> QED
    BY <1>6, <2>1, <2>2, <2>3 DEF TryAcquire
<1>7. ASSUME NEW c \in Calls, Success(c)
      PROVE  inFlight' <= Cardinality(probes')
  BY <1>3, <1>7 DEF Success, ToClosed
<1>8. ASSUME NEW c \in Calls, Failure(c)
      PROVE  inFlight' <= Cardinality(probes')
  BY <1>8 DEF Failure, ToOpen
<1>9. ASSUME NEW c \in Calls, Drop(c)
      PROVE  inFlight' <= Cardinality(probes')
  BY <1>3, <1>9 DEF Drop
<1> QED
  BY <1>4, <1>5, <1>6, <1>7, <1>8, <1>9 DEF Next

\* The counters and the permits of a circuit always have their types.
THEOREM TypeCorrect == Spec => []TypeOK
<1>1. Init => TypeOK
  BY ConfigAssumption DEF Init, TypeOK, Modes
<1> QED
  BY <1>1, TypeInvariance, PTL DEF Spec

\* No interleaving of acquisitions, completions and interruptions leaks a
\* half-open slot of try_acquire.
THEOREM SlotsNotLeaked == Spec => []ProbeSlotsNotLeaked
<1>1. Init => ProbeSlotsNotLeaked
  BY DEF Init, ProbeSlotsNotLeaked
<1> QED
  BY <1>1, TypeCorrect, SlotInvariance, PTL DEF Spec

\* No late completion disturbs an open circuit before open_duration is over.
THEOREM CoolDown == Spec => CoolsDownUndisturbed
<1>1. TypeOK /\ [Next]_vars =>
        [mode = "Open" /\ elapsed < OpenDuration =>
           mode' = "Open" /\ elapsed' >= elapsed /\ held' \subseteq held]_vars
  <2> SUFFICES ASSUME TypeOK, Next, mode = "Open", elapsed < OpenDuration
               PROVE  mode' = "Open" /\ elapsed' >= elapsed /\ held' \subseteq held
    OBVIOUS
  <2> USE ConfigAssumption DEF TypeOK
  <2>1. CASE Tick
    BY <2>1 DEF Tick
  <2>2. ASSUME NEW c \in Calls, TryAcquire(c)
        PROVE  FALSE
    BY <2>2 DEF TryAcquire, AcquireClosed, AcquireFirstProbe, AcquireProbe
  <2>3. ASSUME NEW c \in Calls, Success(c) \/ Failure(c) \/ Drop(c)
        PROVE  mode' = "Open" /\ elapsed' >= elapsed /\ held' \subseteq held
    BY <2>3 DEF Success, Failure, Drop, Spend
  <2> QED
    BY <2>1, <2>2, <2>3 DEF Next
<1> QED
  BY <1>1, TypeCorrect, PTL DEF Spec, CoolsDownUndisturbed

----------------------------------------------------------------------------
(* Filtering a list of providers, a fold, by induction on its length.       *)

\* Induction on the natural numbers, for a set instead of a predicate.
LEMMA NatSetInduction ==
    ASSUME NEW T, 0 \in T, \A n \in Nat : n \in T => n + 1 \in T
    PROVE  Nat \subseteq T
<1> SUFFICES ASSUME Nat \ T # {}
             PROVE  FALSE
  OBVIOUS
<1>1. PICK n \in Nat \ T : \A k \in Nat \ T : ~(<<k, n>> \in OpToRel(<, Nat))
  BY NatLessThanWellFounded, WFMin
<1>2. n # 0 /\ n - 1 \in Nat
  OBVIOUS
<1>3. <<n - 1, n>> \in OpToRel(<, Nat)
  BY <1>2 DEF OpToRel
<1>4. n - 1 \in T
  BY <1>1, <1>2, <1>3
<1> QED
  BY <1>2, <1>4

\* What the filter does with the next provider, and with those at a set of places.
Retain(kept, p, keep) == IF p \in keep THEN Append(kept, p) ELSE kept
Fold(ps, keep, g, s) == IF s = {} THEN <<>> ELSE Retain(g[s \ {Max(s)}], ps[Max(s)], keep)

\* A solution of the recursion for the first n providers of the list.
Solves(g, ps, keep, n) == g = [s \in SUBSET (1 .. n) |-> Fold(ps, keep, g, s)]

\* The place that the fold takes off is the last one.
LEMMA MaxOfRange ==
    ASSUME NEW n \in Nat, NEW s \in SUBSET (1 .. n + 1), n + 1 \in s
    PROVE  Max(s) = n + 1 /\ s \ {n + 1} \in SUBSET (1 .. n)
<1>1. \A y \in s: y \in Nat /\ n + 1 >= y
  OBVIOUS
<1>2. \E x \in s: \A y \in s: x >= y
  BY <1>1
<1>3. Max(s) \in s /\ \A y \in s: Max(s) >= y
  BY <1>2 DEF Max
<1>4. Max(s) = n + 1
  <2>1. Max(s) \in Nat /\ n + 1 >= Max(s)
    BY <1>1, <1>3
  <2>2. Max(s) >= n + 1
    BY <1>3
  <2> QED
    BY <2>1, <2>2
<1>5. s \ {n + 1} \in SUBSET (1 .. n)
  OBVIOUS
<1> QED
  BY <1>4, <1>5

\* The recursion of the fold has a solution for every list.
LEMMA FoldDefined ==
    ASSUME NEW ps \in Seq(Providers), NEW keep
    PROVE  \E g: Solves(g, ps, keep, Len(ps))
<1> DEFINE T == {n \in Nat: n <= Len(ps) => \E g: Solves(g, ps, keep, n)}
<1>1. 0 \in T
  <2> DEFINE g == [s \in SUBSET (1 .. 0) |-> <<>>]
  <2>1. \A s \in SUBSET (1 .. 0): s = {}
    OBVIOUS
  <2>2. Solves(g, ps, keep, 0)
    BY <2>1 DEF Solves, Fold
  <2> HIDE DEF g
  <2> QED
    BY <2>2
<1>2. ASSUME NEW n \in Nat, n \in T
      PROVE  n + 1 \in T
  <2> SUFFICES ASSUME n + 1 <= Len(ps)
               PROVE  \E g: Solves(g, ps, keep, n + 1)
    OBVIOUS
  <2>1. PICK g: Solves(g, ps, keep, n)
    BY <1>2
  <2> DEFINE f == [s \in SUBSET (1 .. n + 1) |->
                     IF n + 1 \in s THEN Retain(g[s \ {n + 1}], ps[n + 1], keep) ELSE g[s]]
  <2>2. \A s \in SUBSET (1 .. n + 1): n + 1 \notin s => s \in SUBSET (1 .. n)
    OBVIOUS
  <2>3. f = [s \in SUBSET (1 .. n + 1) |-> f[s]]
    OBVIOUS
  <2>4. ASSUME NEW s \in SUBSET (1 .. n)
        PROVE  f[s] = g[s]
    <3>1. s \in SUBSET (1 .. n + 1) /\ n + 1 \notin s
      OBVIOUS
    <3> QED
      BY <3>1
  <2>5. ASSUME NEW s \in SUBSET (1 .. n + 1)
        PROVE  f[s] = Fold(ps, keep, f, s)
    <3>1. CASE n + 1 \in s
      <4>1. Max(s) = n + 1 /\ s \ {n + 1} \in SUBSET (1 .. n)
        BY <3>1, MaxOfRange
      <4>2. f[s] = Retain(g[s \ {n + 1}], ps[n + 1], keep)
        BY <3>1
      <4>3. f[s \ {n + 1}] = g[s \ {n + 1}]
        BY <2>4, <4>1
      <4> HIDE DEF f
      <4> QED
        BY <3>1, <4>1, <4>2, <4>3 DEF Fold
    <3>2. CASE n + 1 \notin s
      <4>1. s \in SUBSET (1 .. n) /\ s \ {Max(s)} \in SUBSET (1 .. n)
        BY <2>2, <3>2
      <4>2. f[s] = g[s] /\ f[s \ {Max(s)}] = g[s \ {Max(s)}]
        BY <2>4, <4>1
      <4>3. g[s] = Fold(ps, keep, g, s)
        BY <2>1, <4>1 DEF Solves
      <4> HIDE DEF f
      <4> QED
        BY <4>2, <4>3 DEF Fold
    <3> QED
      BY <3>1, <3>2
  <2>6. Solves(f, ps, keep, n + 1)
    <3> HIDE DEF f
    <3> QED
      BY <2>3, <2>5 DEF Solves
  <2> HIDE DEF f
  <2> QED
    BY <2>6
<1>3. Nat \subseteq T
  <2> HIDE DEF T
  <2> QED
    BY <1>1, <1>2, NatSetInduction
<1> QED
  BY <1>3

\* Filtered is a solution of that recursion.
LEMMA FilteredFolds ==
    ASSUME NEW ps \in Seq(Providers), NEW keep
    PROVE  \E g: Solves(g, ps, keep, Len(ps)) /\ Filtered(ps, keep) = g[1 .. Len(ps)]
<1> DEFINE n == Len(ps)
           S == SUBSET (1 .. n)
           it == CHOOSE g: g = [s \in S |-> Fold(ps, keep, g, s)]
<1>1. DOMAIN ps = 1 .. n
  OBVIOUS
<1>2. PICK f: Solves(f, ps, keep, n)
  BY FoldDefined
<1>3. f = [s \in S |-> Fold(ps, keep, f, s)]
  BY <1>2 DEF Solves
<1>4. it = [s \in S |-> Fold(ps, keep, it, s)]
  BY <1>3, Zenon
<1>5. Filtered(ps, keep) = it[1 .. n]
  BY <1>1, Zenon DEF Filtered, FoldLeft, MapThenFoldSet, Fold, Retain
<1> HIDE DEF it
<1> QED
  BY <1>4, <1>5 DEF Solves


\* The filter, one provider after the other.
Trace(f, ps, keep) ==
    /\ f \in [0 .. Len(ps) -> Seq(Providers)] /\ f[0] = <<>>
    /\ \A k \in Nat : k + 1 <= Len(ps) => f[k + 1] = Retain(f[k], ps[k + 1], keep)

\* The fold takes the providers in their order.
LEMMA FilteredTrace ==
    ASSUME NEW ps \in Seq(Providers), NEW keep
    PROVE  \E f : Trace(f, ps, keep) /\ Filtered(ps, keep) = f[Len(ps)]
<1>1. PICK g: Solves(g, ps, keep, Len(ps)) /\ Filtered(ps, keep) = g[1 .. Len(ps)]
  BY FilteredFolds
<1> DEFINE f == [k \in 0 .. Len(ps) |-> g[1 .. k]]
           T == {k \in Nat: k <= Len(ps) => f[k] \in Seq(Providers)}
<1>2. \A k \in Nat: k <= Len(ps) => f[k] = g[1 .. k]
  OBVIOUS
<1>3. f[0] = <<>>
  <2>1. 1 .. 0 = {} /\ 1 .. 0 \in SUBSET (1 .. Len(ps))
    OBVIOUS
  <2>2. g[1 .. 0] = <<>>
    BY <1>1, <2>1 DEF Solves, Fold
  <2> QED
    BY <1>2, <2>2
<1>4. ASSUME NEW k \in Nat, k + 1 <= Len(ps)
      PROVE  f[k + 1] = Retain(f[k], ps[k + 1], keep)
  <2>1. /\ 1 .. k + 1 \in SUBSET (1 .. Len(ps)) /\ 1 .. k + 1 # {} /\ k + 1 \in 1 .. k + 1
        /\ (1 .. k + 1) \ {k + 1} = 1 .. k
    <3>1. k + 1 \in 1 .. Len(ps) /\ Len(ps) \in Nat
      BY <1>4
    <3>2. k + 1 \in 1 .. k + 1
      OBVIOUS
    <3>3. 1 .. k + 1 \in SUBSET (1 .. Len(ps))
      BY <3>1
    <3>4. (1 .. k + 1) \ {k + 1} = 1 .. k
      OBVIOUS
    <3> QED
      BY <3>2, <3>3, <3>4
  <2>2. Max(1 .. k + 1) = k + 1
    BY <2>1, MaxOfRange
  <2>3. g[1 .. k + 1] = Retain(g[1 .. k], ps[k + 1], keep)
    BY <1>1, <2>1, <2>2 DEF Solves, Fold
  <2>4. f[k + 1] = g[1 .. k + 1] /\ f[k] = g[1 .. k]
    BY <1>2, <1>4
  <2> QED
    BY <2>3, <2>4
<1>5. 0 \in T
  <2>1. <<>> \in Seq(Providers)
    OBVIOUS
  <2> HIDE DEF f
  <2> QED
    BY <1>3, <2>1
<1>6. ASSUME NEW k \in Nat, k \in T
      PROVE  k + 1 \in T
  <2> SUFFICES ASSUME k + 1 <= Len(ps)
               PROVE  f[k + 1] \in Seq(Providers)
    OBVIOUS
  <2> HIDE DEF f
  <2>1. f[k] \in Seq(Providers) /\ ps[k + 1] \in Providers
    BY <1>6
  <2>2. Append(f[k], ps[k + 1]) \in Seq(Providers)
    BY <2>1
  <2>3. f[k + 1] = Retain(f[k], ps[k + 1], keep)
    BY <1>4
  <2> QED
    BY <2>1, <2>2, <2>3 DEF Retain
<1>7. Nat \subseteq T
  <2> HIDE DEF T
  <2> QED
    BY <1>5, <1>6, NatSetInduction
<1>8. f \in [0 .. Len(ps) -> Seq(Providers)]
  <2>1. ASSUME NEW k \in 0 .. Len(ps)
        PROVE  f[k] \in Seq(Providers)
    <3>1. k \in Nat /\ k <= Len(ps)
      OBVIOUS
    <3> HIDE DEF f
    <3> QED
      BY <1>7, <3>1
  <2> QED
    BY <2>1
<1>9. Filtered(ps, keep) = f[Len(ps)]
  BY <1>1, <1>2
<1> HIDE DEF f
<1> QED
  BY <1>3, <1>4, <1>8, <1>9 DEF Trace

\* So the filter leaves the empty list empty,
LEMMA FilteredEmpty ==
    ASSUME NEW keep
    PROVE  Filtered(<<>>, keep) = <<>>
<1>1. <<>> \in Seq(Providers) /\ Len(<<>>) = 0
  OBVIOUS
<1> QED
  BY <1>1, FilteredTrace DEF Trace

\* holds providers only,
LEMMA FilteredType ==
    ASSUME NEW ps \in Seq(Providers), NEW keep
    PROVE  Filtered(ps, keep) \in Seq(Providers)
<1>1. PICK f : Trace(f, ps, keep) /\ Filtered(ps, keep) = f[Len(ps)]
  BY FilteredTrace
<1>2. Len(ps) \in 0 .. Len(ps)
  OBVIOUS
<1> QED
  BY <1>1, <1>2 DEF Trace

\* and leaves one more provider out or puts it behind those that are kept.
LEMMA FilteredAppend ==
    ASSUME NEW ps \in Seq(Providers), NEW p \in Providers, NEW keep
    PROVE  Filtered(Append(ps, p), keep) = Retain(Filtered(ps, keep), p, keep)
<1> DEFINE n == Len(ps)
           e == Append(ps, p)
<1>1. /\ e \in Seq(Providers) /\ Len(e) = n + 1 /\ n \in Nat /\ e[n + 1] = p
      /\ \A k \in Nat: k + 1 <= n => e[k + 1] = ps[k + 1]
  OBVIOUS
<1> HIDE DEF e
<1>2. PICK f: Trace(f, ps, keep) /\ Filtered(ps, keep) = f[n]
  BY FilteredTrace
<1>3. PICK h: Trace(h, e, keep) /\ Filtered(e, keep) = h[n + 1]
  BY <1>1, FilteredTrace
<1> DEFINE T == {k \in Nat: k <= n => f[k] = h[k]}
<1>4. 0 \in T
  BY <1>2, <1>3 DEF Trace
<1>5. ASSUME NEW k \in Nat, k \in T
      PROVE  k + 1 \in T
  <2> SUFFICES ASSUME k + 1 <= n
               PROVE  f[k + 1] = h[k + 1]
    OBVIOUS
  <2>1. f[k] = h[k] /\ k + 1 <= n + 1
    BY <1>1, <1>5
  <2>2. f[k + 1] = Retain(f[k], ps[k + 1], keep)
    BY <1>2 DEF Trace
  <2>3. h[k + 1] = Retain(h[k], e[k + 1], keep)
    BY <1>1, <1>3, <2>1 DEF Trace
  <2> QED
    BY <1>1, <2>1, <2>2, <2>3
<1>6. Nat \subseteq T
  <2> HIDE DEF T
  <2> QED
    BY <1>4, <1>5, NatSetInduction
<1>7. f[n] = h[n]
  BY <1>1, <1>6
<1>8. h[n + 1] = Retain(h[n], p, keep)
  BY <1>1, <1>3 DEF Trace
<1> QED
  BY <1>2, <1>3, <1>7, <1>8 DEF e

\* A prefix one longer has one provider more.
LEMMA PrefixAppend ==
    ASSUME NEW ps \in Seq(Providers), NEW k \in Nat, k + 1 <= Len(ps)
    PROVE  /\ SubSeq(ps, 1, k) \in Seq(Providers) /\ ps[k + 1] \in Providers
           /\ SubSeq(ps, 1, k + 1) = Append(SubSeq(ps, 1, k), ps[k + 1])
<1> DEFINE s == SubSeq(ps, 1, k)
           t == SubSeq(ps, 1, k + 1)
<1>1. /\ s \in Seq(Providers) /\ Len(s) = k /\ \A i \in 1 .. k: s[i] = ps[i]
      /\ t \in Seq(Providers) /\ Len(t) = k + 1 /\ \A i \in 1 .. k + 1: t[i] = ps[i]
      /\ ps[k + 1] \in Providers
  OBVIOUS
<1> HIDE DEF s, t
<1>2. /\ Append(s, ps[k + 1]) \in Seq(Providers) /\ Len(Append(s, ps[k + 1])) = k + 1
      /\ \A i \in 1 .. k + 1: Append(s, ps[k + 1])[i] = ps[i]
  BY <1>1
<1>3. t = Append(s, ps[k + 1])
  BY <1>1, <1>2
<1> QED
  BY <1>1, <1>3 DEF s, t

\* The shortest prefix and the longest one.
LEMMA PrefixEnds ==
    ASSUME NEW ps \in Seq(Providers)
    PROVE  SubSeq(ps, 1, 0) = <<>> /\ SubSeq(ps, 1, Len(ps)) = ps
OBVIOUS

\* The filter of a prefix, one provider further.
LEMMA FilteredPrefix ==
    ASSUME NEW ps \in Seq(Providers), NEW keep, NEW k \in Nat, k + 1 <= Len(ps)
    PROVE  /\ Filtered(SubSeq(ps, 1, k), keep) \in Seq(Providers)
           /\ Filtered(SubSeq(ps, 1, k + 1), keep)
                = Retain(Filtered(SubSeq(ps, 1, k), keep), ps[k + 1], keep)
<1> DEFINE s == SubSeq(ps, 1, k)
<1>1. s \in Seq(Providers) /\ ps[k + 1] \in Providers /\ SubSeq(ps, 1, k + 1) = Append(s, ps[k + 1])
  BY PrefixAppend
<1> HIDE DEF s
<1>2. Filtered(s, keep) \in Seq(Providers)
  BY <1>1, FilteredType
<1>3. Filtered(Append(s, ps[k + 1]), keep) = Retain(Filtered(s, keep), ps[k + 1], keep)
  BY <1>1, FilteredAppend
<1> QED
  BY <1>1, <1>2, <1>3 DEF s

\* s stands at the beginning of t.
Begins(s, t) == Len(s) <= Len(t) /\ \A i \in 1 .. Len(s): t[i] = s[i]

\* A list with one provider more.
LEMMA Appended ==
    ASSUME NEW s \in Seq(Providers), NEW p \in Providers
    PROVE  /\ Append(s, p) \in Seq(Providers)
           /\ ToSet(Append(s, p)) = ToSet(s) \cup {p}
           /\ \A t \in Seq(Providers): Begins(t, s) => Begins(t, Append(s, p))
<1> DEFINE e == Append(s, p)
<1>1. /\ e \in Seq(Providers) /\ Len(e) = Len(s) + 1 /\ Len(s) \in Nat /\ e[Len(s) + 1] = p
      /\ \A i \in 1 .. Len(s): e[i] = s[i] /\ DOMAIN e = 1 .. Len(s) + 1 /\ DOMAIN s = 1 .. Len(s)
  OBVIOUS
<1> HIDE DEF e
<1>2. \A i: i \in 1 .. Len(s) + 1 <=> i \in 1 .. Len(s) \/ i = Len(s) + 1
  BY <1>1
<1>3. ToSet(e) = ToSet(s) \cup {p}
  <2>1. DOMAIN e = 1 .. Len(s) + 1 /\ DOMAIN s = 1 .. Len(s)
    BY <1>1
  <2> QED
    BY <1>1, <1>2, <2>1, Zenon DEF ToSet
<1>4. \A t \in Seq(Providers): Begins(t, s) => Begins(t, e)
  <2> SUFFICES ASSUME NEW t \in Seq(Providers), Begins(t, s)
               PROVE  Begins(t, e)
    OBVIOUS
  <2>1. Len(t) \in Nat /\ Len(t) <= Len(s) /\ \A i \in 1 .. Len(t): s[i] = t[i]
    BY DEF Begins
  <2>2. \A i \in 1 .. Len(t): i \in 1 .. Len(s)
    BY <1>1, <2>1
  <2> QED
    BY <1>1, <2>1, <2>2 DEF Begins
<1> QED
  BY <1>1, <1>3, <1>4 DEF e

\* What the filter has kept of a prefix is the beginning of what it keeps of the list.
LEMMA FilteredGrows ==
    ASSUME NEW ps \in Seq(Providers), NEW keep, NEW k \in Nat, k <= Len(ps)
    PROVE  Begins(Filtered(SubSeq(ps, 1, k), keep), Filtered(ps, keep))
<1> DEFINE F(m) == Filtered(SubSeq(ps, 1, m), keep)
           T == {d \in Nat: k + d <= Len(ps) => F(k + d) \in Seq(Providers) /\ Begins(F(k), F(k + d))}
<1>1. SubSeq(ps, 1, k) \in Seq(Providers)
  OBVIOUS
<1>2. 0 \in T
  <2>1. F(k) \in Seq(Providers)
    BY <1>1, FilteredType
  <2>2. k + 0 = k
    OBVIOUS
  <2> HIDE DEF F
  <2> QED
    BY <2>1, <2>2 DEF Begins
<1>3. ASSUME NEW d \in Nat, d \in T
      PROVE  d + 1 \in T
  <2> SUFFICES ASSUME k + (d + 1) <= Len(ps)
               PROVE  F(k + (d + 1)) \in Seq(Providers) /\ Begins(F(k), F(k + (d + 1)))
    OBVIOUS
  <2>1. k + d \in Nat /\ k + (d + 1) = (k + d) + 1 /\ ps[k + (d + 1)] \in Providers
    OBVIOUS
  <2>2. F(k + (d + 1)) = Retain(F(k + d), ps[k + (d + 1)], keep)
    BY <2>1, FilteredPrefix
  <2>3. F(k + d) \in Seq(Providers) /\ Begins(F(k), F(k + d)) /\ F(k) \in Seq(Providers)
    <3>1. F(k) \in Seq(Providers)
      BY <1>1, FilteredType
    <3>2. k + d <= Len(ps)
      OBVIOUS
    <3> HIDE DEF F
    <3> QED
      BY <1>3, <3>1, <3>2
  <2> HIDE DEF F
  <2>4. CASE ps[k + (d + 1)] \notin keep
    BY <2>2, <2>3, <2>4 DEF Retain
  <2>5. CASE ps[k + (d + 1)] \in keep
    <3>1. F(k + (d + 1)) = Append(F(k + d), ps[k + (d + 1)])
      BY <2>2, <2>5 DEF Retain
    <3>2. \A s, t \in Seq(Providers), p \in Providers:
            Begins(t, s) => Append(s, p) \in Seq(Providers) /\ Begins(t, Append(s, p))
      BY Appended
    <3> QED
      BY <2>1, <2>3, <3>1, <3>2, Zenon
  <2> QED
    BY <2>4, <2>5
<1>4. Nat \subseteq T
  <2> HIDE DEF T
  <2> QED
    BY <1>2, <1>3, NatSetInduction
<1>5. Len(ps) - k \in Nat /\ k + (Len(ps) - k) = Len(ps)
  OBVIOUS
<1>6. Begins(F(k), F(Len(ps)))
  <2> HIDE DEF F
  <2> QED
    BY <1>4, <1>5
<1> QED
  BY <1>6, PrefixEnds

\* The filter keeps what it should and nothing else.
LEMMA FilteredMembers ==
    ASSUME NEW ps \in Seq(Providers), NEW keep
    PROVE  ToSet(Filtered(ps, keep)) = ToSet(ps) \cap keep
<1> DEFINE F(m) == Filtered(SubSeq(ps, 1, m), keep)
           T == {k \in Nat: k <= Len(ps) => ToSet(F(k)) = {ps[i] : i \in 1 .. k} \cap keep}
<1>1. 0 \in T
  <2>1. F(0) = <<>>
    BY PrefixEnds, FilteredEmpty
  <2>2. ToSet(<<>>) = {} /\ 1 .. 0 = {}
    BY DEF ToSet
  <2> HIDE DEF F
  <2> QED
    BY <2>1, <2>2
<1>2. ASSUME NEW k \in Nat, k \in T
      PROVE  k + 1 \in T
  <2> SUFFICES ASSUME k + 1 <= Len(ps)
               PROVE  ToSet(F(k + 1)) = {ps[i] : i \in 1 .. k + 1} \cap keep
    OBVIOUS
  <2>1. F(k) \in Seq(Providers) /\ F(k + 1) = Retain(F(k), ps[k + 1], keep) /\ ps[k + 1] \in Providers
    BY FilteredPrefix
  <2> HIDE DEF F
  <2>2. ToSet(F(k)) = {ps[i] : i \in 1 .. k} \cap keep
    BY <1>2
  <2>3. {ps[i] : i \in 1 .. k + 1} = {ps[i] : i \in 1 .. k} \cup {ps[k + 1]}
    <3>1. \A i: i \in 1 .. k + 1 <=> i \in 1 .. k \/ i = k + 1
      OBVIOUS
    <3> QED
      BY <3>1, Zenon
  <2>4. CASE ps[k + 1] \notin keep
    BY <2>1, <2>2, <2>3, <2>4 DEF Retain
  <2>5. CASE ps[k + 1] \in keep
    <3>1. F(k + 1) = Append(F(k), ps[k + 1])
      BY <2>1, <2>5 DEF Retain
    <3>2. ToSet(F(k + 1)) = ToSet(F(k)) \cup {ps[k + 1]}
      BY <2>1, <3>1, Appended
    <3> QED
      BY <2>2, <2>3, <2>5, <3>2
  <2> QED
    BY <2>4, <2>5
<1>3. Nat \subseteq T
  <2> HIDE DEF T
  <2> QED
    BY <1>1, <1>2, NatSetInduction
<1>4. ToSet(F(Len(ps))) = {ps[i] : i \in 1 .. Len(ps)} \cap keep
  <2> HIDE DEF F
  <2> QED
    BY <1>3
<1>5. ToSet(ps) = {ps[i] : i \in 1 .. Len(ps)}
  BY DEF ToSet
<1> QED
  BY <1>4, <1>5, PrefixEnds

\* Filtering what a weaker filter has left changes nothing.
LEMMA FilteredTwice ==
    ASSUME NEW ps \in Seq(Providers), NEW keep, NEW less \in SUBSET keep
    PROVE  Filtered(Filtered(ps, keep), less) = Filtered(ps, less)
<1> DEFINE F(m) == Filtered(SubSeq(ps, 1, m), keep)
           G(m) == Filtered(SubSeq(ps, 1, m), less)
           T == {k \in Nat: k <= Len(ps) => Filtered(F(k), less) = G(k)}
<1>1. 0 \in T
  BY PrefixEnds, FilteredEmpty
<1>2. ASSUME NEW k \in Nat, k \in T
      PROVE  k + 1 \in T
  <2> SUFFICES ASSUME k + 1 <= Len(ps)
               PROVE  Filtered(F(k + 1), less) = G(k + 1)
    OBVIOUS
  <2>1. /\ F(k) \in Seq(Providers) /\ F(k + 1) = Retain(F(k), ps[k + 1], keep)
        /\ G(k + 1) = Retain(G(k), ps[k + 1], less) /\ ps[k + 1] \in Providers
    BY FilteredPrefix
  <2> HIDE DEF F, G
  <2>2. Filtered(F(k), less) = G(k)
    BY <1>2
  <2>3. CASE ps[k + 1] \notin keep
    BY <2>1, <2>2, <2>3 DEF Retain
  <2>4. CASE ps[k + 1] \in keep
    <3>1. F(k + 1) = Append(F(k), ps[k + 1])
      BY <2>1, <2>4 DEF Retain
    <3> QED
      BY <2>1, <2>2, <3>1, FilteredAppend
  <2> QED
    BY <2>3, <2>4
<1>3. Nat \subseteq T
  <2> HIDE DEF T
  <2> QED
    BY <1>1, <1>2, NatSetInduction
<1>4. Filtered(F(Len(ps)), less) = G(Len(ps))
  <2> HIDE DEF F, G
  <2> QED
    BY <1>3
<1> QED
  BY <1>4, PrefixEnds

\* A first provider that is kept stays the first.
LEMMA FilteredHead ==
    ASSUME NEW ps \in Seq(Providers), ps # <<>>, NEW keep, ps[1] \in keep
    PROVE  Head(Filtered(ps, keep)) = ps[1]
<1>1. Len(ps) \in Nat /\ 0 + 1 <= Len(ps) /\ ps[1] \in Providers
  OBVIOUS
<1>2. Filtered(SubSeq(ps, 1, 0 + 1), keep) = Retain(Filtered(SubSeq(ps, 1, 0), keep), ps[0 + 1], keep)
  BY <1>1, FilteredPrefix
<1>3. Filtered(SubSeq(ps, 1, 1), keep) = Append(<<>>, ps[1])
  <2>1. 0 + 1 = 1 /\ SubSeq(ps, 1, 0) = <<>>
    BY PrefixEnds
  <2>2. Filtered(SubSeq(ps, 1, 0), keep) = <<>>
    BY <2>1, FilteredEmpty
  <2> QED
    BY <1>2, <2>1, <2>2 DEF Retain
<1>4. Begins(Append(<<>>, ps[1]), Filtered(ps, keep))
  BY <1>1, <1>3, FilteredGrows
<1>5. Filtered(ps, keep) \in Seq(Providers)
  BY FilteredType
<1> QED
  BY <1>1, <1>4, <1>5 DEF Begins

----------------------------------------------------------------------------
(* The walk of a lane.                                                      *)

\* The providers of the lane's plan.
Reachable == {p \in AllowedBy(request) : AllowsTransition(request, Primary, p)}

\* What the configuration guarantees; it does not change.
Configured ==
    /\ request \in Requests /\ providers \in Seq(Providers)
    /\ \A i, j \in DOMAIN providers : i # j => providers[i].id # providers[j].id

\* The lane has decided about the first k of its allowed providers.
DecidedUpTo(k) ==
    /\ k <= Len(Allowed(request, providers))
    /\ rest = SubSeq(Allowed(request, providers), k + 1, Len(Allowed(request, providers)))
    /\ reached = Filtered(SubSeq(Allowed(request, providers), 1, k), Reachable)

\* The inductive invariant of the walk.
LaneInv ==
    /\ Configured
    /\ \E k \in Nat : DecidedUpTo(k)
    /\ contacted \subseteq ToSet(reached)
    /\ result = "exhausted" => rest = <<>>

\* The lists the lane works on.
LEMMA AllowedList ==
    ASSUME Configured
    PROVE  /\ Allowed(request, providers) \in Seq(Providers)
           /\ ToSet(Allowed(request, providers)) \subseteq AllowedBy(request)
           /\ Candidates(request, providers) = Filtered(Allowed(request, providers), Reachable)
<1>1. providers \in Seq(Providers) /\ Reachable \in SUBSET AllowedBy(request)
  BY DEF Configured, Reachable
<1>2. Filtered(providers, AllowedBy(request)) \in Seq(Providers)
  BY <1>1, FilteredType
<1>3. ToSet(Filtered(providers, AllowedBy(request))) \subseteq AllowedBy(request)
  BY <1>1, FilteredMembers
<1>4. Filtered(Filtered(providers, AllowedBy(request)), Reachable) = Filtered(providers, Reachable)
  BY <1>1, FilteredTwice
<1>5. Candidates(request, providers) = Filtered(providers, Reachable)
  BY DEF Candidates, Reachable, Primary
<1> QED
  BY <1>2, <1>3, <1>4, <1>5 DEF Allowed

\* The next provider of the loop is the first the lane has not decided about.
LEMMA NextProvider ==
    ASSUME Configured, NEW k \in Nat, DecidedUpTo(k), rest # <<>>
    PROVE  /\ k + 1 <= Len(Allowed(request, providers))
           /\ Head(rest) = Allowed(request, providers)[k + 1]
           /\ Head(rest) \in AllowedBy(request)
           /\ Tail(rest) = SubSeq(Allowed(request, providers), (k + 1) + 1,
                                  Len(Allowed(request, providers)))
<1> DEFINE list == Allowed(request, providers)
<1>1. list \in Seq(Providers) /\ ToSet(list) \subseteq AllowedBy(request)
  BY AllowedList
<1>2. rest = SubSeq(list, k + 1, Len(list)) /\ k <= Len(list)
  BY DEF DecidedUpTo
<1> HIDE DEF list
<1>3. k + 1 <= Len(list)
  BY <1>1, <1>2
<1>4. Head(rest) = list[k + 1]
  BY <1>1, <1>2, <1>3
<1>5. list[k + 1] \in ToSet(list)
  BY <1>1, <1>3 DEF ToSet
<1>6. Tail(rest) = SubSeq(list, (k + 1) + 1, Len(list))
  <2> DEFINE s == SubSeq(list, k + 1, Len(list))
             t == SubSeq(list, (k + 1) + 1, Len(list))
             n == Len(list) - k
  <2>1. n \in Nat /\ n >= 1
    BY <1>1, <1>3
  <2>2. s \in Seq(Providers) /\ Len(s) = n /\ \A i \in 1 .. n: s[i] = list[k + i]
    BY <1>1, <1>3
  <2>3. t \in Seq(Providers) /\ Len(t) = n - 1 /\ \A i \in 1 .. n - 1: t[i] = list[(k + 1) + i]
    BY <1>1, <1>3
  <2> HIDE DEF s, t, n
  <2>4. /\ Tail(s) \in Seq(Providers) /\ Len(Tail(s)) = n - 1
        /\ \A i \in 1 .. n - 1: Tail(s)[i] = s[i + 1]
    BY <2>1, <2>2
  <2>5. \A i \in 1 .. n - 1: i + 1 \in 1 .. n /\ k + (i + 1) = (k + 1) + i
    BY <2>1
  <2>6. \A i \in 1 .. n - 1: Tail(s)[i] = t[i]
    BY <2>2, <2>3, <2>4, <2>5
  <2>7. Tail(s) = t
    BY <2>1, <2>3, <2>4, <2>6
  <2> QED
    BY <1>2, <2>7 DEF s, t
<1> QED
  BY <1>1, <1>3, <1>4, <1>5, <1>6 DEF list

\* A provider that is reached joins the list of those that were, as in the plan.
LEMMA ReachStep ==
    ASSUME LaneInv, NEW p \in Providers, Reach(p)
    PROVE  /\ Configured' /\ (\E k \in Nat : DecidedUpTo(k))'
           /\ ToSet(reached') = ToSet(reached) \cup {p}
<1>1. PICK k \in Nat: DecidedUpTo(k)
  BY DEF LaneInv
<1> DEFINE list == Allowed(request, providers)
<1>2. Configured /\ UNCHANGED <<request, providers>> /\ Configured'
  BY DEF LaneInv, Reach, Configured
<1>3. list \in Seq(Providers)
  BY <1>2, AllowedList
<1>4. /\ k + 1 <= Len(list) /\ p = list[k + 1] /\ p \in AllowedBy(request)
      /\ rest' = SubSeq(list, (k + 1) + 1, Len(list))
  BY <1>1, <1>2, NextProvider DEF Reach
<1>5. p \in Reachable /\ reached' = Append(reached, p)
  BY <1>4 DEF Reach, Reachable
<1>6. UNCHANGED <<list, Reachable>>
  BY <1>2 DEF Reachable, Primary
<1>7. reached = Filtered(SubSeq(list, 1, k), Reachable)
  BY <1>1 DEF DecidedUpTo
<1> HIDE DEF list
<1>8. /\ Filtered(SubSeq(list, 1, k), Reachable) \in Seq(Providers)
      /\ Filtered(SubSeq(list, 1, k + 1), Reachable)
           = Retain(Filtered(SubSeq(list, 1, k), Reachable), list[k + 1], Reachable)
  BY <1>3, <1>4, FilteredPrefix
<1>9. reached' = Filtered(SubSeq(list, 1, k + 1), Reachable)
  BY <1>4, <1>5, <1>7, <1>8 DEF Retain
<1>10. DecidedUpTo(k + 1)'
  BY <1>4, <1>6, <1>9 DEF DecidedUpTo, list
<1>11. ToSet(reached') = ToSet(reached) \cup {p}
  BY <1>5, <1>7, <1>8, Appended
<1> QED
  BY <1>2, <1>10, <1>11

\* A provider that is skipped is not one of the plan.
LEMMA SkipStep ==
    ASSUME LaneInv, SkipForbidden
    PROVE  LaneInv'
<1>1. PICK k \in Nat: DecidedUpTo(k)
  BY DEF LaneInv
<1> DEFINE list == Allowed(request, providers)
<1>2. Configured /\ UNCHANGED <<request, providers>> /\ Configured'
  BY DEF LaneInv, SkipForbidden, Configured
<1>3. list \in Seq(Providers)
  BY <1>2, AllowedList
<1>4. /\ k + 1 <= Len(list) /\ Head(rest) = list[k + 1]
      /\ rest' = SubSeq(list, (k + 1) + 1, Len(list))
  BY <1>1, <1>2, NextProvider DEF SkipForbidden
<1>5. list[k + 1] \notin Reachable /\ UNCHANGED reached
  BY <1>4 DEF SkipForbidden, Reachable
<1>6. UNCHANGED <<list, Reachable>>
  BY <1>2 DEF Reachable, Primary
<1>7. reached = Filtered(SubSeq(list, 1, k), Reachable)
  BY <1>1 DEF DecidedUpTo
<1> HIDE DEF list
<1>8. Filtered(SubSeq(list, 1, k + 1), Reachable)
        = Retain(Filtered(SubSeq(list, 1, k), Reachable), list[k + 1], Reachable)
  BY <1>3, <1>4, FilteredPrefix
<1>9. reached' = Filtered(SubSeq(list, 1, k + 1), Reachable)
  BY <1>5, <1>7, <1>8 DEF Retain
<1>10. DecidedUpTo(k + 1)'
  BY <1>4, <1>6, <1>9 DEF DecidedUpTo, list
<1> QED
  BY <1>2, <1>10 DEF LaneInv, SkipForbidden

\* Every step of the loop keeps the invariant of the lane.
LEMMA LaneInvariance ==
    ASSUME LaneInv, [LaneNext]_laneVars
    PROVE  LaneInv'
<1>1. CASE UNCHANGED laneVars
  BY <1>1 DEF laneVars, LaneInv, Configured, DecidedUpTo, Reachable, Primary
<1>2. ASSUME NEW p \in Providers, CircuitRefuses(p) \/ CallFails(p) \/ CallServes(p)
      PROVE  LaneInv'
  <2>1. /\ Reach(p) /\ result = "running" /\ result' # "exhausted"
        /\ contacted' \subseteq contacted \cup {p}
    BY <1>2 DEF CircuitRefuses, CallFails, CallServes, Reach
  <2>2. /\ Configured' /\ (\E k \in Nat : DecidedUpTo(k))'
        /\ ToSet(reached') = ToSet(reached) \cup {p}
    BY <2>1, ReachStep
  <2>3. contacted \subseteq ToSet(reached)
    BY DEF LaneInv
  <2> QED
    BY <2>1, <2>2, <2>3 DEF LaneInv
<1>3. CASE SkipForbidden
  BY <1>3, SkipStep
<1>4. CASE Exhausted
  BY <1>4 DEF Exhausted, LaneInv, Configured, DecidedUpTo, Reachable, Primary
<1> QED
  BY <1>1, <1>2, <1>3, <1>4 DEF LaneNext, LaneStep, Ended

\* The invariant of the lane holds in every behaviour.
LEMMA LaneInvariant == LaneSpec => []LaneInv
<1>1. LaneInit => LaneInv
  <2> SUFFICES ASSUME LaneInit
               PROVE  LaneInv
    OBVIOUS
  <2>1. PICK n \in 0 .. MaxProviders: providers \in [1 .. n -> Providers]
    BY DEF LaneInit
  <2>2. n \in Nat
    BY BoundAssumption
  <2>3. providers \in Seq(Providers)
    BY <2>1, <2>2
  <2>4. Configured
    BY <2>3 DEF LaneInit, Configured
  <2>5. Allowed(request, providers) \in Seq(Providers)
    BY <2>4, AllowedList
  <2>6. DecidedUpTo(0)
    <3> DEFINE list == Allowed(request, providers)
    <3>1. rest = list /\ reached = <<>> /\ list \in Seq(Providers)
      BY <2>5 DEF LaneInit
    <3> HIDE DEF list
    <3>2. 0 <= Len(list) /\ SubSeq(list, 0 + 1, Len(list)) = list
      BY <3>1
    <3>3. Filtered(SubSeq(list, 1, 0), Reachable) = <<>>
      BY <3>1, PrefixEnds, FilteredEmpty
    <3> QED
      BY <3>1, <3>2, <3>3 DEF DecidedUpTo, list
  <2> QED
    BY <2>4, <2>6 DEF LaneInit, LaneInv
<1> QED
  BY <1>1, LaneInvariance, PTL DEF LaneSpec

\* Whatever circuits refuse and calls fail, each lane of supervisor.rs reaches the providers of
\* RoutingPlan::candidates in the plan's order, leaves none out before it gives up, and
\* contacts no other, for any list of providers and any request.
THEOREM FollowsPlan == LaneSpec => []LaneFollowsPlan
<1>1. LaneInv => LaneFollowsPlan
  <2> SUFFICES ASSUME LaneInv
               PROVE  LaneFollowsPlan
    OBVIOUS
  <2> DEFINE list == Allowed(request, providers)
             plan == Candidates(request, providers)
  <2>1. PICK k \in Nat: DecidedUpTo(k)
    BY DEF LaneInv
  <2>2. list \in Seq(Providers) /\ plan = Filtered(list, Reachable)
    BY AllowedList DEF LaneInv
  <2>3. /\ k <= Len(list) /\ reached = Filtered(SubSeq(list, 1, k), Reachable)
        /\ rest = SubSeq(list, k + 1, Len(list))
    BY <2>1 DEF DecidedUpTo
  <2> HIDE DEF list, plan
  <2>4. rest = <<>> => k = Len(list)
    <3>1. Len(rest) = Len(list) - k
      BY <2>2, <2>3
    <3> QED
      BY <2>2, <3>1
  <2>5. plan \in Seq(Providers) /\ reached \in Seq(Providers)
    <3>1. SubSeq(list, 1, k) \in Seq(Providers)
      BY <2>2, <2>3
    <3> QED
      BY <2>2, <2>3, <3>1, FilteredType
  <2>6. Begins(reached, plan)
    BY <2>2, <2>3, FilteredGrows
  <2>7. IsPrefix(reached, plan)
    BY <2>5, <2>6 DEF IsPrefix, Begins
  <2>8. result = "exhausted" => reached = plan
    <3>1. SubSeq(list, 1, Len(list)) = list
      BY <2>2, PrefixEnds
    <3> QED
      BY <2>2, <2>3, <2>4, <3>1 DEF LaneInv
  <2> QED
    BY <2>7, <2>8 DEF LaneInv, LaneFollowsPlan, plan
<1> QED
  BY <1>1, LaneInvariant, PTL

\* The broker's copy of the privacy rules (BrokerPrivacyContext of resource_broker.rs) admits
\* exactly the providers of the router's, and exactly the fallbacks of its plan.
THEOREM RulesAgree == LaneSpec => []BrokerAgreesWithRouter
<1>1. LaneInv => BrokerAgreesWithRouter
  <2> SUFFICES ASSUME LaneInv
               PROVE  BrokerAgreesWithRouter
    OBVIOUS
  <2>1. /\ request \in Requests /\ providers \in Seq(Providers)
        /\ \A i, j \in DOMAIN providers : i # j => providers[i].id # providers[j].id
    BY DEF LaneInv, Configured
  <2>2. ASSUME NEW p \in Providers
        PROVE  BrokerAllows(request, p) <=> Evaluate(request, p) = "Allowed"
    BY <2>1 DEF Providers, Requests, Locations, BrokerAllows, Evaluate, IsNetworked
  <2>3. \A i \in DOMAIN providers: providers[i] \in Providers
    BY <2>1
  <2>4. ASSUME request.allowProviderFallback, providers # <<>>,
               Evaluate(request, providers[1]) = "Allowed",
               NEW i \in 2 .. Len(providers)
        PROVE  BrokerAllowsFallback(request, providers[1], providers[i])
                 <=> providers[i] \in ToSet(Candidates(request, providers))
    <3>1. /\ 1 \in DOMAIN providers /\ i \in DOMAIN providers /\ i # 1
          /\ providers[1] \in Providers /\ providers[i] \in Providers
      BY <2>1, <2>4
    <3>2. providers[1] \in AllowedBy(request)
      BY <2>4, <3>1 DEF AllowedBy
    <3>3. Primary = providers[1]
      BY <2>1, <2>4, <3>2, FilteredHead DEF Primary, Allowed
    <3>4. Candidates(request, providers) = Filtered(providers, Reachable)
      BY DEF Candidates, Reachable, Primary
    <3>5. ToSet(Candidates(request, providers)) = ToSet(providers) \cap Reachable
      BY <2>1, <3>4, FilteredMembers
    <3>6. providers[i] \in ToSet(providers)
      BY <3>1 DEF ToSet
    <3>7. providers[1].id # providers[i].id
      BY <2>1, <3>1
    <3>8. AllowsTransition(request, providers[1], providers[i])
            <=> (IsLocal(providers[1]) /\ IsNetworked(providers[i]) => request.allowLocalToCloudFallback)
      BY <2>4, <3>7 DEF AllowsTransition
    <3>9. providers[i] \in AllowedBy(request) <=> BrokerAllows(request, providers[i])
      BY <2>2, <3>1 DEF AllowedBy
    <3> QED
      BY <3>3, <3>5, <3>6, <3>8, <3>9, Zenon DEF Reachable, BrokerAllowsFallback
  <2> QED
    BY <2>2, <2>3, <2>4 DEF BrokerAgreesWithRouter
<1> QED
  BY <1>1, LaneInvariant, PTL
=============================================================================
