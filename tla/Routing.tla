------------------------------ MODULE Routing ------------------------------
(***************************************************************************)
(* One lane of a turn (language model, effects or speech) walking its list *)
(* of providers, crates/runtime-core/src/supervisor.rs.  The lanes do not  *)
(* call RoutingPlan::candidates: they filter by the privacy policy first,  *)
(* take the first provider left as the primary, and test each transition   *)
(* in line while circuits refuse and calls fail.                           *)
(***************************************************************************)
EXTENDS RoutingPolicy

CONSTANT MaxProviders  \* bound: the length of a configured list

ASSUME BoundAssumption == MaxProviders \in Nat

VARIABLES
    request,    \* the TurnRequest
    providers,  \* the configured providers, in order of preference
    rest,       \* the allowed providers the loop has still to reach
    reached,    \* the providers whose circuit the lane asked, in order
    contacted,  \* the providers that received the turn's data
    result      \* "running", "served" or "exhausted"

laneVars == <<request, providers, rest, reached, contacted, result>>

LaneInit ==
    /\ request \in Requests
    /\ providers \in UNION {[1 .. n -> Providers] : n \in 0 .. MaxProviders}
    /\ \A i, j \in DOMAIN providers : i # j => providers[i].id # providers[j].id
    /\ rest = Allowed(request, providers)
    /\ reached = <<>>
    /\ contacted = {}
    /\ result = "running"

Primary == Head(Allowed(request, providers))

\* A mistake: an in-line copy of the loop compares with the provider before
\* instead of with the primary.
SkipFromPrevious ==
    /\ result = "running"
    /\ rest # <<>>
    /\ LET from == IF reached = <<>> THEN Primary ELSE Last(reached)
       IN  ~AllowsTransition(request, from, Head(rest))
    /\ rest' = Tail(rest)
    /\ UNCHANGED <<request, providers, reached, contacted, result>>

Reach(p) ==
    /\ result = "running"
    /\ rest # <<>>
    /\ p = Head(rest)
    /\ AllowsTransition(request, Primary, p)
    /\ rest' = Tail(rest)
    /\ reached' = Append(reached, p)
    /\ UNCHANGED <<request, providers>>

\* `continue': the transition from the primary is not allowed.
SkipForbidden ==
    /\ result = "running"
    /\ rest # <<>>
    /\ ~AllowsTransition(request, Primary, Head(rest))
    /\ rest' = Tail(rest)
    /\ UNCHANGED <<request, providers, reached, contacted, result>>

\* try_acquire refuses: the circuit of this provider is open.
CircuitRefuses(p) == Reach(p) /\ UNCHANGED <<contacted, result>>

\* The call fails and the loop goes on.
CallFails(p) ==
    Reach(p) /\ contacted' = contacted \cup {p} /\ UNCHANGED result

CallServes(p) ==
    Reach(p) /\ contacted' = contacted \cup {p} /\ result' = "served"

Exhausted ==
    /\ result = "running"
    /\ rest = <<>>
    /\ result' = "exhausted"
    /\ UNCHANGED <<request, providers, rest, reached, contacted>>

\* The loop is over: nothing happens any more.
Ended == result # "running" /\ UNCHANGED laneVars

LaneStep ==
    \/ \E p \in Providers : CircuitRefuses(p) \/ CallFails(p) \/ CallServes(p)
    \/ SkipForbidden
    \/ Exhausted

LaneNext == LaneStep \/ Ended

LaneSpec == LaneInit /\ [][LaneNext]_laneVars

-----------------------------------------------------------------------------
(***************************************************************************)
(* Properties.                                                             *)
(***************************************************************************)
\* Each lane re-implements RoutingPlan::candidates in line (supervisor.rs,
\* the loops of the three lanes): whatever circuits refuse and calls fail, the
\* providers it reaches are those of the plan, in the plan's order, none left
\* out when the lane gives up and none contacted besides.
LaneFollowsPlan ==
    LET plan == Candidates(request, providers)
    IN  /\ IsPrefix(reached, plan)
        /\ result = "exhausted" => reached = plan
        /\ contacted \subseteq ToSet(reached)

\* The resource broker decides by its own copy of the rules
\* (BrokerPrivacyContext, resource_broker.rs).  It admits a target exactly when
\* the router would use its provider, and for a job whose declared primary is
\* allowed it accepts the fallbacks of the router's plan and no other.
BrokerAgreesWithRouter ==
    /\ \A i \in DOMAIN providers :
          BrokerAllows(request, providers[i])
            <=> Evaluate(request, providers[i]) = "Allowed"
    /\ (/\ request.allowProviderFallback
        /\ providers # <<>>
        /\ Evaluate(request, providers[1]) = "Allowed")
       => \A i \in 2 .. Len(providers) :
            BrokerAllowsFallback(request, providers[1], providers[i])
              <=> providers[i] \in ToSet(Candidates(request, providers))

\* docs/architecture/security.md: "No local-to-cloud or cross-cloud fallback
\* occurs unless the user pre-authorized that exact route."  A cloud provider
\* other than the preferred one is contacted only if the request allows fallback
\* from the preferred one to it.  The code takes as primary the first provider the
\* privacy policy leaves, not the preferred one, so this is violated.
FallbackIsPreauthorized ==
    \A p \in contacted : IsNetworked(p) => AllowsTransition(request, providers[1], p)
=============================================================================
