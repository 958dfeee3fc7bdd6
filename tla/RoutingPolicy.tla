--------------------------- MODULE RoutingPolicy ---------------------------
(***************************************************************************)
(* Which providers a turn may talk to: PrivacyPolicy, FallbackPolicy and   *)
(* RoutingPlan of crates/runtime-core/src/policy.rs, and the second copy   *)
(* of the same rules that the resource broker keeps (BrokerPrivacyContext  *)
(* of resource_broker.rs).                                                 *)
(***************************************************************************)
EXTENDS Naturals, Sequences, SequencesExt

CONSTANT Ids  \* the ids of the configured providers

Locations == {"Local", "Cloud", "ExternalLocalServer"}

\* ProviderDescriptor, without what routing does not read.
Providers == [id : Ids, location : Locations, mayRetainData : BOOLEAN]

\* The routing fields of TurnRequest; BrokerPrivacyContext is built from the
\* same fields, except allowProviderFallback.
Requests == [executionMode : {"Cloud", "Hybrid", "FullyLocal"},
             networkPolicy : {"Online", "Offline"},
             authorizedCloudProviders : SUBSET Ids,
             allowRetainingProviders : BOOLEAN,
             allowProviderFallback : BOOLEAN,
             allowLocalToCloudFallback : BOOLEAN]

IsNetworked(p) == p.location = "Cloud"
IsLocal(p) == ~IsNetworked(p)

\* PrivacyPolicy::evaluate: the first rule that blocks decides.
Evaluate(r, p) ==
    IF IsNetworked(p) /\ r.networkPolicy = "Offline" THEN "BlockedOffline"
    ELSE IF IsNetworked(p) /\ r.executionMode = "FullyLocal" THEN "BlockedFullyLocal"
    ELSE IF IsNetworked(p) /\ p.id \notin r.authorizedCloudProviders
         THEN "CloudProviderNotAuthorized"
    ELSE IF p.mayRetainData /\ ~r.allowRetainingProviders THEN "RetentionNotAuthorized"
    ELSE "Allowed"

\* FallbackPolicy::allows_transition.
AllowsTransition(r, from, to) ==
    \/ from.id = to.id
    \/ /\ r.allowProviderFallback
       /\ IsLocal(from) /\ IsNetworked(to) => r.allowLocalToCloudFallback

\* A mistake the two copies of the rules invite: the broker's forgets the
\* authorization list.
BrokerAllowsUnlisted(r, p) ==
    /\ p.mayRetainData => r.allowRetainingProviders
    /\ IsNetworked(p) => /\ r.networkPolicy = "Online"
                         /\ r.executionMode # "FullyLocal"

\* BrokerPrivacyContext::allows and allows_fallback.
BrokerAllows(r, p) ==
    /\ p.mayRetainData => r.allowRetainingProviders
    /\ IsNetworked(p) => /\ r.networkPolicy = "Online"
                         /\ r.executionMode # "FullyLocal"
                         /\ p.id \in r.authorizedCloudProviders

BrokerAllowsFallback(r, primary, fallback) ==
    /\ BrokerAllows(r, fallback)
    /\ IsLocal(primary) /\ IsNetworked(fallback) => r.allowLocalToCloudFallback

\* Iterator::filter: the providers of a list that are kept, in its order.
Filtered(ps, keep) ==
    FoldLeft(LAMBDA kept, p : IF p \in keep THEN Append(kept, p) ELSE kept, <<>>, ps)

\* The providers the privacy policy leaves, in the declared order
\* (allowed_llm_candidates and its copies in the other lanes).
AllowedBy(r) == {p \in Providers : Evaluate(r, p) = "Allowed"}
Allowed(r, ps) == Filtered(ps, AllowedBy(r))

\* RoutingPlan::candidates: the reference the lanes are compared with.
Candidates(r, ps) ==
    LET primary == Head(Allowed(r, ps))
    IN  Filtered(ps, {p \in AllowedBy(r) : AllowsTransition(r, primary, p)})
=============================================================================
