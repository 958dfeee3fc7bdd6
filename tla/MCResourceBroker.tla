-------------------------- MODULE MCResourceBroker --------------------------
(***************************************************************************)
(* Small instances of ResourceBroker: a machine with 10 units of VRAM and  *)
(* RAM, three targets (one model on the shared GPU, one target that wants  *)
(* the GPU for itself, one on the CPU) and five jobs.                      *)
(***************************************************************************)
EXTENDS ResourceBroker

MCProvider == [id |-> "here", location |-> "Local", mayRetainData |-> FALSE]
MCPrivacy == [executionMode |-> "FullyLocal", networkPolicy |-> "Offline",
              authorizedCloudProviders |-> {}, allowRetainingProviders |-> FALSE,
              allowProviderFallback |-> TRUE, allowLocalToCloudFallback |-> FALSE]

MCTarget ==
    [shared    |-> [provider |-> MCProvider, model |-> "m", gpu |-> "Shared",
                    ram |-> 1, resident |-> 4, transient |-> 1, duration |-> 1],
     exclusive |-> [provider |-> MCProvider, model |-> None, gpu |-> "Exclusive",
                    ram |-> 1, resident |-> 3, transient |-> 2, duration |-> 1],
     cpu       |-> [provider |-> MCProvider, model |-> None, gpu |-> "None",
                    ram |-> 4, resident |-> 0, transient |-> 0, duration |-> 0]]
MCTargets == DOMAIN MCTarget

MCModel == [m |-> [target |-> "shared", gpu |-> "Shared", envelope |-> [resident |-> 4, p99 |-> 2]]]
MCModels == DOMAIN MCModel
MCEnvelopes == {[resident |-> 5, p99 |-> 3]}

MCJob ==
    [turn   |-> [foreground |-> TRUE, utterance |-> "u", visual |-> FALSE, captured |-> 0,
                 maxAge |-> 0, priority |-> 3, deadline |-> None, policy |-> "Never", key |-> None,
                 targets |-> <<"shared", "cpu">>, privacy |-> MCPrivacy],
     llm    |-> [foreground |-> TRUE, utterance |-> None, visual |-> FALSE, captured |-> 0,
                 maxAge |-> 0, priority |-> 2, deadline |-> 0, policy |-> "DropIfLate", key |-> None,
                 targets |-> <<"exclusive", "shared">>, privacy |-> MCPrivacy],
     speech |-> [foreground |-> FALSE, utterance |-> None, visual |-> FALSE, captured |-> 0,
                 maxAge |-> 0, priority |-> 2, deadline |-> None, policy |-> "Supersede", key |-> "k",
                 targets |-> <<"shared">>, privacy |-> MCPrivacy],
     next   |-> [foreground |-> FALSE, utterance |-> None, visual |-> TRUE, captured |-> 0,
                 maxAge |-> 0, priority |-> 2, deadline |-> None, policy |-> "Supersede", key |-> "k",
                 targets |-> <<"exclusive">>, privacy |-> MCPrivacy],
     vision |-> [foreground |-> FALSE, utterance |-> None, visual |-> TRUE, captured |-> 0,
                 maxAge |-> 1, priority |-> 1, deadline |-> None, policy |-> "DropUnderPressure",
                 key |-> None, targets |-> <<"shared">>, privacy |-> MCPrivacy]]

\* The machine idle, and busy with the game.  Telemetry reads the usage and the broker's
\* share of it one after the other, under two locks, while the host updates them one after
\* the other: the first sample is torn, it attributes to the broker what it does not show.
MCSkew == 1
MCSamples ==
    {[time |-> 0, vramUsed |-> 0, vramBudget |-> 12, ramUsed |-> 0, ramBudget |-> 12, gpu |-> 0,
      accountedResident |-> MCSkew, accountedTransient |-> 0],
     [time |-> 0, vramUsed |-> 5, vramBudget |-> 12, ramUsed |-> 3, ramBudget |-> 12, gpu |-> 50,
      accountedResident |-> 0, accountedTransient |-> 0]}

\* The bound of the instance: two jobs contend when a model is registered or a target has
\* run out of memory, and four when not; and an utterance is bound, or a job marked by its
\* caller, only among the two and without a model (no step of a job or a model reads the
\* marks).
Scope ==
    LET jobs     == ActiveJobs \cup queued
        unbound  == \A u \in Utterances : binding[u] = None
        unmarked == \A j \in ActiveJobs :
                       /\ ~active[j].outputStarted
                       /\ active[j].cancelled => active[j].overageEnds # None
        noModel  == \A m \in Models : ledger[m].state = "Unregistered"
    IN  \/ jobs \subseteq {"turn", "vision"} /\ (noModel \/ (unbound /\ unmarked))
        \/ /\ jobs \subseteq {"turn", "llm", "speech", "next"}
           /\ unbound /\ unmarked /\ noModel
           /\ \A t \in Targets : health[t].ooms = 0

MCNext == Next /\ Scope'
MCSpec == BrokerInit /\ [][MCNext]_brokerVars
=============================================================================
