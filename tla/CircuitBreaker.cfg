CONSTANTS
    Calls = {c1, c2, c3}
    FailureThreshold = 2
    RecoverySuccessThreshold = 2
    OpenDuration = 2
    HalfOpenMaxInFlight = 2
SPECIFICATION FairSpec
INVARIANTS ProbeSlotsNotLeaked
PROPERTIES CoolsDownUndisturbed HealthyProviderRecovers
