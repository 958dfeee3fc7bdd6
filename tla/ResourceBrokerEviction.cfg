CONSTANTS
    None = None
    Ids = {"here"}
    Jobs = {"turn", "vision"}
    Job <- MCJob
    Targets <- MCTargets
    Target <- MCTarget
    Models <- MCModels
    Model <- MCModel
    Envelopes <- MCEnvelopes
    Utterances = {"u"}
    Samples <- MCSamples
    VramCeiling = 12
    TransientAllowance = 1
    TransientGrace = 1
    OomFailuresBeforeQuarantine = 1
    QuarantineTime = 1
    SnapshotLag = 1
    Skew <- MCSkew
    MaxTime = 1
    RecoveryGreenSamples = 1
    Ladder = 2
SPECIFICATION Spec
PROPERTIES NoEvictionInFlight
