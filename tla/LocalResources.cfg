CONSTANTS
    Work = {"old", "mouth", "speech", "model"}
    Kind <- MCKind
    Address <- MCAddress
    MaximumPending = 2
    Packs = {p1}
    Targets = {t1}
    Presenters = {x1, x2}
    None = None
SPECIFICATION Spec
INVARIANTS ActivationBarrier FramesHaveMetadata OneCurrentFrame
SYMMETRY Symmetry
