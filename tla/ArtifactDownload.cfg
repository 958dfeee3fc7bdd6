CONSTANTS
    Contents = {good, bad, other, weak}
    Artifact = good
    Unvalidated = {weak}
    Size = 6
    CheckpointBlocks = 2
    Mirrors = 3
    ReliableMirrors = {1, 2, 3}
    NoTag = NoTag
SPECIFICATION FairSpec
INVARIANTS ResumeNeverSplices CompleteIsGenuine
PROPERTIES RetriesSucceed
