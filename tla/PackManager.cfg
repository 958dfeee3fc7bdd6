CONSTANTS
    Revisions = {r1, r2}
    Catalogs = {d1, d2}
    Artifacts = {a1}
    Consumers = {c1}
    MaxChallenges = 2
    None = None
SPECIFICATION Spec
INVARIANTS PointerIsInstalled RollbackChangesRevision ManagerAgreesWithDisk
PROPERTIES OnlyAttestedBecomesActive ReferencedPackStays VersionsAreImmutable
SYMMETRY Symmetry
