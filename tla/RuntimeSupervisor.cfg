CONSTANTS
    Callers = {c1, c2}
    Processes = {1, 2, 3, 4}
    MaxFailures = 3
    None = None
SPECIFICATION FairSpec
INVARIANTS OneRuntime NoOrphanedRuntime
PROPERTIES CallsReturn
