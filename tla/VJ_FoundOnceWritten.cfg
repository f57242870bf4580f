SPECIFICATION Spec
CONSTANTS
    Artifacts = {a1}
    Readers = {r1}
    MaxPolls = 2
    MaxFaults = 0
INVARIANTS
    FoundOnceWritten
CHECK_DEADLOCK FALSE
