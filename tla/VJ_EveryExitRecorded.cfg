SPECIFICATION Spec
CONSTANTS
    Artifacts = {a1}
    Readers = {r1}
    MaxPolls = 2
    MaxFaults = 1
INVARIANTS
    EveryExitRecorded
CHECK_DEADLOCK FALSE
