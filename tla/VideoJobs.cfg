SPECIFICATION FairSpec
CONSTANTS
    Artifacts = {a1, a2}
    Readers = {r1}
    MaxPolls = 2
    MaxFaults = 2
INVARIANTS
    ReadyMeansReadable
    ReadableMeansWhole
    OutcomeRecorded
PROPERTIES
    JobKept
    OutcomeFollows
    ReadsEnd
CHECK_DEADLOCK FALSE
