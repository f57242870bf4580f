SPECIFICATION FairSpec
CONSTANTS
    MaxSize = 4
    Chunk = 2
    MaxBreaks = 3
INVARIANTS
    HonestLength
    AnswersRange
PROPERTIES
    DownloadKept
    DownloadEnds
