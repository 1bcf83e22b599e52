SPECIFICATION FairSpec
CONSTANTS
    NumThreads = 2
    NumPartitions = 3
    SegmentItems = 2
    InitialSize = 3
    OpsPerThread = 3
    Rounds = 1
    PromptHandOver = TRUE
INVARIANT SegmentsKept
PROPERTIES ImplementsQueue Terminates
