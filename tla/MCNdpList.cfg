SPECIFICATION FairSpec
CONSTANTS
    NumThreads = 2
    MaxKey = 3
    Blocks = {b1, b2, b3, b4, b5}
    HeadBlock = b1
    TailBlock = b2
    InitialKeys = {1, 3}
    OpsPerThread = 1
    Rounds = 1
    SlowSpawn = TRUE
    Null = Null
INVARIANTS RequestStable ListSorted OpsModeKept FillServesAdds
PROPERTIES ImplementsLinearSet RequestsServed
