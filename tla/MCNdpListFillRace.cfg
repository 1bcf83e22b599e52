SPECIFICATION Spec
CONSTANTS
    NumThreads = 2
    MaxKey = 1
    Blocks = {b1, b2, b3}
    HeadBlock = b1
    TailBlock = b2
    InitialKeys = {1}
    OpsPerThread = 1
    Rounds = 1
    SlowSpawn = FALSE
    Null = Null
INVARIANT FillServesAdds
