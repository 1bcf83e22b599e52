SPECIFICATION FairSpec
CONSTANTS
    Rounds = 2
    TotalOps = 6
    InitialSize = 2
    MaxIndex = 4
INVARIANT NeverEmptyNorFull
PROPERTIES ImplementsQueue Terminates
