SPECIFICATION FairSpec
CONSTANTS
    r0 = r0
    r1 = r1
    Resources = {r0, r1}
    Transfers <- MCTransfers
    SliceSize = 4
    LineSize = 2
    MaxOutstandingDma = 4
    MaxRequests = 3
    SlowCore = TRUE
INVARIANTS NoPanic StatusIsAccurate NoneAbandoned WaitMeansDone SleeperHasWaker
PROPERTIES WaitReturns
