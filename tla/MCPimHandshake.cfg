SPECIFICATION FairSpec
CONSTANTS
    Commands = {DEMO, RUN_KERNEL, HALT}
    Executable = {DEMO, RUN_KERNEL}
    NOP = NOP
    MaxStarts = 3
INVARIANTS ExactlyOnce NoSpuriousWakeUp AssertionsHold
PROPERTIES ImplementsOffloadCall TakenCommandCompletes
