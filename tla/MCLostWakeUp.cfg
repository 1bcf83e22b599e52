SPECIFICATION FairSpec
CONSTANTS
    Commands = {RUN_KERNEL}
    Executable = {RUN_KERNEL}
    NOP = NOP
    MaxStarts = 2
INVARIANT WakeUpWakes
