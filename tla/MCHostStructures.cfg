SPECIFICATION Spec
INVARIANTS WellFormed UnlockedIsRight
PROPERTIES ImplementsSet ImplementsQueue WaitEnds
