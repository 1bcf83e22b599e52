SPECIFICATION Spec
INVARIANTS WellFormed AnswersJustified
PROPERTIES ImplementsSet Terminates
