SPECIFICATION FairSpec
INVARIANTS TranslatedRight NothingLeftBehind
PROPERTIES EvictsLeastRecentlyUsed ImplementsHandshake AccessCompletes
