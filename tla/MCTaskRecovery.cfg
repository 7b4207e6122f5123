SPECIFICATION FairSpec
CONSTANTS
    Tasks = {k, e}
    Keyed = {k, e}
    External = {e}
    NoTask = NoTask
    MaxBoots = 1
    MaxResumes = 1
INVARIANTS TypeOK WorkDoneOnce
PROPERTIES SettledStays RecoveredRunEnds
CHECK_DEADLOCK FALSE
