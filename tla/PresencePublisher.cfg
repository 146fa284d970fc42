SPECIFICATION Spec
CONSTANTS
    Choices = {"busy", "offline"}
    MaxLogins = 2
    MaxRecords = 2
    Mishaps = {"failed", "late", "crash", "midtick", "muted"}
    MaxMishaps = 1
INVARIANTS RowHasKey ChoiceIsKept
PROPERTIES StatusCatchesUp AutoAwayEnds KeepsPromise
CHECK_DEADLOCK FALSE \* a user may log out and not come back
