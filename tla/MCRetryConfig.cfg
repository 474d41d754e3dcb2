SPECIFICATION Spec
CONSTANTS
    Lost = Lost
    Absent = Absent
    Count = {"retryCount", "timeInterval", "alertsLimit"}
    Max <- MCMax
    Value = {0, 1, 2, 3}
    BootFile <- MCBootFile
    MaxEdits = 5
INVARIANTS WithinLimits FileHoldsSettings
PROPERTY RestartIsAllOrNothing
CHECK_DEADLOCK FALSE
