\* A list of two rows and one of three (what is left over); vectors too short,
\* fitting, running over the next list and over the table.
SPECIFICATION FairSpec
CONSTANTS
    Val = {0, 1}
    NLists = 2
    ListSize = 2
    NRows = 5
    Lost = Lost
    Vector <- MCVector
    Boot <- MCBoot
    MaxEdits = 4
INVARIANT FileFollowsTable
PROPERTIES RestartKeepsLists WritesReachTheFile RestartKeepsMonitoredSettings
CHECK_DEADLOCK FALSE
