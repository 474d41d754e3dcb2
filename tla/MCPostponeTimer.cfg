\* Countdowns of one and two seconds, with 0x00, 0xFE and 0xFF.
SPECIFICATION FairSpec
CONSTANTS
    Finite = {1, 2}
    MaxCalls = 2
    MaxEdits = 4
INVARIANTS TypeOK FiniteArmIsTimed DelayedNotSuppressed
PROPERTIES PostponementEnds CallsResolved
CHECK_DEADLOCK FALSE
