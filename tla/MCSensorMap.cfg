SPECIFICATION Spec
CONSTANTS
    Configuration = Configuration
    Filtering = Filtering
    Missing = Missing
    None = None
    LunSize = 3
    IndexSize = 2
    Number = {0, 1, 5, 6, 10, 12}
    Sensor <- MCSensor
    Pmt = {7}
    Declared <- MCDeclared
    Builds = {TRUE, FALSE}
    Boot <- MCBoot
    MaxEdits = 2
INVARIANTS ServedMapIsCurrent NumbersValid RowNamesItsSensor ExhaustedOnlyWhenFull
CHECK_DEADLOCK FALSE
