SPECIFICATION Spec
CONSTANTS
    Plain = {secret}
    Nothing = Nothing
    Garbage = Garbage
    Absent = Absent
    Unusable = Unusable
    MaxCalls = 3
    MaxLosses = 2
INVARIANTS GivenIsReadable DecryptsOrRefuses
PROPERTY CompleteFilesKept
CHECK_DEADLOCK FALSE
