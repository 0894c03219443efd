SPECIFICATION Spec
CONSTANTS
    Fresh = Fresh
    Bad = Bad
    NoFile = NoFile
    Torn = Torn
    Data = {v1, v2}
    Elsewhere = {Fresh}
    Jobs = {j1}
    KeepAuto = 3
    KeepSafety = 2
    FailedOpenLocks = FALSE
    MaxBackups = 5
    MaxFailures = 1
    MaxCrashes = 2
INVARIANT DatabaseOpen
CHECK_DEADLOCK FALSE
