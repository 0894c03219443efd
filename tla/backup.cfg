SPECIFICATION BackupsSpec
CONSTANTS
    Fresh = Fresh
    Bad = Bad
    NoFile = NoFile
    Torn = Torn
    Data = {v1, v2}
    Elsewhere = {Bad}
    Jobs = {j1, j2}
    KeepAuto = 5
    KeepSafety = 3
    FailedOpenLocks = TRUE
    MaxBackups = 5
    MaxFailures = 1
    MaxCrashes = 2
    Scans = {"invoice", "letter", "contract"}
    NoScan = "none"
    Size <- ScanSize
    Extension <- ScanExtension
    SheetNumbers = {2}
    MaxNumber = 2
    MaxCopies = 1
SYMMETRY Symmetry
INVARIANTS BackupsTypeOK ScanIsItsOwn
PROPERTIES ReplacedOnlyWithCopy KeepsACopy
CHECK_DEADLOCK FALSE
