CONSTANTS
    MobileLength = 2
    MinLandline = 2
    MinForeign = 2
    MaxDigits = 3
    MaxMembers = 1
    Names <- MCNames
    Texts <- MCTexts
    Codes <- MCCodes
    SheetNumbers = {1}
    ImportModes = {"upsert"}
SPECIFICATION Spec
INVARIANT NumberFollowsMobile
CHECK_DEADLOCK FALSE
