CONSTANTS
    Users = {1, 2, 3}
    NoUser = 0
    MobileLength = 2
    MinLandline = 2
    MinForeign = 2
    MaxDigits = 3
    MaxMembers = 1
    MemberNames <- MCMemberNames
    Texts <- MCTexts
    Codes <- MCCodes
    SheetNumbers = {1}
    ImportModes = {"insert_only", "enrich"}
    Receipts = {"r1", "r2"}
    Folders = {"home", "moved"}
    Default = "home"
    NoFolder = "none"
    MaxPrints = 2
    MaxLoads = 2
    Payments = {1}
    MaxTold = 2
    MaxSends = 2
    MaxNotices = 2
    Contents = {"a", "b"}
    Refused = {"b"}
    Filters = {{"a", "b"}, {"a"}}
    MaxItems = 2
    MaxAsked = 4
    SetupNames = {1}
    Papers = {1, 2}
    StartNumbers = {2}
    MaxIssued = 2
    Members = {"m1", "m2"}
    Bodies = {"", "dear"}
    Blank = ""
    Templates = {"template"}
    OneOff = "one-off"
    Lists <- MCLists
    MaxWork = 2
    Readers = {"m1"}
    NoReader = "none"
    Fields = {"first_name"}
    EventFields = {"amount"}
    Unknown = {"frist_name"}
    Value <- MCValue
    Dash = "-"
    Letters <- MCLetters
    NoLetter <- MCNoLetter
    LetterNames = {0, 1, 2}
    SeededLetters <- MCSeededLetters
    MaxLetters = 2
    MaxPreviews = 2
    Tables = {"occasion", "payment_method"}
    FirstTable = "occasion"
    SeededValues <- MCSeededValues
    NewNames = {"cash"}
    MaxValues = 2
    MaxUses = 1
    MaxPresses = 2
SPECIFICATION DeskSpec
INVARIANTS
    DeskTypeOK
    AdminRemains
    ShownIsSigned
    PrintedIsArchived
    ShownIsOpen
    
    ListIsCurrent
    SavesWhatIsOpen
    NamedWhenSetUp
    SettledPreview
    RunningIsShown
PROPERTIES
    PhoneEditKeepsName
CHECK_DEADLOCK FALSE
