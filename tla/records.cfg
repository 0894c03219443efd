CONSTANTS
    Items = {i1, i2}
    Occasions = {parasha, festival}
    Parashot = {parasha}
    NoItem = NoItem
    NoOccasion = NoOccasion
    MaxVows = 2
SPECIFICATION RecordsSpec
INVARIANTS
    RecordsTypeOK
    LedgerContinues
    
    ViewsAgree
    SoldItemStays
    
    ReportsAgree
    PreviewIsResult
    FileCarriedOver
PROPERTIES
    MergeKeepsDebt
    UpsertLands
CHECK_DEADLOCK FALSE
