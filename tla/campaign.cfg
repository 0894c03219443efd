SPECIFICATION WhatsAppSpec
CONSTANTS
    Wizard = Wizard
    Reminder = Reminder
    i1 = i1
    i2 = i2
    i3 = i3
    i4 = i4
    dana = dana
    yosef = yosef
    first = first
    second = second
    third = third
    NoCampaign = NoCampaign
    NoItem = NoItem
    Bulks = {Wizard}
    Singles = {Reminder}
    Queue <- MCQueue
    Phone <- MCPhone
    Text <- DistinctText
    Cap = 2
    Threshold = 2
    Overlap = FALSE
    MaxCrashes = 1
    MaxDays = 1
INVARIANTS WhatsAppTypeOK CapKept StatusTellsWork
PROPERTIES AtMostOnce WorkEnds StatusCatchesUp
CHECK_DEADLOCK FALSE
