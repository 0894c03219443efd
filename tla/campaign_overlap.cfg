SPECIFICATION Spec
CONSTANTS
    Wizard = Wizard
    Reminder = Reminder
    i1 = i1
    i2 = i2
    i3 = i3
    i4 = i4
    dana = dana
    yosef = yosef
    first = first
    second = second
    third = third
    NoCampaign = NoCampaign
    NoItem = NoItem
    Bulks = {Wizard}
    Singles = {Reminder}
    Queue <- MCQueue
    Phone <- MCPhone
    Text <- DistinctText
    Cap = 1
    Threshold = 2
    Overlap = TRUE
    MaxCrashes = 0
    MaxDays = 0
INVARIANT CapKept
CHECK_DEADLOCK FALSE
