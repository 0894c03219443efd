SPECIFICATION Spec
CONSTANTS
    Wizard = Wizard
    Reminder = Reminder
    i1 = i1
    i2 = i2
    i3 = i3
    i4 = i4
    dana = dana
    yosef = yosef
    first = first
    second = second
    third = third
    NoCampaign = NoCampaign
    NoItem = NoItem
    Bulks = {Wizard}
    Singles = {Reminder}
    Queue <- MCQueue
    Phone <- MCPhone
    Text <- RepeatedText
    Cap = 2
    Threshold = 2
    Overlap = FALSE
    MaxCrashes = 0
    MaxDays = 0
INVARIANT SentWasDelivered
CHECK_DEADLOCK FALSE
