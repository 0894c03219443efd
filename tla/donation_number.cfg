SPECIFICATION Spec
CONSTANTS
    NoRow = NoRow
    Payments = {p1}
    Donations = {d1, d2}
    Amounts = {a1, a2}
    Names = {n1}
    ImportModes = {"insert", "upsert", "replace"}
    SheetNumbers = {2}
    StartNumbers = {0, 2, 4}
    MaxReceipts = 3
    MaxDonations = 3
SYMMETRY Symmetry
INVARIANT NextDonationUnused
CHECK_DEADLOCK FALSE
