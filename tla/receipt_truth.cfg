SPECIFICATION Spec
CONSTANTS
    NoRow = NoRow
    Payments = {p1}
    Donations = {d1, d2}
    Amounts = {a1, a2}
    Names = {n1, n2}
    ImportModes = {"insert", "replace"}
    SheetNumbers = {}
    StartNumbers = {3}
    MaxReceipts = 2
    MaxDonations = 4
SYMMETRY Symmetry
INVARIANTS ReceiptShowsAmount NextDonationUnused
CHECK_DEADLOCK FALSE
