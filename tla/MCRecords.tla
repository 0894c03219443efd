------------------------------ MODULE MCRecords ------------------------------
(***************************************************************************)
(* Small instances of the modules about the books: VowCatalog, extended,   *)
(* and MemberLedger, CashBook, ImportWizard and LegacyImport, instantiated. *)
(* No two of them share a variable, so one run checks them side by side:   *)
(* "part" says which of them a behaviour is about, and the others stay as  *)
(* they start.                                                             *)
(***************************************************************************)
EXTENDS VowCatalog, Integers

VARIABLES
    part,
    member, row,                                         \* MemberLedger
    cash, startMonth,                                    \* CashBook
    book, session, screen, requests, choosers, runs,     \* ImportWizard
    db, last, report, exit                               \* LegacyImport

L == INSTANCE MemberLedger WITH
        MaxMembers <- 2, MaxRows <- 2, LastDay <- 2,
        Amounts <- {1, 2}, Imported <- {-1}, Openings <- {-1, 2}

C == INSTANCE CashBook WITH
        DaysPerMonth <- 2, MonthsPerYear <- 2, Years <- 2, Methods <- {"cash", "check"},
        Amounts <- {-1, 2}, MaxRows <- 2, row <- cash

\* An empty book, one with a donation, and one whose donation was imported (the
\* sequence did not move).
Row(key, owner, text) == [key |-> key, member |-> owner, text |-> text]
MCBooks ==
    {[member |-> {}, donation |-> {}, next |-> 1],
     [member |-> {Row(1, 0, 0)}, donation |-> {Row(1, 1, 0)}, next |-> 2],
     [member |-> {Row(1, 0, 0)}, donation |-> {Row(2, 0, 0)}, next |-> 1]}

\* Workbooks with a number twice, a donation of a member of the same file, one without
\* a number, and sheets that are empty.
MCFiles ==
    {[member |-> <<Row(2, 0, 1), Row(2, 0, 2)>>, donation |-> <<Row(2, 2, 0), Row(0, 0, 1)>>],
     [member |-> <<Row(1, 0, 2)>>, donation |-> <<>>],
     [member |-> <<>>, donation |-> <<Row(1, 1, 2), Row(0, 2, 1)>>]}

I == INSTANCE ImportWizard WITH
        Books <- MCBooks, Files <- MCFiles, MaxChoosers <- 1, MaxRequests <- 1, MaxRuns <- 1

\* Old workbooks: dates that are clear, damaged, short, in an impossible year or absent,
\* openings and credits of either sign, a member without a name, a yearly summary, a
\* receipt's number twice, and a later file that has lost rows.
Date(form, year) == [form |-> form, year |-> year]
InYear == Date("clear", 2024)
NoDate == Date("empty", 0)
Member(number, name) == [number |-> number, name |-> name]
Charge(owner, text, amount, date) ==
    [member |-> owner, text |-> text, amount |-> amount, date |-> date]
Payment(owner, amount, date, receipt) ==
    [member |-> owner, amount |-> amount, date |-> date, receipt |-> receipt]
Donation(number, owner, amount, date, receipt) ==
    [number |-> number, member |-> owner, amount |-> amount, date |-> date,
     receipt |-> receipt]
Expense(number, amount, date) == [number |-> number, amount |-> amount, date |-> date]
MCWorkbooks ==
    {[member   |-> <<Member(1, "named"), Member(2, "blank")>>,
      charge   |-> <<Charge(1, "opening", 2, InYear), Charge(1, "named", 1, NoDate),
                     Charge(1, "credit", 1, Date("clear", 2925)), Charge(2, "named", 1, InYear)>>,
      payment  |-> <<Payment(1, 1, Date("clear", 2924), 1), Payment(1, 1, NoDate, 2),
                     Payment(1, -1, InYear, 0)>>,
      donation |-> <<Donation(1, 1, 1, Date("short", 25), 1), Donation(2, 0, 0, InYear, 0)>>,
      expense  |-> <<Expense(1, 1, InYear)>>],
     [member   |-> <<Member(1, "named"), Member(2, "named"), Member(3, "summary")>>,
      charge   |-> <<Charge(1, "opening", -1, InYear), Charge(1, "unknown", -2, NoDate),
                     Charge(2, "named", 1, NoDate), Charge(2, "named", 0, InYear)>>,
      payment  |-> <<Payment(1, 1, InYear, 1), Payment(2, 2, Date("damaged", 1935), 2)>>,
      donation |-> <<Donation(1, 1, 1, InYear, 3), Donation(2, 0, 2, Date("clear", 1950), 0)>>,
      expense  |-> <<Expense(1, -1, InYear), Expense(2, 1, NoDate)>>],
     [member   |-> <<Member(1, "named")>>, charge |-> <<>>, payment |-> <<>>,
      donation |-> <<Donation(1, 0, 1, InYear, 0)>>, expense |-> <<>>]}

O == INSTANCE LegacyImport WITH
        Workbooks <- MCWorkbooks, MinYear <- 2020, MaxYear <- 2035, Start <- 2023, MaxOwn <- 3

ASSUME RecordsBounds ==
    /\ L!SomeBounds /\ L!SomeAmounts
    /\ C!CalendarGiven /\ C!RowsGiven
    /\ O!LegacyBounds

ledgerVars == <<member, row>>
cashVars == <<cash, startMonth>>
importVars == <<book, session, screen, requests, choosers, runs>>
legacyVars == <<db, last, report, exit>>
recordsVars == <<part, vars, ledgerVars, cashVars, importVars, legacyVars>>

RecordsInit ==
    /\ part \in {"honours", "ledger", "cash", "import", "legacy"}
    /\ IF part = "honours" THEN Init
       ELSE item = [i \in Items |-> Absent] /\ vow = <<>> /\ dialog = Closed
    /\ L!Init /\ O!Init
    /\ IF part = "cash" THEN C!Init ELSE cash = <<>> /\ startMonth = 1
    /\ IF part = "import" THEN I!Init
       ELSE /\ book = [member |-> {}, donation |-> {}, next |-> 1]
            /\ session = I!NoSession /\ screen = I!Closed
            /\ requests = <<>> /\ choosers = 0 /\ runs = 0

RecordsNext ==
    /\ UNCHANGED part
    /\ \/ part = "honours" /\ Next /\ UNCHANGED <<ledgerVars, cashVars, importVars, legacyVars>>
       \/ part = "ledger" /\ L!Next /\ UNCHANGED <<vars, cashVars, importVars, legacyVars>>
       \/ part = "cash" /\ C!Next /\ UNCHANGED <<vars, ledgerVars, importVars, legacyVars>>
       \/ part = "import" /\ I!Next /\ UNCHANGED <<vars, ledgerVars, cashVars, legacyVars>>
       \/ part = "legacy" /\ O!Next /\ UNCHANGED <<vars, ledgerVars, cashVars, importVars>>

RecordsSpec == RecordsInit /\ [][RecordsNext]_recordsVars

-----------------------------------------------------------------------------

\* Every table, draft and request of the five modules holds what it can hold.
RecordsTypeOK == TypeOK /\ L!TypeOK /\ C!TypeOK /\ I!TypeOK /\ O!TypeOK

\* The properties of the instances, stated where they are defined, and evaluated in
\* the behaviours they are about: the pages of a
\* member's ledger continue each other (getLedger, openingBalanceBefore).
LedgerContinues == part = "ledger" => L!LedgerContinues

\* The lines of open charges add up to a member's debt (openCharges).
OpenLinesCoverDebt == part = "ledger" => L!OpenLinesCoverDebt

\* The balances of the members and the totals of the reports agree (listMembers, the
\* dashboard, accrualByMonth).
ViewsAgree == part = "ledger" => L!ViewsAgree

\* A merge of two members moves debts and changes none (mergeMembers).
MergeKeepsDebt == L!MergeKeepsDebt

\* The till, the months, the fiscal years and the main screen tell one story
\* (byPaymentMethod, monthlyBalance, resolveRange, availableYears, mainScreen).
ReportsAgree == part = "cash" => C!ReportsAgree

\* An import does what the report before it said (validateSession, runImport).
PreviewIsResult == part = "import" => I!PreviewIsResult

\* What an import in upsert mode read is in the book after it (executeImport).
UpsertLands == I!UpsertLands

\* What the old file said of debts, receipts and dates is in the books, or is listed
\* (importWorkbook, reconcileBalances).
FileCarriedOver == part = "legacy" => O!FileCarriedOver
=============================================================================
