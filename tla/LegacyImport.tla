---------------------------- MODULE LegacyImport ----------------------------
(***************************************************************************)
(* The tool that carries the old Excel workbook over (tools/import): the   *)
(* rows of the sheets (workbook.ts), the dates and the texts in them       *)
(* (dates.ts, occasions.ts), the run that writes them in one transaction   *)
(* (importer.ts), and the comparison with the file after it (reconcile.ts, *)
(* cli.ts). The run may be repeated on the same database, with the same    *)
(* workbook or a later one, and the program may be used in between: its    *)
(* own rows carry no mark of the import, and the run leaves them alone.    *)
(*                                                                         *)
(* A date is the form it is written in and its year; a text is the way it  *)
(* is understood. 0 is a blank number, an unreadable year, nobody.         *)
(***************************************************************************)
EXTENDS Integers, FiniteSetsExt, SequencesExt

CONSTANTS
    Workbooks,   \* the rows of each sheet: [member, charge, payment, donation, expense]
    MinYear,     \* MIN_DATA_YEAR and MAX_DATA_YEAR
    MaxYear,
    Start,       \* the year of OPENING_DATE
    MaxOwn       \* rows and receipts of the program's own

\* Assumed where the module is used.
LegacyBounds ==
    MinYear \in Nat /\ MaxYear \in Nat /\ Start \in MinYear..MaxYear /\ MaxOwn \in Nat

VARIABLES
    db,      \* the tables and the sequences
    last,    \* the workbook of the last run that was committed: none or one
    report,  \* what that run listed
    exit     \* the exit code of the last run

vars == <<db, last, report, exit>>

Tables == {"charge", "payment", "donation", "expense"}

Empty == [member |-> {}, row |-> {}, receipt |-> {},
          next |-> [receipt |-> 1, member |-> 1, donation |-> 1, expense |-> 1]]

\* ------------------------------------------------------- reading the cells

\* A number and a text of three parts are read as they are, a damaged one by a guess
\* (two digits of a year are of this century), an empty or a strange cell not at all.
ParseLegacyDate(cell) ==
    CASE cell.form = "clear"   -> [year |-> cell.year, confidence |-> "exact"]
      [] cell.form = "damaged" -> [year |-> cell.year, confidence |-> "guessed"]
      [] cell.form = "short"   -> [year |-> 2000 + (cell.year % 100), confidence |-> "guessed"]
      [] OTHER                 -> [year |-> 0, confidence |-> "failed"]

\* 2925 becomes 2025: the century is the data's, when that puts the year in range.
FixImplausibleYear(year) ==
    LET candidate == (MinYear \div 100) * 100 + (year % 100)
    IN  IF year \notin MinYear..MaxYear /\ candidate \in MinYear..MaxYear
        THEN candidate ELSE year

\* An opening balance, or else a credit by its sign or by its first word.
ResolveOccasion(text, amount) ==
    [isOpening   |-> text = "opening",
     isCredit    |-> text # "opening" /\ (amount < 0 \/ text = "credit"),
     needsReview |-> text = "unknown"]

\* The earliest year of a member's dates, as they are written, or else the first year.
EarliestYear(wb, member) ==
    LET dates == {c.date : c \in {c \in ToSet(wb.charge) \cup ToSet(wb.payment) :
                                      c.member = member}}
        years == {ParseLegacyDate(cell).year : cell \in dates} \ {0}
    IN  IF years = {} THEN Start ELSE Min(years)

\* --------------------------------------------------------- writing the rows

\* A run so far: whether the database refused it, the database, and what is listed.
List(run, severity, sheet, line) ==
    [run EXCEPT !.report = @ \cup {[severity |-> severity, sheet |-> sheet, line |-> line]}]

\* A guess, a year that was mended and a year that stays out of range are listed.
ListDate(run, cell, sheet, line) ==
    LET parsed == ParseLegacyDate(cell)
    IN  IF parsed.confidence = "exact" /\ parsed.year \in MinYear..MaxYear THEN run
        ELSE List(run, "warning", sheet, line)

ImportedMembers(d) == {m \in d.member : m.imported}
MemberIds(d) == {m.number : m \in ImportedMembers(d)}
NewId(d, table) == Max({r.id : r \in {r \in d.row : r.table = table}} \cup {0}) + 1

\* A row of one of the tables, under the next free id, with no receipt yet.
Row(d, table, line, member, number, amount, year) ==
    [table |-> table, id |-> NewId(d, table), imported |-> line # 0, line |-> line,
     member |-> member, number |-> number, amount |-> amount, year |-> year, receipt |-> 0]

\* The numbers of donations and expenses are unique.
Insert(run, row) ==
    [run EXCEPT !.ok = @ /\ ~ \E r \in run.db.row :
                                r.table = row.table /\ r.number = row.number /\ r.number # 0,
                !.db.row = @ \cup {row}]

\* mutant: the receipts of the earlier run stay
ClearPreviousImport_KeepsReceipts(d) ==
    [d EXCEPT !.row = {r \in @ : ~r.imported}, !.member = {m \in @ : ~m.imported}]

\* What the last run wrote is deleted, receipts and rows before the members.
ClearPreviousImport(d) ==
    [d EXCEPT !.row = {r \in @ : ~r.imported},
              !.receipt = {r \in @ : ~r.imported},
              !.member = {m \in @ : ~m.imported}]

\* A row of the program's own refers to a member who would be deleted.
ClearRefused(d) == \E r \in d.row : ~r.imported /\ r.member \in MemberIds(d)

\* A member without a name is left out; a yearly summary comes over as a member too.
ImportMember(wb, run, i) ==
    LET m == wb.member[i]
    IN  IF m.name = "blank" THEN List(run, "error", "member", i)
        ELSE [(IF m.name = "summary" THEN List(run, "warning", "member", i) ELSE run)
                EXCEPT !.ok = @ /\ m.number \notin {x.number : x \in run.db.member},
                       !.db.member = @ \cup {[number |-> m.number, opening |-> 0,
                                              imported |-> TRUE]}]

Abs(n) == IF n < 0 THEN -n ELSE n

\* An opening balance is added to the member; a charge without a date takes the
\* member's earliest one, so that its money is not lost.
ImportCharge(wb, run, i) ==
    LET c == wb.charge[i]
        occasion == ResolveOccasion(c.text, c.amount)
        parsed == ParseLegacyDate(c.date)
        dated == IF parsed.year = 0 THEN List(run, "warning", "charge", i)
                 ELSE ListDate(run, c.date, "charge", i)
        listed == IF occasion.needsReview THEN List(dated, "warning", "charge", i) ELSE dated
        year == IF parsed.year = 0 THEN EarliestYear(wb, c.member)
                ELSE FixImplausibleYear(parsed.year)
        amount == IF occasion.isCredit THEN -Abs(c.amount) ELSE Abs(c.amount)
    IN  IF c.member \notin MemberIds(run.db) THEN List(run, "error", "charge", i)
        ELSE IF c.amount = 0 THEN List(run, "warning", "charge", i)
        ELSE IF occasion.isOpening
        THEN [run EXCEPT !.db.member =
                {IF m.number = c.member THEN [m EXCEPT !.opening = @ + c.amount] ELSE m : m \in @}]
        ELSE Insert(listed, Row(run.db, "charge", i, c.member, 0, amount, year))

\* A receipt of the sheet, unless its number was used: then the row stays without one.
\* An active receipt of the same source makes the database refuse the run.
CreateReceipt(run, table, id, number, line) ==
    IF number = 0 THEN run
    ELSE IF number \in {x.number : x \in run.db.receipt} THEN List(run, "error", "receipt", line)
    ELSE [run EXCEPT
            !.ok = @ /\ ~ \E x \in run.db.receipt : x.table = table /\ x.source = id,
            !.db.receipt = @ \cup {[number |-> number, table |-> table, source |-> id,
                                    imported |-> TRUE]},
            !.db.row = {IF r.table = table /\ r.id = id THEN [r EXCEPT !.receipt = number] ELSE r
                            : r \in @}]

\* A payment or a donation with its receipt; without an amount or a date it is left out.
WithReceipt(run, table, i, member, source) ==
    LET year == ParseLegacyDate(source.date).year
        row == Row(run.db, table, i, member,
                   IF table = "donation" THEN source.number ELSE 0,
                   source.amount, FixImplausibleYear(year))
        listed == IF source.amount < 0 THEN List(run, "warning", table, i)
                  ELSE ListDate(run, source.date, table, i)
    IN  IF source.amount = 0 THEN List(run, "warning", table, i)
        ELSE IF year = 0 THEN List(run, "error", table, i)
        ELSE CreateReceipt(Insert(listed, row), table, row.id, source.receipt, i)

ImportPayment(wb, run, i) ==
    LET p == wb.payment[i]
    IN  IF p.member \notin MemberIds(run.db) THEN List(run, "error", "payment", i)
        ELSE WithReceipt(run, "payment", i, p.member, p)

\* The donor is a member whose name it begins with, or nobody of ours.
ImportDonation(wb, run, i) ==
    LET d == wb.donation[i]
    IN  WithReceipt(run, "donation", i, IF d.member \in MemberIds(run.db) THEN d.member ELSE 0, d)

ImportExpense(wb, run, i) ==
    LET e == wb.expense[i]
        year == ParseLegacyDate(e.date).year
    IN  IF year = 0 THEN List(run, "error", "expense", i)
        ELSE Insert(ListDate(run, e.date, "expense", i),
                    Row(run.db, "expense", i, 0, e.number, e.amount, FixImplausibleYear(year)))

\* The sequences go on after the highest number there is.
UpdateSequences(d) ==
    LET After(numbers) == Max(numbers \cup {0}) + 1
        Numbers(table) == {r.number : r \in {r \in d.row : r.table = table}}
    IN  [d EXCEPT !.next = [receipt  |-> After({x.number : x \in d.receipt}),
                            member   |-> After({m.number : m \in d.member}),
                            donation |-> After(Numbers("donation")),
                            expense  |-> After(Numbers("expense"))]]

\* One run, in one transaction, from the database as it is.
ImportWorkbook(d, wb) ==
    LET Sheet(run, step(_, _, _), rows) ==
            FoldLeftDomain(LAMBDA so, i : step(wb, so, i), run, rows)
        cleared   == [ok |-> ~ClearRefused(d), db |-> ClearPreviousImport(d), report |-> {}]
        members   == Sheet(cleared, ImportMember, wb.member)
        charges   == Sheet(members, ImportCharge, wb.charge)
        payments  == Sheet(charges, ImportPayment, wb.payment)
        donations == Sheet(payments, ImportDonation, wb.donation)
        expenses  == Sheet(donations, ImportExpense, wb.expense)
    IN  [expenses EXCEPT !.db = UpdateSequences(@)]

\* ------------------------------------------------------ comparing with the file

Sum(rows) == MapThenSumSet(LAMBDA r : r.amount, rows)

\* A member's debt over some of the rows (v_member_balance over all of them).
Balance(d, m, rows) ==
    m.opening + Sum({r \in rows : r.table = "charge" /\ r.member = m.number})
              - Sum({r \in rows : r.table = "payment" /\ r.member = m.number})

\* The totals row of the member's block: what was charged less what was paid.
LegacyBalance(wb, number) ==
    LET Total(sheet) == MapThenSumSet(LAMBDA i : sheet[i].amount,
                                      {i \in DOMAIN sheet : sheet[i].member = number})
    IN  Total(wb.charge) - Total(wb.payment)

ReconcileBalances(d, wb) ==
    {m \in d.member : /\ m.number \in {x.number : x \in ToSet(wb.member)}
                      /\ Balance(d, m, d.row) # LegacyBalance(wb, m.number)}

\* -------------------------------------------------------------------- actions

Init ==
    /\ db = Empty
    /\ last = <<>>
    /\ report = {}
    /\ exit = 0

\* npm run import: a refused run changes nothing.
Run(wb) ==
    LET run == ImportWorkbook(db, wb)
    IN  IF run.ok
        THEN /\ db' = run.db
             /\ last' = <<wb>>
             /\ report' = run.report
             /\ exit' = IF ReconcileBalances(run.db, wb) = {} THEN 0 ELSE 1
        ELSE /\ exit' = 1
             /\ UNCHANGED <<db, last, report>>

OwnWork == Cardinality({r \in db.row : ~r.imported}) + Cardinality({x \in db.receipt : ~x.imported})

\* The program is used on the database: a donation of somebody else or a payment of a
\* member is recorded, or a receipt is issued.
RecordDonation ==
    /\ OwnWork < MaxOwn
    /\ db' = [db EXCEPT !.row = @ \cup {Row(db, "donation", 0, 0, db.next.donation, 1, Start)},
                        !.next.donation = @ + 1]
    /\ UNCHANGED <<last, report, exit>>

RecordPayment ==
    /\ OwnWork < MaxOwn
    /\ \E m \in db.member :
          db' = [db EXCEPT !.row = @ \cup {Row(db, "payment", 0, m.number, 0, 1, Start)}]
    /\ UNCHANGED <<last, report, exit>>

IssueReceipt ==
    /\ OwnWork < MaxOwn
    /\ \E r \in db.row :
          /\ r.table \in {"payment", "donation"} /\ r.receipt = 0
          /\ ~ \E x \in db.receipt : x.table = r.table /\ x.source = r.id
          /\ db' = [db EXCEPT
                !.row = (@ \ {r}) \cup {[r EXCEPT !.receipt = db.next.receipt]},
                !.receipt = @ \cup {[number |-> db.next.receipt, table |-> r.table,
                                     source |-> r.id, imported |-> FALSE]},
                !.next.receipt = @ + 1]
    /\ UNCHANGED <<last, report, exit>>

Next ==
    \/ \E wb \in Workbooks : Run(wb)
    \/ RecordDonation \/ RecordPayment \/ IssueReceipt

Spec == Init /\ [][Next]_vars

-----------------------------------------------------------------------------

TypeOK ==
    /\ \A r \in db.row : r.table \in Tables /\ r.id > 0 /\ r.year > 0 /\ r.receipt >= 0
    /\ \A m \in db.member : m.number > 0 /\ m.imported \in BOOLEAN
    /\ \A x \in db.receipt : x.number > 0 /\ x.table \in {"payment", "donation"}
    /\ Len(last) <= 1 /\ exit \in {0, 1}

\* The lines of a sheet that the report lists as errors.
Errors(sheet) == {i.line : i \in {i \in report : i.severity = "error" /\ i.sheet = sheet}}

\* Every member owes what the old file said, but for the payments the report lists as
\* left out and for the charges whose text begins with a word of credit although their
\* amount is positive, which the file added and the run takes off.
DebtsCarriedOver(wb) ==
    \A m \in ImportedMembers(db) :
        LET lost == {i \in DOMAIN wb.payment : wb.payment[i].member = m.number} \cap Errors("payment")
            worded == {i \in DOMAIN wb.charge : /\ wb.charge[i].member = m.number
                                                /\ wb.charge[i].text = "credit"
                                                /\ wb.charge[i].amount > 0}
            imported == {r \in db.row : r.imported}
        IN  Balance(db, m, imported) - LegacyBalance(wb, m.number) =
                MapThenSumSet(LAMBDA i : wb.payment[i].amount, lost)
                - 2 * MapThenSumSet(LAMBDA i : wb.charge[i].amount, worded)

\* A receipt number of a row that came over is in the book, once and for that row, unless
\* the report lists that its number was already used.
ReceiptsCarriedOver(wb) ==
    \A r \in db.row : r.imported /\ r.table \in {"payment", "donation"} =>
        LET number == (IF r.table = "payment" THEN wb.payment ELSE wb.donation)[r.line].receipt
            carried == [number |-> number, table |-> r.table, source |-> r.id, imported |-> TRUE]
        IN  number # 0 =>
                \/ carried \in db.receipt /\ r.receipt = number
                \/ r.line \in Errors("receipt") /\ carried \notin db.receipt

\* A year outside the range of the data came over only on a line that is listed.
YearsListed ==
    \A r \in db.row : r.imported /\ r.year \notin MinYear..MaxYear =>
        \E i \in report : i.sheet = r.table /\ i.line = r.line

\* The comparison with the file that the legacy import is accepted by (reconcile.ts),
\* after a first run, a repeated one and one with a later workbook, and while the program
\* is used in between: debts, receipts and dates are the file's, or the report says so.
FileCarriedOver ==
    \A wb \in ToSet(last) : DebtsCarriedOver(wb) /\ ReceiptsCarriedOver(wb) /\ YearsListed
=============================================================================
