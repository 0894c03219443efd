------------------------------ MODULE CashBook ------------------------------
(***************************************************************************)
(* The money that came in and went out, and the views that add it up:      *)
(* services/expenses and the payments and donations beside it, the view    *)
(* v_monthly_balance, services/balance (ranges, fiscal years, the monthly  *)
(* balance), the cards of services/dashboard, and the report by payment    *)
(* method of services/reports.                                             *)
(*                                                                         *)
(* The monthly balance works in whole months, the reports in days; a       *)
(* fiscal year starts at any month the settings say.                       *)
(*                                                                         *)
(* Abstracted: a date is a day of a calendar of DaysPerMonth days and      *)
(* MonthsPerYear months; texts, suppliers and categories; numbers and      *)
(* attachments (ExpenseFiles); receipts (ReceiptBook).                     *)
(***************************************************************************)
EXTENDS Integers, Sequences, SequencesExt, FiniteSetsExt

CONSTANTS
    DaysPerMonth, MonthsPerYear, Years,  \* bound: the calendar
    Methods,     \* rows of payment_method
    Amounts,     \* amounts the dialogs and sheets bring, reversals below zero
    MaxRows      \* bound: rows recorded

\* What the instances assume of these.
CalendarGiven ==
    DaysPerMonth \in Nat \ {0} /\ MonthsPerYear \in Nat \ {0} /\ Years \in Nat \ {0}
RowsGiven == Amounts \subseteq Int \ {0} /\ MaxRows \in Nat

VARIABLES
    row,         \* vow_payment, donation and expense
    startMonth   \* the setting fiscal_year_start_month

vars == <<row, startMonth>>

LastDay == DaysPerMonth * MonthsPerYear * Years
Days == 1..LastDay
Tables == {"payment", "donation", "expense"}
NoDate == -(LastDay + 1)

\* every row and the setting hold what they can hold
TypeOK ==
    /\ row \in Seq([table : Tables, date : Days, amount : Int,
                    method : Methods, live : BOOLEAN])
    /\ Len(row) <= MaxRows
    /\ startMonth \in 1..MonthsPerYear

Init == row = <<>> /\ startMonth \in 1..MonthsPerYear

-----------------------------------------------------------------------------
(* The operations.                                                         *)

Record(table, date, amount, method) ==
    [table |-> table, date |-> date, amount |-> amount, method |-> method, live |-> TRUE]

Insert(r) ==
    /\ Len(row) < MaxRows
    /\ row' = Append(row, r)
    /\ UNCHANGED startMonth

\* payments and donations of the dialogs are above zero, those of sheets may
\* reverse others
CreatePayment == \E d \in Days, a \in Amounts, m \in Methods : Insert(Record("payment", d, a, m))
CreateDonation == \E d \in Days, a \in Amounts, m \in Methods : Insert(Record("donation", d, a, m))

\* validateExpense: an amount below zero is a refund, ticked and explained
ValidExpense(amount, refund, notes) == amount < 0 => refund /\ notes

CreateExpense ==
    \E d \in Days, a \in Amounts, m \in Methods, refund, notes \in BOOLEAN :
        ValidExpense(a, refund, notes) /\ Insert(Record("expense", d, a, m))

UpdateExpense ==
    \E i \in DOMAIN row, d \in Days, a \in Amounts, m \in Methods, refund, notes \in BOOLEAN :
        /\ row[i].table = "expense" /\ row[i].live
        /\ ValidExpense(a, refund, notes)
        /\ row' = [row EXCEPT ![i] = Record("expense", d, a, m)]
        /\ UNCHANGED startMonth

\* deleteExpense by an administrator, deletePayment, deleteDonation
Delete ==
    \E i \in DOMAIN row :
        /\ row[i].live
        /\ row' = [row EXCEPT ![i].live = FALSE]
        /\ UNCHANGED startMonth

SetStartMonth == startMonth' \in 1..MonthsPerYear /\ UNCHANGED row

Next == CreatePayment \/ CreateDonation \/ CreateExpense \/ UpdateExpense \/ Delete
        \/ SetStartMonth

Spec == Init /\ [][Next]_vars

-----------------------------------------------------------------------------
(* services/balance: ranges and fiscal years.                              *)

Ym(day) == (day - 1) \div DaysPerMonth
FirstDay(ym) == ym * DaysPerMonth + 1
YearOf(day) == Ym(day) \div MonthsPerYear
MonthOf(day) == (Ym(day) % MonthsPerYear) + 1

FiscalYearOf(day) == IF MonthOf(day) >= startMonth THEN YearOf(day) ELSE YearOf(day) - 1

\* mutant: the year ends with the first day of the next
FiscalRange_Overlaps(year) ==
    LET first == year * MonthsPerYear + startMonth - 1
    IN  [from |-> FirstDay(first), to |-> FirstDay(first + MonthsPerYear)]

\* the fiscal range of resolveRange: from the first of its month to the day
\* before it comes again
FiscalRange(year) ==
    LET first == year * MonthsPerYear + startMonth - 1
    IN  [from |-> FirstDay(first), to |-> FirstDay(first + MonthsPerYear) - 1]

CivilRange(year) ==
    [from |-> FirstDay(year * MonthsPerYear), to |-> FirstDay((year + 1) * MonthsPerYear) - 1]

All == [from |-> NoDate, to |-> NoDate]

-----------------------------------------------------------------------------
(* v_monthly_balance and monthlyBalance.                                   *)

Sum(rows) == FoldLeft(LAMBDA total, r : total + r.amount, 0, rows)

InMonth(table, ym) ==
    Sum(SelectSeq(row, LAMBDA r : r.live /\ r.table = table /\ Ym(r.date) = ym))

Months == {Ym(row[i].date) : i \in {k \in DOMAIN row : row[k].live}}

Income(ym) == InMonth("donation", ym) + InMonth("payment", ym)
Net(ym) == Income(ym) - InMonth("expense", ym)

\* a range's days count as their months
MonthlyBalance(range) ==
    LET before == {ym \in Months : range.from # NoDate /\ ym < Ym(range.from)}
        shown == {ym \in Months : /\ range.from # NoDate => ym >= Ym(range.from)
                                  /\ range.to # NoDate => ym <= Ym(range.to)}
        opening == MapThenSumSet(Net, before)
    IN  [opening  |-> opening, months |-> shown,
         income   |-> MapThenSumSet(Income, shown),
         expenses |-> MapThenSumSet(LAMBDA ym : InMonth("expense", ym), shown),
         net      |-> MapThenSumSet(Net, shown),
         closing  |-> opening + MapThenSumSet(Net, shown)]

\* the cards of the main screen
Dashboard(today) ==
    LET fiscal == MonthlyBalance(FiscalRange(FiscalYearOf(today)))
    IN  [cumulative |-> MonthlyBalance(All).closing,
         thisMonth  |-> IF Ym(today) \in Months THEN Net(Ym(today)) ELSE 0,
         yearIncome |-> fiscal.income, yearExpenses |-> fiscal.expenses]

-----------------------------------------------------------------------------
(* services/reports: what came in by each method, for matching the till.   *)
ByPaymentMethod(range) ==
    LET within(r) == /\ range.from # NoDate => r.date >= range.from
                     /\ range.to # NoDate => r.date <= range.to
        taken(m) == Sum(SelectSeq(row, LAMBDA r : /\ r.live /\ r.table # "expense"
                                                  /\ r.method = m /\ within(r)))
    IN  [m \in {x \in Methods : taken(x) # 0} |-> taken(m)]

\* donationsReport and expensesReport: the rows of a range, and their total
RangeTotal(table, range) ==
    LET within(r) == /\ range.from # NoDate => r.date >= range.from
                     /\ range.to # NoDate => r.date <= range.to
    IN  Sum(SelectSeq(row, LAMBDA r : r.live /\ r.table = table /\ within(r)))

DonationsReport(range) == RangeTotal("donation", range)
ExpensesReport(range) == RangeTotal("expense", range)

Taken(range) == SumFunction(ByPaymentMethod(range))

\* listExpenses and listDonations: the rows the page's filter leaves, and its figures.
Filtered(table, range, methods) ==
    SelectSeq(row, LAMBDA r : /\ r.live /\ r.table = table /\ r.method \in methods
                              /\ range.from # NoDate => r.date >= range.from
                              /\ range.to # NoDate => r.date <= range.to)

\* Math.round rounds half up.
Rounded(total, count) == (2 * total + count) \div (2 * count)

ListDonations(range, methods) ==
    LET rows == Filtered("donation", range, methods)
    IN  [count |-> Len(rows), total |-> Sum(rows),
         average |-> IF rows = <<>> THEN 0 ELSE Rounded(Sum(rows), Len(rows)),
         largest |-> FoldLeft(LAMBDA most, r : IF r.amount > most THEN r.amount ELSE most,
                              0, rows)]

ListExpenses(range, methods) ==
    LET rows == Filtered("expense", range, methods)
    IN  [count |-> Len(rows), total |-> Sum(rows),
         average |-> IF rows = <<>> THEN 0 ELSE Rounded(Sum(rows), Len(rows)),
         refunds |-> Sum(SelectSeq(rows, LAMBDA r : r.amount < 0))]

-----------------------------------------------------------------------------
(* Properties.                                                             *)

\* The till and the balance agree: over a year of either kind, and over all,
\* the payments and donations of all methods are the income of the months, the
\* report of expenses is their expenses, and no donation is outside the income
TillMatchesBalance ==
    \A range \in {All} \cup {FiscalRange(y) : y \in -1..Years}
                        \cup {CivilRange(y) : y \in -1..Years} :
        LET balance == MonthlyBalance(range)
        IN  /\ Taken(range) = balance.income
            /\ ExpensesReport(range) = balance.expenses
            /\ Taken(range) - DonationsReport(range)
                  = MapThenSumSet(LAMBDA ym : InMonth("payment", ym), balance.months)

\* Fiscal years leave no day out and count none twice, wherever they start:
\* each opens at the cumulative balance the one before closed with, the last
\* closes with the balance of all time, and the year on the main screen is the
\* one its day lies in
YearsContinue ==
    /\ \A y \in 0..Years : MonthlyBalance(FiscalRange(y)).opening
                             = MonthlyBalance(FiscalRange(y - 1)).closing
    /\ MonthlyBalance(FiscalRange(-1)).opening = 0
    /\ MonthlyBalance(FiscalRange(Years)).closing = MonthlyBalance(All).closing
    /\ \A today \in Days :
          LET range == FiscalRange(FiscalYearOf(today))
          IN  /\ today \in range.from..range.to
              /\ Dashboard(today).cumulative = MonthlyBalance(All).closing
              /\ Dashboard(today).yearIncome = Taken(range)

\* The pages of expenses and of donations show the sums of the reports, split by method
\* without loss; an average stands for its rows to within the rounding, and refunds only
\* lower the sum
PagesAgree ==
    \A range \in {All} \cup {FiscalRange(y) : y \in -1..Years} :
        LET expenses == ListExpenses(range, Methods)
            donations == ListDonations(range, Methods)
            off(page) == 2 * (page.average * page.count - page.total)
        IN  /\ expenses.total = MonthlyBalance(range).expenses
            /\ expenses.total
                  = MapThenSumSet(LAMBDA m : ListExpenses(range, {m}).total, Methods)
            /\ expenses.total >= expenses.refunds
            /\ donations.total = DonationsReport(range)
            /\ donations.count
                  = MapThenSumSet(LAMBDA m : ListDonations(range, {m}).count, Methods)
            /\ donations.count > 0 => donations.largest >= donations.average
                                      \/ donations.average <= 0
            /\ \A page \in {expenses, donations} : off(page) \in -page.count..page.count

\* What the reports show of one and the same cash book is one story: the till,
\* the months, the years of either kind, the pages, and the main screen
ReportsAgree == TillMatchesBalance /\ YearsContinue /\ PagesAgree

=============================================================================
