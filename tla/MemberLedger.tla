---------------------------- MODULE MemberLedger ----------------------------
(***************************************************************************)
(* What every member owes: the movements written by services/vows,         *)
(* services/payments and services/members and by an import, and every view *)
(* of them the program shows: the balance and ledger views of the schema,  *)
(* the ledger page, the open charges of a message, the list of members and *)
(* the accrual table.                                                      *)
(*                                                                         *)
(* The database has no link from a payment to a charge (B-01), so what is  *)
(* open is derived, by a different algorithm in each view.                 *)
(*                                                                         *)
(* Abstracted: names, occasions and notes; a date is a day, 1 the first;   *)
(* who may delete a charge (an administrator may delete any, a clerk some);*)
(* member numbers and mobiles, which are MemberRegister's, and receipts,   *)
(* which are ReceiptBook's.                                                *)
(***************************************************************************)
EXTENDS Integers, Sequences, SequencesExt, FiniteSetsExt

CONSTANTS
    MaxMembers,  \* bound: members created
    MaxRows,     \* bound: movements recorded
    LastDay,     \* bound: dates are 1..LastDay
    Amounts,     \* what the dialogs accept: positive amounts
    Imported,    \* payments a sheet may hold besides: reversals are negative
    Openings     \* opening balances a sheet of members may hold

\* What the instances assume of these.
SomeBounds == MaxMembers \in Nat /\ MaxRows \in Nat /\ LastDay \in Nat \ {0}
SomeAmounts ==
    /\ Amounts \subseteq Nat \ {0}
    /\ Imported \subseteq Int \ {0}
    /\ Openings \subseteq Int

VARIABLES
    member,  \* the member table: status and opening balance
    row      \* vow_charge and vow_payment, in the order of their ids

vars == <<member, row>>

Days == 1..LastDay
Kinds == {"vow", "credit", "payment"}
Ids == DOMAIN member

\* every movement belongs to a member and holds what its columns can hold
TypeOK ==
    /\ member \in Seq([status : {"active", "inactive"}, opening : Int])
    /\ row \in Seq([member : Ids, date : Days, kind : Kinds, amount : Int, live : BOOLEAN])
    /\ Len(member) <= MaxMembers /\ Len(row) <= MaxRows

Init == member = <<>> /\ row = <<>>

-----------------------------------------------------------------------------
(* The views v_member_balance and v_ledger of db/migrations.               *)

Sum(rows, Amount(_)) == FoldLeft(LAMBDA total, r : total + Amount(r), 0, rows)

Charged(r) == CASE r.kind = "vow" -> r.amount
                [] r.kind = "credit" -> -r.amount
                [] OTHER -> 0
Paid(r) == IF r.kind = "payment" THEN r.amount ELSE 0

Live(m) == SelectSeq(row, LAMBDA r : r.live /\ r.member = m)

\* v_member_balance.balance_agorot
Balance(m) == member[m].opening + Sum(Live(m), Charged) - Sum(Live(m), Paid)

\* v_ledger: a payment below zero stands on the debit side
Debit(r) == CASE r.kind = "vow" -> r.amount
              [] r.kind = "payment" /\ r.amount < 0 -> -r.amount
              [] OTHER -> 0
Credit(r) == CASE r.kind = "credit" -> r.amount
               [] r.kind = "payment" /\ r.amount > 0 -> r.amount
               [] OTHER -> 0

-----------------------------------------------------------------------------
(* services/ledger: the page of one member, for any range of dates.        *)

\* by date, charges before payments, then by id
Earlier(i, j) ==
    LET late(k) == IF row[k].kind = "payment" THEN 1 ELSE 0 IN
    \/ row[i].date < row[j].date
    \/ row[i].date = row[j].date /\ late(i) < late(j)
    \/ row[i].date = row[j].date /\ late(i) = late(j) /\ i < j

LedgerRows(m, from, to) ==
    LET shown == {i \in DOMAIN row : /\ row[i].live /\ row[i].member = m
                                     /\ row[i].date \in from..to}
        order == SetToSortSeq(shown, Earlier)
    IN  [k \in DOMAIN order |-> row[order[k]]]

\* mutant: the first day of the page counts twice
OpeningBalanceBefore_Inclusive(m, day) ==
    LET prior == SelectSeq(Live(m), LAMBDA r : r.date <= day)
    IN  member[m].opening + Sum(prior, LAMBDA r : Debit(r) - Credit(r))

OpeningBalanceBefore(m, day) ==
    LET prior == SelectSeq(Live(m), LAMBDA r : r.date < day)
    IN  member[m].opening + Sum(prior, LAMBDA r : Debit(r) - Credit(r))

\* the running balance, after each of the rows in turn
Running(m, from, to) ==
    LET rows == LedgerRows(m, from, to)
    IN  [k \in DOMAIN rows |-> OpeningBalanceBefore(m, from)
             + Sum(SubSeq(rows, 1, k), LAMBDA r : Debit(r) - Credit(r))]

ClosingBalance(m, from, to) ==
    LET running == Running(m, from, to)
    IN  IF running = <<>> THEN OpeningBalanceBefore(m, from) ELSE Last(running)

-----------------------------------------------------------------------------
(* services/openCharges: payments and credits cover the oldest debits.     *)

Debits(m) ==
    LET vows == SelectSeq(LedgerRows(m, 1, LastDay), LAMBDA r : r.kind = "vow")
        amounts == [k \in DOMAIN vows |-> vows[k].amount]
    IN  IF member[m].opening > 0 THEN <<member[m].opening>> \o amounts ELSE amounts

\* mutant: what the member was owed at the opening covers nothing
Covering_NoOpening(m) ==
    Sum(Live(m), Paid)
    + Sum(Live(m), LAMBDA r : IF r.kind = "credit" THEN r.amount ELSE 0)

Covering(m) ==
    Sum(Live(m), Paid)
    + Sum(Live(m), LAMBDA r : IF r.kind = "credit" THEN r.amount ELSE 0)
    + (IF member[m].opening < 0 THEN -member[m].opening ELSE 0)

Cover(state, debit) ==
    IF state.credit >= debit
    THEN [state EXCEPT !.credit = @ - debit]
    ELSE [credit |-> 0, open |-> Append(state.open, debit - state.credit)]

OpenCharges(m) ==
    FoldLeft(Cover, [credit |-> Covering(m), open |-> <<>>], Debits(m)).open

Total(lines) == FoldLeft(LAMBDA sum, line : sum + line, 0, lines)

\* The message of a debt, whatsapp/TemplateRenderer: so many lines (0: all of them), and
\* what the others are together.
FormatOpenCharges(lines, maxLines) ==
    LET limit == IF maxLines > 0 /\ maxLines < Len(lines) THEN maxLines ELSE Len(lines)
        hidden == SubSeq(lines, limit + 1, Len(lines))
    IN  [shown |-> SubSeq(lines, 1, limit),
         hidden |-> Len(hidden), hiddenTotal |-> Total(hidden)]

-----------------------------------------------------------------------------
(* services/members and services/balance: totals over all members.         *)

\* listMembers: the figures above the list, for the members it shows
Kpis(shown) ==
    [totalDebt   |-> MapThenSumSet(LAMBDA m : IF Balance(m) > 0 THEN Balance(m) ELSE 0, shown),
     totalCredit |-> MapThenSumSet(LAMBDA m : IF Balance(m) < 0 THEN -Balance(m) ELSE 0, shown)]

\* mutant: credits do not lower what was charged
Accrual_VowsOnly(from, to) ==
    LET on(day, kind) == Sum(SelectSeq(row, LAMBDA r : r.live /\ r.date = day /\ r.kind = kind),
                             LAMBDA r : r.amount)
    IN  [charged   |-> MapThenSumSet(LAMBDA day : on(day, "vow"), from..to),
         collected |-> MapThenSumSet(LAMBDA day : on(day, "payment"), from..to)]

\* accrualByMonth, with a day for a month: what was vowed and what came in
Accrual(from, to) ==
    LET on(day, Amount(_)) == Sum(SelectSeq(row, LAMBDA r : r.live /\ r.date = day), Amount)
    IN  [charged   |-> MapThenSumSet(LAMBDA day : on(day, Charged), from..to),
         collected |-> MapThenSumSet(LAMBDA day : on(day, Paid), from..to)]

\* debtorIds of services/notifications: whom the debt message is offered for
DebtorIds == {m \in Ids : member[m].status = "active" /\ Balance(m) >= 1}

\* debtorsReport of services/reports: the active members who owe at least the least
DebtorsReport(least) ==
    LET owing == {m \in Ids : member[m].status = "active" /\ Balance(m) >= least}
    IN  [count |-> Cardinality(owing), total |-> MapThenSumSet(Balance, owing)]

\* memberStatementReport: the lines of the ledger, without the opening balance
MemberStatement(m, from, to) ==
    [debit  |-> Sum(LedgerRows(m, from, to), Debit),
     credit |-> Sum(LedgerRows(m, from, to), Credit)]

\* dashboardSummary: the card of open debts
OpenDebt ==
    LET withDebt == {m \in Ids : member[m].status = "active" /\ Balance(m) > 0}
    IN  [count |-> Cardinality(withDebt), total |-> MapThenSumSet(Balance, withDebt)]

-----------------------------------------------------------------------------
(* The operations.                                                         *)

\* createMember; a sheet of members may also bring an opening balance
AddMember(opening) ==
    /\ Len(member) < MaxMembers
    /\ member' = Append(member, [status |-> "active", opening |-> opening])
    /\ UNCHANGED row

CreateMember == AddMember(0)
ImportMember == \E opening \in Openings : AddMember(opening)

Record(m, date, kind, amount) ==
    [member |-> m, date |-> date, kind |-> kind, amount |-> amount, live |-> TRUE]

AddRow(r) ==
    /\ Len(row) < MaxRows
    /\ row' = Append(row, r)
    /\ UNCHANGED member

CreateVow == \E m \in Ids, date \in Days, a \in Amounts : AddRow(Record(m, date, "vow", a))

\* one vow for each line, in one transaction
CreateVowsBulk ==
    \E date \in Days, ms \in SUBSET Ids, a \in Amounts :
        LET order == SetToSortSeq(ms, <)
            lines == [k \in DOMAIN order |-> Record(order[k], date, "vow", a)]
        IN  /\ Len(lines) > 1
            /\ Len(row) + Len(lines) <= MaxRows
            /\ row' = row \o lines
            /\ UNCHANGED member

CreateCredit ==
    \E m \in Ids, date \in Days, a \in Amounts : AddRow(Record(m, date, "credit", a))

CreatePayment ==
    \E m \in Ids, date \in Days, a \in Amounts : AddRow(Record(m, date, "payment", a))

\* parseMoney accepts a minus sign and no rule of the sheet forbids it
ImportPayment ==
    \E m \in Ids, date \in Days, a \in Imported : AddRow(Record(m, date, "payment", a))

\* deleteVowCharge, deletePayment: the row stays, marked
Delete ==
    \E i \in DOMAIN row :
        /\ row[i].live
        /\ row' = [row EXCEPT ![i].live = FALSE]
        /\ UNCHANGED member

\* a balance needs a confirmation, which the caller gives or not
SetMemberStatus ==
    \E m \in Ids, status \in {"active", "inactive"}, confirmed \in BOOLEAN :
        /\ status = "inactive" /\ Balance(m) # 0 => confirmed
        /\ member' = [member EXCEPT ![m].status = status]
        /\ UNCHANGED row

\* mutant: the opening balance is left behind
MergeMembers_OpeningStays ==
    \E from, to \in Ids :
        /\ from # to
        /\ row' = [i \in DOMAIN row |-> IF row[i].member = from
                                        THEN [row[i] EXCEPT !.member = to] ELSE row[i]]
        /\ member' = [member EXCEPT ![from].status = "inactive"]

\* every movement follows, deleted ones too; the first member is left empty
MergeMembers ==
    \E from, to \in Ids :
        /\ from # to
        /\ row' = [i \in DOMAIN row |-> IF row[i].member = from
                                        THEN [row[i] EXCEPT !.member = to] ELSE row[i]]
        /\ member' = [member EXCEPT ![to].opening = @ + member[from].opening,
                                    ![from] = [status |-> "inactive", opening |-> 0]]

Next ==
    \/ CreateMember \/ ImportMember \/ SetMemberStatus \/ MergeMembers
    \/ CreateVow \/ CreateVowsBulk \/ CreateCredit
    \/ CreatePayment \/ ImportPayment \/ Delete

Spec == Init /\ [][Next]_vars

-----------------------------------------------------------------------------
(* Properties.                                                             *)

\* F-23: wherever the ledger page is cut, its first row continues the running
\* balance of the page before, and the last page ends at the balance shown
\* everywhere else
LedgerContinues ==
    \A m \in Ids :
        /\ \A day \in 2..LastDay :
              OpeningBalanceBefore(m, day) = ClosingBalance(m, 1, day - 1)
        /\ \A day \in Days : ClosingBalance(m, day, LastDay) = Balance(m)

\* The lines of open charges add up to the debt and none of them is empty, for
\* every member with a charge; a member with none has no line, even when a
\* reversed payment left a debt. The message that lists them keeps the sum, however
\* few lines it may have.
OpenLinesCoverDebt ==
    \A m \in Ids :
        LET open == OpenCharges(m)
        IN  /\ Total(open) = IF Balance(m) > 0 /\ Debits(m) # <<>> THEN Balance(m) ELSE 0
            /\ \A k \in DOMAIN open : open[k] > 0
            /\ \A maxLines \in 0..2 :
                  LET text == FormatOpenCharges(open, maxLines)
                  IN  /\ Total(text.shown) + text.hiddenTotal = Total(open)
                      /\ text.hiddenTotal > 0 <=> text.hidden > 0

\* What the members owe, less what they are owed, is what the accrual table
\* leaves uncollected, whatever was merged, deleted or reversed; the debtors' report,
\* the card of the main screen and the list of the debt message are about the same
\* members, whose debts and those of inactive members are all; and a member's
\* statement of some days is the difference of the ledger's balances around them
ViewsAgree ==
    LET kpis == Kpis(Ids)
        accrual == Accrual(1, LastDay)
        openings == MapThenSumSet(LAMBDA m : member[m].opening, Ids)
    IN  /\ kpis.totalDebt - kpis.totalCredit
             = openings + accrual.charged - accrual.collected
        /\ DebtorsReport(1) = OpenDebt /\ OpenDebt.count = Cardinality(DebtorIds)
        /\ OpenDebt.total + Kpis({m \in Ids : member[m].status = "inactive"}).totalDebt
             = kpis.totalDebt
        /\ \A m \in Ids, from, to \in Days :
              LET statement == MemberStatement(m, from, to)
              IN  from <= to => statement.debit - statement.credit
                                  = ClosingBalance(m, from, to) - OpeningBalanceBefore(m, from)

\* B-08: a merge moves a debt and changes none: the two balances add up in the
\* one that stays, nothing is left on the other, and no message asks it for money
MergeKeepsDebt ==
    [][\A from, to \in Ids :
          (\E i \in DOMAIN row : from # to /\ row[i].member = from /\ row'[i].member = to) =>
              /\ Balance(to)' = Balance(to) + Balance(from)
              /\ Balance(from)' = 0
              /\ from \notin DebtorIds']_vars

=============================================================================
