----------------------------- MODULE ReceiptBook -----------------------------
(***************************************************************************)
(* The receipt book of NEDARIM: the two tables receipts are issued for     *)
(* (vow_payment and donation), the receipt table, and the two number       *)
(* sequences.  One action per handler of services/receipts, payments,      *)
(* donations and configuration, and per kind of row the import writes.     *)
(*                                                                         *)
(* better-sqlite3 is synchronous and the main process has one thread, so a *)
(* handler without an await is one step.  A handler that commits twice is  *)
(* modelled with both outcomes: the second commit happens, or it does not  *)
(* (it threw, or the process died between the two).                        *)
(*                                                                         *)
(* Abstracted: dates, payment methods, references, notes and audit rows;   *)
(* who is allowed to do what (some user may do everything); the member's   *)
(* own name is one of Names.                                               *)
(***************************************************************************)
EXTENDS Naturals, Sequences

CONSTANTS
    Payments,      \* row ids of vow_payment
    Donations,     \* row ids of donation
    Amounts,       \* amounts in agorot, all positive (CHECK amount_agorot > 0)
    Names,         \* names a receipt can be made out to
    ImportModes,   \* the import modes in use: "insert", "upsert", "replace"
    SheetNumbers,  \* donation numbers that import sheets carry
    StartNumbers,  \* numbers an admin sets as the next receipt number
    NoRow,         \* in the place of a row that is not in its table
    MaxReceipts,   \* bound: receipts ever issued
    MaxDonations   \* bound: donation numbers ever allocated

ASSUME TablesDisjoint == Payments \cap Donations = {}
ASSUME NumbersNatural == SheetNumbers \subseteq Nat \ {0} /\ StartNumbers \subseteq Nat
ASSUME BoundsNatural == MaxReceipts \in Nat /\ MaxDonations \in Nat

Sources == Payments \cup Donations

Keep  == "keep"    \* issueReceiptFor...: receiptName is undefined
Blank == 0         \* an empty cell in a sheet; also "no receipt", "no number"

ASSUME KeepIsNoName == Keep \notin Names

VARIABLES
    source,        \* rows of vow_payment and donation, by id
    receipts,      \* the receipt table; a row's id is its position
    nextReceipt,   \* sequence 'receipt'
    nextDonation,  \* sequence 'donation'
    jumped         \* history: numbers passed over by SetReceiptStartNumber

vars == <<source, receipts, nextReceipt, nextDonation, jumped>>

(* deleted: deleted_at is set; receipt: receipt_id; number: donation_number *)
Row == [deleted : BOOLEAN, amount : Amounts, payer : Names,
        number : Nat, receipt : Nat]

Receipt == [number : Nat \ {0}, source : Sources, amount : Amounts,
            payer : Names, cancelled : BOOLEAN]

ASSUME NoRowIsNoRow == NoRow \notin Row

\* every variable has the type its table or sequence gives it
TypeOK ==
    /\ source \in [Sources -> Row \cup {NoRow}]
    /\ receipts \in Seq(Receipt)
    /\ nextReceipt \in Nat \ {0}
    /\ nextDonation \in Nat \ {0}
    /\ jumped \subseteq Nat

-----------------------------------------------------------------------------
(* The tables as the handlers query them *)

Present(s) == source[s] # NoRow
Live(s)    == Present(s) /\ ~source[s].deleted

Ids == 1..Len(receipts)

Active(i) == ~receipts[i].cancelled

ActiveReceipts == {i \in Ids : Active(i)}

\* SELECT * FROM receipt WHERE source_type, source_id AND cancelled_at IS NULL
HasActiveReceipt(s) == \E i \in ActiveReceipts : receipts[i].source = s

\* UNIQUE (receipt_number), UNIQUE (donation_number)
ReceiptNumberUnused(n)  == \A i \in Ids : receipts[i].number # n
DonationNumberUnused(n) == \A d \in Donations : Present(d) => source[d].number # n

\* mutant: only the active ones are looked at
AboveIssued_ActiveOnly(n) == \A i \in ActiveReceipts : receipts[i].number < n

\* next > MAX(receipt_number): a cancelled receipt keeps its number
AboveIssued(n) == \A i \in Ids : receipts[i].number < n

\* receiptContinuity: numbers below the counter that no receipt carries
Missing == {n \in 1..(nextReceipt - 1) : ReceiptNumberUnused(n)}

NewRow(a, n, number) ==
    [deleted |-> FALSE, amount |-> a, payer |-> n, number |-> number, receipt |-> 0]

-----------------------------------------------------------------------------
Init ==
    /\ source = [s \in Sources |-> NoRow]
    /\ receipts = <<>>
    /\ nextReceipt = 1
    /\ nextDonation = 1
    /\ jumped = {}

(***************************************************************************)
(* issueReceipt: one BEGIN IMMEDIATE transaction takes the number, moves   *)
(* the sequence on, inserts the receipt and links the row.  row is what    *)
(* the handler has written to the source before it calls issueReceipt.     *)
(***************************************************************************)
CanIssue(s) ==
    /\ ~HasActiveReceipt(s)
    /\ ReceiptNumberUnused(nextReceipt)

\* mutant: a receipt cancelled for the same row is put back into force
IssueReceipt_Reactivates(s, row) ==
    LET old == {i \in Ids : receipts[i].source = s}
        new == [number |-> nextReceipt, source |-> s, amount |-> row.amount,
                payer |-> row.payer, cancelled |-> FALSE]
        id  == IF old = {} THEN Len(receipts) + 1 ELSE CHOOSE i \in old : TRUE
    IN  /\ CanIssue(s)
        /\ Len(receipts) < MaxReceipts
        /\ receipts' = IF old = {} THEN Append(receipts, new)
                                   ELSE [receipts EXCEPT ![id].cancelled = FALSE]
        /\ source' = [source EXCEPT ![s] = [row EXCEPT !.receipt = id]]
        /\ nextReceipt' = nextReceipt + 1
        /\ UNCHANGED jumped

IssueReceipt(s, row) ==
    /\ CanIssue(s)
    /\ Len(receipts) < MaxReceipts
    /\ receipts' = Append(receipts, [number |-> nextReceipt, source |-> s,
                                     amount |-> row.amount, payer |-> row.payer,
                                     cancelled |-> FALSE])
    /\ source' = [source EXCEPT ![s] = [row EXCEPT !.receipt = Len(receipts) + 1]]
    /\ nextReceipt' = nextReceipt + 1
    /\ UNCHANGED jumped

\* mutant: the sequence keeps what the rollback should undo
IssueRefused_SequenceMoves(s, row) ==
    /\ ~CanIssue(s)
    /\ source' = [source EXCEPT ![s] = row]
    /\ nextReceipt' = nextReceipt + 1
    /\ UNCHANGED <<receipts, jumped>>

\* issueReceipt throws: its transaction rolls back, the earlier write stays
IssueRefused(s, row) ==
    /\ ~CanIssue(s)
    /\ source' = [source EXCEPT ![s] = row]
    /\ UNCHANGED <<receipts, nextReceipt, jumped>>

-----------------------------------------------------------------------------
(* services/payments *)

\* createPayment; also one line of createPaymentsBulk, which commits line by line
CreatePayment(p, a, n) ==
    /\ ~Present(p)
    /\ source' = [source EXCEPT ![p] = NewRow(a, n, Blank)]
    /\ UNCHANGED <<receipts, nextReceipt, nextDonation, jumped>>

\* createPayment with options.issueReceipt, both commits done
CreatePaymentWithReceipt(p, a, n) ==
    /\ ~Present(p)
    /\ IssueReceipt(p, NewRow(a, n, Blank))
    /\ UNCHANGED nextDonation

\* deletePayment and deleteDonation: a logical delete, refused once receipted
SoftDelete(s) ==
    /\ Live(s)
    /\ source[s].receipt = Blank
    /\ source' = [source EXCEPT ![s].deleted = TRUE]
    /\ UNCHANGED <<receipts, nextReceipt, nextDonation, jumped>>

DeletePayment(p) == SoftDelete(p)

\* issueReceiptForPayment/Donation: the name is stored before issueReceipt runs
Renamed(s, n) == IF n = Keep THEN source[s] ELSE [source[s] EXCEPT !.payer = n]

IssueReceiptFor(s, n) ==
    /\ Live(s)
    /\ \/ IssueReceipt(s, Renamed(s, n))
       \/ IssueRefused(s, Renamed(s, n))
    /\ UNCHANGED nextDonation

IssueReceiptForPayment(p, n) == IssueReceiptFor(p, n)

-----------------------------------------------------------------------------
(* services/donations *)

\* mutant: the sequence stays where it was
TakesNextNumber_NoAdvance == /\ DonationNumberUnused(nextDonation)
                             /\ UNCHANGED nextDonation

\* the transaction of createDonation that takes the next donation number
TakesNextNumber ==
    /\ DonationNumberUnused(nextDonation)
    /\ nextDonation <= MaxDonations
    /\ nextDonation' = nextDonation + 1

CreateDonation(d, a, n) ==
    /\ ~Present(d)
    /\ TakesNextNumber
    /\ source' = [source EXCEPT ![d] = NewRow(a, n, nextDonation)]
    /\ UNCHANGED <<receipts, nextReceipt, jumped>>

CreateDonationWithReceipt(d, a, n) ==
    /\ ~Present(d)
    /\ TakesNextNumber
    /\ IssueReceipt(d, NewRow(a, n, nextDonation))

\* mutant: receipt_id is not looked at
UpdateDonation_NoReceiptCheck(d, a, n) ==
    /\ Live(d)
    /\ source' = [source EXCEPT ![d].amount = a, ![d].payer = n]
    /\ UNCHANGED <<receipts, nextReceipt, nextDonation, jumped>>

\* updateDonation: refused once receipted
UpdateDonation(d, a, n) ==
    /\ Live(d)
    /\ source[d].receipt = Blank
    /\ source' = [source EXCEPT ![d].amount = a, ![d].payer = n]
    /\ UNCHANGED <<receipts, nextReceipt, nextDonation, jumped>>

DeleteDonation(d) == SoftDelete(d)

IssueReceiptForDonation(d, n) == IssueReceiptFor(d, n)

-----------------------------------------------------------------------------
(* services/receipts, services/configuration *)

Unlinked(row, alsoDelete) ==
    [row EXCEPT !.receipt = Blank, !.deleted = row.deleted \/ alsoDelete]

\* cancelReceipt: the number stays taken; the row is unlinked, or deleted too
CancelReceipt(i, alsoDelete) ==
    LET s == receipts[i].source IN
    /\ Active(i)
    /\ receipts' = [receipts EXCEPT ![i].cancelled = TRUE]
    /\ source' = IF Present(s)
                 THEN [source EXCEPT ![s] = Unlinked(source[s], alsoDelete)]
                 ELSE source
    /\ UNCHANGED <<nextReceipt, nextDonation, jumped>>

\* mutant: zero is let through
SetReceiptStartNumber_NoRangeCheck(n) ==
    /\ AboveIssued(n)
    /\ nextReceipt' = n
    /\ jumped' = jumped \cup (nextReceipt..(n - 1))
    /\ UNCHANGED <<source, receipts, nextDonation>>

\* setReceiptStartNumber: above every issued number, whatever the counter is
SetReceiptStartNumber(n) ==
    /\ n >= 1
    /\ AboveIssued(n)
    /\ nextReceipt' = n
    /\ jumped' = jumped \cup (nextReceipt..(n - 1))
    /\ UNCHANGED <<source, receipts, nextDonation>>

-----------------------------------------------------------------------------
(***************************************************************************)
(* import/execute, one row of a sheet at a time.  The name and the amount  *)
(* are required cells, so enrich (fills empty fields only) changes nothing *)
(* this module models.  Import issues no receipts.                         *)
(***************************************************************************)
Inserting == ImportModes \cap {"insert", "upsert"} # {}

\* payments have no natural key: every row is an insert
ImportPayment(p, a, n) == Inserting /\ CreatePayment(p, a, n)

\* the cell's own number, or the next of the sequence when it is empty
NumberFromSheet(number) ==
    \/ number = Blank /\ TakesNextNumber
    \/ number # Blank /\ DonationNumberUnused(number) /\ UNCHANGED nextDonation

NumberOf(number) == IF number = Blank THEN nextDonation ELSE number

ImportNewDonation(d, a, n, number) ==
    /\ Inserting
    /\ ~Present(d)
    /\ NumberFromSheet(number)
    /\ source' = [source EXCEPT ![d] = NewRow(a, n, NumberOf(number))]
    /\ UNCHANGED <<receipts, nextReceipt, jumped>>

\* upsert: the row that carries the number, soft-deleted and receipted rows too
ImportUpdateDonation(d, a, n) ==
    /\ "upsert" \in ImportModes
    /\ Present(d)
    /\ source[d].number \in SheetNumbers
    /\ source' = [source EXCEPT ![d].amount = a, ![d].payer = n]
    /\ UNCHANGED <<receipts, nextReceipt, nextDonation, jumped>>

\* mutant: receipts do not block
ReplaceAllowed_Always == "replace" \in ImportModes

\* blockingReasons: no replace of payments or donations while a receipt is active
ReplaceAllowed == "replace" \in ImportModes /\ ActiveReceipts = {}

\* DELETE FROM the table, then the sheet's row is inserted; ids start over
Replaced(table, s, row) ==
    [t \in Sources |-> IF t = s THEN row ELSE IF t \in table THEN NoRow ELSE source[t]]

ImportReplacePayments(p, a, n) ==
    /\ ReplaceAllowed
    /\ source' = Replaced(Payments, p, NewRow(a, n, Blank))
    /\ UNCHANGED <<receipts, nextReceipt, nextDonation, jumped>>

\* the table is empty by then: only the sequence decides an empty number cell
ImportReplaceDonations(d, a, n, number) ==
    /\ ReplaceAllowed
    /\ nextDonation' = IF number = Blank THEN nextDonation + 1 ELSE nextDonation
    /\ nextDonation' <= MaxDonations + 1
    /\ source' = Replaced(Donations, d, NewRow(a, n, NumberOf(number)))
    /\ UNCHANGED <<receipts, nextReceipt, jumped>>

-----------------------------------------------------------------------------
PaymentStep ==
    \E p \in Payments :
        \/ DeletePayment(p)
        \/ \E n \in Names \cup {Keep} : IssueReceiptForPayment(p, n)
        \/ \E a \in Amounts, n \in Names :
            \/ CreatePayment(p, a, n)
            \/ CreatePaymentWithReceipt(p, a, n)
            \/ ImportPayment(p, a, n)
            \/ ImportReplacePayments(p, a, n)

DonationStep ==
    \E d \in Donations :
        \/ DeleteDonation(d)
        \/ \E n \in Names \cup {Keep} : IssueReceiptForDonation(d, n)
        \/ \E a \in Amounts, n \in Names :
            \/ CreateDonation(d, a, n)
            \/ CreateDonationWithReceipt(d, a, n)
            \/ UpdateDonation(d, a, n)
            \/ ImportUpdateDonation(d, a, n)
            \/ \E number \in SheetNumbers \cup {Blank} :
                \/ ImportNewDonation(d, a, n, number)
                \/ ImportReplaceDonations(d, a, n, number)

BookStep ==
    \/ \E i \in Ids, alsoDelete \in BOOLEAN : CancelReceipt(i, alsoDelete)
    \/ \E n \in StartNumbers : SetReceiptStartNumber(n)

Next == PaymentStep \/ DonationStep \/ BookStep

Spec == Init /\ [][Next]_vars

-----------------------------------------------------------------------------
(* Correctness *)

\* A receipt in force and the row it was issued for name each other: every row
\* with a receipt_id is live and its receipt is active and was issued for it, and
\* every active receipt's row points back (issueReceipt, cancelReceipt, the
\* deletes and the import's block keep the two tables in step).
RowsNameReceipts ==
    \A s \in Sources : Present(s) /\ source[s].receipt # Blank =>
        /\ Live(s)
        /\ source[s].receipt \in ActiveReceipts
        /\ receipts[source[s].receipt].source = s

ReceiptsNameRows ==
    \A i \in ActiveReceipts :
        LET s == receipts[i].source IN Present(s) /\ source[s].receipt = i

LinkMutual == RowsNameReceipts /\ ReceiptsNameRows

\* The next receipt number is above every number issued, cancelled ones included,
\* whatever start numbers were set: issuing can never fail on UNIQUE(receipt_number).
NextReceiptUnissued == \A i \in Ids : receipts[i].number < nextReceipt

\* Every number receiptContinuity reports missing was passed over on purpose by
\* setReceiptStartNumber; failed or refused handlers leave no hole (B-03).
HolesAreJumps == Missing \subseteq jumped

\* Without upsert imports, the amount printed on an active receipt is the amount
\* the payment or donation still has (B-05: a receipted row's amount is frozen).
ReceiptShowsAmount ==
    \A i \in ActiveReceipts :
        LET s == receipts[i].source IN
        Present(s) => source[s].amount = receipts[i].amount

\* The number the donation sequence holds is free: the next createDonation, and the
\* next imported row with an empty number cell, cannot fail on UNIQUE(donation_number)
\* (a failure rolls the sequence back, so it would repeat for ever).
NextDonationUnused == DonationNumberUnused(nextDonation)

\* The book only grows at its end, by a receipt that carries the sequence's number;
\* of an existing receipt nothing changes but that it gets cancelled, once (B-04).
Extends(old, new) ==
    /\ Len(new) \in {Len(old), Len(old) + 1}
    /\ \A i \in 1..Len(old) :
        \/ new[i] = old[i]
        \/ ~old[i].cancelled /\ new[i] = [old[i] EXCEPT !.cancelled = TRUE]
    /\ Len(new) = Len(old) + 1 =>
        /\ new[Len(new)].number = nextReceipt
        /\ ~new[Len(new)].cancelled

BookAppendOnly == [][Extends(receipts, receipts')]_receipts

=============================================================================
