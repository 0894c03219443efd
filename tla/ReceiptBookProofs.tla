-------------------------- MODULE ReceiptBookProofs --------------------------
(***************************************************************************)
(* Theorems about ReceiptBook, for every set of rows, amounts, names and   *)
(* import modes and every bound.                                           *)
(*                                                                         *)
(* The handlers do only five things to the tables: write one row that      *)
(* keeps its link, issue a receipt, cancel one, replace a whole table, set *)
(* the sequence.  There is one lemma for each, and each action of Next is  *)
(* an instance of one of them.                                             *)
(***************************************************************************)
EXTENDS ReceiptBook, SequenceTheorems, TLAPS

\* The inductive invariant: the types, the links both ways, and the sequence ahead of
\* the book.  LinkMutual alone is not inductive: issuing puts the position Len + 1
\* into a row, which is right only if receipts is a sequence of receipts.
IInv == TypeOK /\ LinkMutual /\ NextReceiptUnissued

-----------------------------------------------------------------------------
(* What the types give about the book *)

LEMMA BookTypes ==
    ASSUME TypeOK, NEW i \in Ids
    PROVE  /\ Len(receipts) \in Nat
           /\ i \in Nat \ {0}
           /\ receipts[i] \in Receipt
           /\ receipts[i].source \in Sources
           /\ receipts[i].number \in Nat \ {0}
<1>1. receipts \in Seq(Receipt) /\ i \in 1..Len(receipts)
  BY DEF TypeOK, Ids
<1>2. Len(receipts) \in Nat /\ receipts[i] \in Receipt
  BY <1>1, LenProperties, ElementOfSeq
<1>3. QED
  BY <1>1, <1>2 DEF Receipt

-----------------------------------------------------------------------------
(* The five effects *)

\* A handler that writes one row and leaves the book alone keeps the invariant, if the
\* row keeps its receipt_id and stays live, or had no receipt in force and gets none.
LEMMA RowWritten ==
    ASSUME IInv, NEW s \in Sources, NEW row \in Row,
           source' = [source EXCEPT ![s] = row],
           UNCHANGED <<receipts, nextReceipt, jumped>>, nextDonation' \in Nat \ {0},
           \/ Present(s) /\ row.receipt = source[s].receipt /\ row.deleted = source[s].deleted
           \/ ~Present(s) /\ row.receipt = Blank
           \/ Present(s) /\ source[s].receipt = Blank /\ row.receipt = Blank
    PROVE  IInv'
<1>1. TypeOK'
  BY DEF IInv, TypeOK
<1>2. source'[s] = row /\ row # NoRow /\ \A t \in Sources : t # s => source'[t] = source[t]
  BY NoRowIsNoRow DEF IInv, TypeOK
<1>3. ActiveReceipts' = ActiveReceipts /\ Ids' = Ids
  BY DEF ActiveReceipts, Ids, Active
<1>4. \A i \in ActiveReceipts : receipts[i].source \in Sources
  BY BookTypes DEF IInv, ActiveReceipts
<1>5. RowsNameReceipts'
  <2>1. SUFFICES ASSUME NEW t \in Sources, Present(t)', source'[t].receipt # Blank
                 PROVE  /\ Live(t)'
                        /\ source'[t].receipt \in ActiveReceipts'
                        /\ receipts'[source'[t].receipt].source = t
    BY DEF RowsNameReceipts
  <2>2. CASE t = s
    BY <2>1, <2>2, <1>2, <1>3 DEF IInv, LinkMutual, RowsNameReceipts, Present, Live
  <2>3. CASE t # s
    BY <2>1, <2>3, <1>2, <1>3 DEF IInv, LinkMutual, RowsNameReceipts, Present, Live
  <2>4. QED
    BY <2>2, <2>3
<1>6. ReceiptsNameRows'
  <2>1. SUFFICES ASSUME NEW i \in ActiveReceipts
                 PROVE  /\ Present(receipts[i].source)'
                        /\ source'[receipts[i].source].receipt = i
    BY <1>3 DEF ReceiptsNameRows
  <2>2. Present(receipts[i].source) /\ source[receipts[i].source].receipt = i /\ i # Blank
    BY <2>1 DEF IInv, LinkMutual, ReceiptsNameRows, ActiveReceipts, Ids, Blank
  <2>3. CASE receipts[i].source = s
    BY <2>2, <2>3, <1>2 DEF Present
  <2>4. CASE receipts[i].source # s
    BY <2>2, <2>4, <1>2, <1>4 DEF Present
  <2>5. QED
    BY <2>3, <2>4
<1>7. NextReceiptUnissued'
  BY <1>3 DEF IInv, NextReceiptUnissued
<1>8. QED
  BY <1>1, <1>5, <1>6, <1>7 DEF IInv, LinkMutual

\* A row that is written and left without issuing: what a row of the tables is made of.
LEMMA NewRowTypes ==
    ASSUME NEW a \in Amounts, NEW n \in Names, NEW number \in Nat
    PROVE  /\ NewRow(a, n, number) \in Row
           /\ NewRow(a, n, number).receipt = Blank
           /\ NewRow(a, n, number).deleted = FALSE
           /\ NewRow(a, n, number).amount = a
           /\ NewRow(a, n, number).number = number
BY DEF NewRow, Row, Blank

\* issueReceipt keeps the invariant: the new receipt and the row name each other, no other
\* active receipt names the row, and the sequence moves above the number just taken.
LEMMA Issued ==
    ASSUME IInv, NEW s \in Sources, NEW row \in Row, ~row.deleted,
           Present(s) => Live(s),
           IssueReceipt(s, row), nextDonation' \in Nat \ {0}
    PROVE  IInv'
<1> DEFINE new == [number |-> nextReceipt, source |-> s, amount |-> row.amount,
                   payer |-> row.payer, cancelled |-> FALSE]
           linked == [row EXCEPT !.receipt = Len(receipts) + 1]
<1>1. /\ receipts \in Seq(Receipt) /\ nextReceipt \in Nat \ {0} /\ Len(receipts) \in Nat
      /\ source \in [Sources -> Row \cup {NoRow}]
  BY LenProperties DEF IInv, TypeOK
<1>2. /\ receipts' = Append(receipts, new) /\ source' = [source EXCEPT ![s] = linked]
      /\ nextReceipt' = nextReceipt + 1 /\ jumped' = jumped
      /\ ~HasActiveReceipt(s)
  BY DEF IssueReceipt, CanIssue
<1>3. /\ new \in Receipt /\ new.source = s /\ new.number = nextReceipt /\ ~new.cancelled
  BY <1>1 DEF Receipt, Row
<1>4. linked \in Row /\ linked.receipt = Len(receipts) + 1 /\ ~linked.deleted
  BY <1>1 DEF Row
<1>5. /\ receipts' \in Seq(Receipt)
      /\ Len(receipts') = Len(receipts) + 1
      /\ \A i \in Ids : receipts'[i] = receipts[i]
      /\ receipts'[Len(receipts) + 1] = new
  <2> HIDE DEF new
  <2> QED
    BY <1>1, <1>2, <1>3, AppendProperties DEF Ids
<1>6. /\ source'[s] = linked /\ linked # NoRow
      /\ \A t \in Sources : t # s => source'[t] = source[t]
  BY <1>1, <1>2, <1>4, NoRowIsNoRow
<1> HIDE DEF new, linked
<1>7. Ids' = Ids \cup {Len(receipts) + 1} /\ Len(receipts) + 1 \notin Ids
  BY <1>1, <1>5 DEF Ids
<1>8. ActiveReceipts' = ActiveReceipts \cup {Len(receipts) + 1}
  BY <1>3, <1>5, <1>7 DEF ActiveReceipts, Active
<1>9. TypeOK'
  BY <1>1, <1>2, <1>4, <1>5 DEF IInv, TypeOK
<1>10. RowsNameReceipts'
  <2>1. SUFFICES ASSUME NEW t \in Sources, Present(t)', source'[t].receipt # Blank
                 PROVE  /\ Live(t)'
                        /\ source'[t].receipt \in ActiveReceipts'
                        /\ receipts'[source'[t].receipt].source = t
    BY DEF RowsNameReceipts
  <2>2. CASE t = s
    BY <2>1, <2>2, <1>3, <1>4, <1>5, <1>6, <1>8 DEF Live, Present
  <2>3. CASE t # s
    <3>1. Present(t) /\ source[t].receipt # Blank
      BY <2>1, <2>3, <1>6 DEF Present
    <3>2. /\ Live(t) /\ source[t].receipt \in ActiveReceipts
          /\ receipts[source[t].receipt].source = t
      BY <3>1 DEF IInv, LinkMutual, RowsNameReceipts
    <3>3. QED
      BY <2>1, <2>3, <3>2, <1>5, <1>6, <1>8 DEF Live, Present, ActiveReceipts
  <2>4. QED
    BY <2>2, <2>3
<1>11. ReceiptsNameRows'
  <2>1. SUFFICES ASSUME NEW i \in ActiveReceipts'
                 PROVE  /\ Present(receipts[i].source)'
                        /\ source'[receipts'[i].source].receipt = i
    BY DEF ReceiptsNameRows
  <2>2. CASE i = Len(receipts) + 1
    BY <2>2, <1>3, <1>4, <1>5, <1>6 DEF Present
  <2>3. CASE i \in ActiveReceipts
    <3>1. receipts'[i] = receipts[i] /\ receipts[i].source \in Sources
      BY <2>3, <1>5, BookTypes DEF ActiveReceipts, IInv
    <3>2. receipts[i].source # s
      BY <2>3, <1>2 DEF HasActiveReceipt
    <3>3. Present(receipts[i].source) /\ source[receipts[i].source].receipt = i
      BY <2>3 DEF IInv, LinkMutual, ReceiptsNameRows
    <3>4. QED
      BY <3>1, <3>2, <3>3, <1>6 DEF Present
  <2>4. QED
    BY <2>2, <2>3, <1>8
<1>12. NextReceiptUnissued'
  <2>1. SUFFICES ASSUME NEW i \in Ids' PROVE receipts'[i].number < nextReceipt + 1
    BY <1>2 DEF NextReceiptUnissued
  <2>2. CASE i = Len(receipts) + 1
    BY <2>2, <1>1, <1>3, <1>5
  <2>3. CASE i \in Ids
    <3>1. receipts[i].number < nextReceipt /\ receipts[i].number \in Nat
      BY <2>3, BookTypes DEF IInv, NextReceiptUnissued
    <3>2. QED
      BY <2>3, <3>1, <1>1, <1>5
  <2>4. QED
    BY <2>2, <2>3, <1>7
<1>13. QED
  BY <1>9, <1>10, <1>11, <1>12 DEF IInv, LinkMutual

\* cancelReceipt keeps the invariant: the receipt leaves the active ones and its row, which
\* by the invariant is the one row that names it, is unlinked in the same transaction.
LEMMA Cancelled ==
    ASSUME IInv, NEW i \in Ids, NEW alsoDelete \in BOOLEAN, CancelReceipt(i, alsoDelete)
    PROVE  IInv'
<1> DEFINE s == receipts[i].source
           unlinked == Unlinked(source[s], alsoDelete)
           cancelled == [receipts[i] EXCEPT !.cancelled = TRUE]
<1>1. /\ receipts \in Seq(Receipt) /\ receipts[i] \in Receipt /\ s \in Sources
      /\ source \in [Sources -> Row \cup {NoRow}] /\ i \in 1..Len(receipts)
  BY BookTypes DEF IInv, TypeOK, Ids
<1>2. /\ i \in ActiveReceipts /\ Present(s) /\ source[s].receipt = i /\ i # Blank
  BY DEF CancelReceipt, ActiveReceipts, IInv, LinkMutual, ReceiptsNameRows, Ids, Blank
<1>3. /\ receipts' = [receipts EXCEPT ![i] = cancelled]
      /\ source' = [source EXCEPT ![s] = unlinked]
      /\ UNCHANGED <<nextReceipt, nextDonation, jumped>>
  BY <1>1, <1>2 DEF CancelReceipt
<1>4. source[s] \in Row
  BY <1>1, <1>2 DEF Present
<1>5. unlinked \in Row /\ unlinked.receipt = Blank
  BY <1>4 DEF Row, Blank, Unlinked
<1>6. cancelled \in Receipt /\ cancelled.cancelled /\ cancelled.number = receipts[i].number
  BY <1>1 DEF Receipt
<1> HIDE DEF s, unlinked, cancelled
<1>7. /\ receipts' \in Seq(Receipt) /\ Ids' = Ids /\ receipts'[i] = cancelled
      /\ \A j \in Ids : j # i => receipts'[j] = receipts[j]
  BY <1>1, <1>3, <1>6, ExceptSeq DEF Ids
<1>8. /\ source'[s] = unlinked /\ unlinked # NoRow
      /\ \A t \in Sources : t # s => source'[t] = source[t]
  BY <1>1, <1>3, <1>5, NoRowIsNoRow
<1>9. ActiveReceipts' = ActiveReceipts \ {i}
  BY <1>6, <1>7 DEF ActiveReceipts, Active
<1>10. TypeOK'
  BY <1>1, <1>3, <1>5, <1>7 DEF IInv, TypeOK
<1>11. RowsNameReceipts'
  <2>1. SUFFICES ASSUME NEW t \in Sources, Present(t)', source'[t].receipt # Blank
                 PROVE  /\ Live(t)'
                        /\ source'[t].receipt \in ActiveReceipts'
                        /\ receipts'[source'[t].receipt].source = t
    BY DEF RowsNameReceipts
  <2>2. t # s
    BY <2>1, <1>5, <1>8
  <2>3. /\ Live(t) /\ source[t].receipt \in ActiveReceipts
        /\ receipts[source[t].receipt].source = t
    BY <2>1, <2>2, <1>8 DEF IInv, LinkMutual, RowsNameReceipts, Present
  <2>4. source[t].receipt # i
    BY <2>2, <2>3 DEF s
  <2>5. QED
    BY <2>2, <2>3, <2>4, <1>7, <1>8, <1>9 DEF Live, Present, ActiveReceipts
<1>12. ReceiptsNameRows'
  <2>1. SUFFICES ASSUME NEW j \in ActiveReceipts, j # i
                 PROVE  /\ Present(receipts[j].source)'
                        /\ source'[receipts'[j].source].receipt = j
    BY <1>9 DEF ReceiptsNameRows
  <2>2. receipts'[j] = receipts[j] /\ receipts[j].source \in Sources
    BY <2>1, <1>7, BookTypes DEF ActiveReceipts, IInv
  <2>3. Present(receipts[j].source) /\ source[receipts[j].source].receipt = j
    BY <2>1 DEF IInv, LinkMutual, ReceiptsNameRows
  <2>4. receipts[j].source # s
    BY <2>1, <2>3, <1>2
  <2>5. QED
    BY <2>2, <2>3, <2>4, <1>8 DEF Present
<1>13. NextReceiptUnissued'
  BY <1>3, <1>6, <1>7 DEF IInv, NextReceiptUnissued
<1>14. QED
  BY <1>10, <1>11, <1>12, <1>13 DEF IInv, LinkMutual

\* A replace import keeps the invariant: it runs only while no receipt is active, so that
\* no row it deletes is named by one and no row it inserts takes over an old link.
LEMMA TableReplaced ==
    ASSUME IInv, ReplaceAllowed, NEW table \in SUBSET Sources, NEW s \in table,
           NEW row \in Row, row.receipt = Blank,
           source' = Replaced(table, s, row),
           UNCHANGED <<receipts, nextReceipt, jumped>>, nextDonation' \in Nat \ {0}
    PROVE  IInv'
<1>1. /\ source \in [Sources -> Row \cup {NoRow}]
      /\ source' \in [Sources -> Row \cup {NoRow}]
      /\ \A t \in Sources : source'[t] \in {row, NoRow, source[t]}
  BY DEF IInv, TypeOK, Replaced
<1>2. ActiveReceipts = {} /\ ActiveReceipts' = {}
  BY DEF ReplaceAllowed, ActiveReceipts, Ids, Active
<1>3. \A t \in Sources : Present(t) => source[t].receipt = Blank
  BY <1>2 DEF IInv, LinkMutual, RowsNameReceipts
<1>4. \A t \in Sources : Present(t)' => source'[t].receipt = Blank
  BY <1>1, <1>3 DEF Present
<1>5. LinkMutual'
  BY <1>2, <1>4 DEF LinkMutual, RowsNameReceipts, ReceiptsNameRows
<1>6. TypeOK' /\ NextReceiptUnissued'
  BY <1>1 DEF IInv, TypeOK, NextReceiptUnissued, Ids
<1>7. QED
  BY <1>5, <1>6 DEF IInv

\* setReceiptStartNumber keeps the invariant: it may lower the counter, but only to a number
\* above every receipt of the book.
LEMMA SequenceSet ==
    ASSUME IInv, NEW n \in StartNumbers, SetReceiptStartNumber(n)
    PROVE  IInv'
<1>1. n \in Nat \ {0} /\ nextReceipt' = n
  BY NumbersNatural DEF SetReceiptStartNumber
<1>2. TypeOK'
  BY <1>1 DEF IInv, TypeOK, SetReceiptStartNumber
<1>3. LinkMutual'
  BY DEF IInv, LinkMutual, RowsNameReceipts, ReceiptsNameRows, Present, Live,
         ActiveReceipts, Active, Ids, SetReceiptStartNumber
<1>4. NextReceiptUnissued'
  BY <1>1 DEF NextReceiptUnissued, AboveIssued, Ids, SetReceiptStartNumber
<1>5. QED
  BY <1>2, <1>3, <1>4 DEF IInv

-----------------------------------------------------------------------------
(* Every action is one of the five effects *)

LEMMA InitKeepsIInv == Init => IInv
<1> SUFFICES ASSUME Init PROVE IInv
  OBVIOUS
<1>1. receipts = <<>> /\ Ids = {} /\ ActiveReceipts = {}
  BY DEF Init, Ids, ActiveReceipts
<1>2. TypeOK
  BY <1>1, EmptySeq DEF Init, TypeOK
<1>3. LinkMutual /\ NextReceiptUnissued
  BY <1>1 DEF Init, LinkMutual, RowsNameReceipts, ReceiptsNameRows, Present,
              NextReceiptUnissued
<1>4. QED
  BY <1>2, <1>3 DEF IInv

\* issueReceiptForPayment/Donation, issued or refused
LEMMA IssueReceiptForKeepsIInv ==
    ASSUME IInv, NEW s \in Sources, NEW n \in Names \cup {Keep}, IssueReceiptFor(s, n)
    PROVE  IInv'
<1>1. source[s] \in Row /\ Present(s) /\ ~source[s].deleted
  BY DEF IssueReceiptFor, Live, Present, IInv, TypeOK
<1>2. /\ Renamed(s, n) \in Row
      /\ Renamed(s, n).receipt = source[s].receipt
      /\ Renamed(s, n).deleted = source[s].deleted
  BY <1>1 DEF Renamed, Row
<1>3. nextDonation' \in Nat \ {0}
  BY DEF IssueReceiptFor, IInv, TypeOK
<1>4. CASE IssueReceipt(s, Renamed(s, n))
  BY <1>1, <1>2, <1>3, <1>4, Issued DEF Live
<1>5. CASE IssueRefused(s, Renamed(s, n))
  BY <1>1, <1>2, <1>3, <1>5, RowWritten DEF IssueRefused
<1>6. QED
  BY <1>4, <1>5 DEF IssueReceiptFor

\* deletePayment, deleteDonation
LEMMA SoftDeleteKeepsIInv ==
    ASSUME IInv, NEW s \in Sources, SoftDelete(s)
    PROVE  IInv'
<1>1. source[s] \in Row /\ Present(s) /\ source[s].receipt = Blank
  BY DEF SoftDelete, Live, Present, IInv, TypeOK
<1> DEFINE row == [source[s] EXCEPT !.deleted = TRUE]
<1>2. row \in Row /\ row.receipt = Blank
  BY <1>1 DEF Row
<1>3. source' = [source EXCEPT ![s] = row]
  BY DEF SoftDelete
<1> HIDE DEF row
<1>4. nextDonation' \in Nat \ {0} /\ UNCHANGED <<receipts, nextReceipt, jumped>>
  BY DEF SoftDelete, IInv, TypeOK
<1>5. QED
  BY <1>1, <1>2, <1>3, <1>4, RowWritten

\* updateDonation and the update of an upsert import rewrite amount and name only
LEMMA RewriteKeepsIInv ==
    ASSUME IInv, NEW d \in Sources, Present(d), NEW a \in Amounts, NEW n \in Names,
           source' = [source EXCEPT ![d].amount = a, ![d].payer = n],
           UNCHANGED <<receipts, nextReceipt, nextDonation, jumped>>
    PROVE  IInv'
<1>1. source[d] \in Row
  BY DEF Present, IInv, TypeOK
<1> DEFINE row == [source[d] EXCEPT !.amount = a, !.payer = n]
<1>2. row \in Row /\ row.receipt = source[d].receipt /\ row.deleted = source[d].deleted
  BY <1>1 DEF Row
<1>3. source' = [source EXCEPT ![d] = row]
  BY DEF IInv, TypeOK
<1> HIDE DEF row
<1>4. nextDonation' \in Nat \ {0}
  BY DEF IInv, TypeOK
<1>5. QED
  BY <1>2, <1>3, <1>4, RowWritten

\* createPayment, createDonation, and the inserts of an import
LEMMA InsertKeepsIInv ==
    ASSUME IInv, NEW s \in Sources, NEW a \in Amounts, NEW n \in Names, NEW number \in Nat,
           ~Present(s), source' = [source EXCEPT ![s] = NewRow(a, n, number)],
           UNCHANGED <<receipts, nextReceipt, jumped>>, nextDonation' \in Nat \ {0}
    PROVE  IInv'
BY NewRowTypes, RowWritten

\* The next donation number, taken or not, is a number.
LEMMA DonationSequenceTypes ==
    ASSUME IInv
    PROVE  /\ nextDonation \in Nat \ {0}
           /\ TakesNextNumber => nextDonation' \in Nat \ {0}
           /\ \A number \in SheetNumbers \cup {Blank} :
                /\ NumberOf(number) \in Nat
                /\ NumberFromSheet(number) => nextDonation' \in Nat \ {0}
BY NumbersNatural DEF IInv, TypeOK, TakesNextNumber, NumberFromSheet, NumberOf, Blank

LEMMA PaymentStepKeepsIInv == IInv /\ PaymentStep => IInv'
<1> SUFFICES ASSUME IInv, NEW p \in Payments,
                    \/ DeletePayment(p)
                    \/ \E n \in Names \cup {Keep} : IssueReceiptForPayment(p, n)
                    \/ \E a \in Amounts, n \in Names :
                        \/ CreatePayment(p, a, n)
                        \/ CreatePaymentWithReceipt(p, a, n)
                        \/ ImportPayment(p, a, n)
                        \/ ImportReplacePayments(p, a, n)
             PROVE  IInv'
  BY DEF PaymentStep
<1> p \in Sources /\ nextDonation \in Nat \ {0} /\ Blank \in Nat
  BY DonationSequenceTypes DEF Sources, Blank
<1>1. CASE DeletePayment(p)
  BY <1>1, SoftDeleteKeepsIInv DEF DeletePayment
<1>2. CASE \E n \in Names \cup {Keep} : IssueReceiptForPayment(p, n)
  BY <1>2, IssueReceiptForKeepsIInv DEF IssueReceiptForPayment
<1>3. ASSUME NEW a \in Amounts, NEW n \in Names PROVE CreatePayment(p, a, n) => IInv'
  BY InsertKeepsIInv DEF CreatePayment
<1>4. ASSUME NEW a \in Amounts, NEW n \in Names
      PROVE  CreatePaymentWithReceipt(p, a, n) => IInv'
  BY NewRowTypes, Issued DEF CreatePaymentWithReceipt
<1>5. ASSUME NEW a \in Amounts, NEW n \in Names PROVE ImportPayment(p, a, n) => IInv'
  BY <1>3 DEF ImportPayment
<1>6. ASSUME NEW a \in Amounts, NEW n \in Names PROVE ImportReplacePayments(p, a, n) => IInv'
  <2>1. Payments \in SUBSET Sources /\ NewRow(a, n, Blank) \in Row
        /\ NewRow(a, n, Blank).receipt = Blank
    BY NewRowTypes DEF Sources
  <2>2. QED
    BY <2>1, TableReplaced DEF ImportReplacePayments
<1>7. QED
  BY <1>1, <1>2, <1>3, <1>4, <1>5, <1>6

LEMMA DonationStepKeepsIInv == IInv /\ DonationStep => IInv'
<1> SUFFICES ASSUME IInv, NEW d \in Donations,
                    \/ DeleteDonation(d)
                    \/ \E n \in Names \cup {Keep} : IssueReceiptForDonation(d, n)
                    \/ \E a \in Amounts, n \in Names :
                        \/ CreateDonation(d, a, n)
                        \/ CreateDonationWithReceipt(d, a, n)
                        \/ UpdateDonation(d, a, n)
                        \/ ImportUpdateDonation(d, a, n)
                        \/ \E number \in SheetNumbers \cup {Blank} :
                            \/ ImportNewDonation(d, a, n, number)
                            \/ ImportReplaceDonations(d, a, n, number)
             PROVE  IInv'
  BY DEF DonationStep
<1> d \in Sources /\ nextDonation \in Nat \ {0}
  BY DonationSequenceTypes DEF Sources
<1>1. CASE DeleteDonation(d)
  BY <1>1, SoftDeleteKeepsIInv DEF DeleteDonation
<1>2. CASE \E n \in Names \cup {Keep} : IssueReceiptForDonation(d, n)
  BY <1>2, IssueReceiptForKeepsIInv DEF IssueReceiptForDonation
<1>3. ASSUME NEW a \in Amounts, NEW n \in Names PROVE CreateDonation(d, a, n) => IInv'
  BY InsertKeepsIInv, DonationSequenceTypes DEF CreateDonation
<1>4. ASSUME NEW a \in Amounts, NEW n \in Names
      PROVE  CreateDonationWithReceipt(d, a, n) => IInv'
  BY NewRowTypes, Issued, DonationSequenceTypes DEF CreateDonationWithReceipt
<1>5. ASSUME NEW a \in Amounts, NEW n \in Names PROVE UpdateDonation(d, a, n) => IInv'
  BY RewriteKeepsIInv DEF UpdateDonation, Live
<1>6. ASSUME NEW a \in Amounts, NEW n \in Names PROVE ImportUpdateDonation(d, a, n) => IInv'
  BY RewriteKeepsIInv DEF ImportUpdateDonation
<1>7. ASSUME NEW a \in Amounts, NEW n \in Names, NEW number \in SheetNumbers \cup {Blank}
      PROVE  ImportNewDonation(d, a, n, number) => IInv'
  BY InsertKeepsIInv, DonationSequenceTypes DEF ImportNewDonation
<1>8. ASSUME NEW a \in Amounts, NEW n \in Names, NEW number \in SheetNumbers \cup {Blank}
      PROVE  ImportReplaceDonations(d, a, n, number) => IInv'
  <2> NumberOf(number) \in Nat
    BY DonationSequenceTypes
  <2>1. /\ NewRow(a, n, NumberOf(number)) \in Row
        /\ NewRow(a, n, NumberOf(number)).receipt = Blank
    BY DEF NewRow, Row, Blank
  <2> Donations \in SUBSET Sources
    BY DEF Sources
  <2>2. ImportReplaceDonations(d, a, n, number) => nextDonation' \in Nat \ {0}
    BY DEF ImportReplaceDonations
  <2>3. QED
    BY <2>1, <2>2, TableReplaced DEF ImportReplaceDonations
<1>9. QED
  BY <1>1, <1>2, <1>3, <1>4, <1>5, <1>6, <1>7, <1>8

LEMMA NextKeepsIInv == IInv /\ [Next]_vars => IInv'
<1> SUFFICES ASSUME IInv, [Next]_vars PROVE IInv'
  OBVIOUS
<1>1. CASE PaymentStep
  BY <1>1, PaymentStepKeepsIInv
<1>2. CASE DonationStep
  BY <1>2, DonationStepKeepsIInv
<1>3. CASE BookStep
  BY <1>3, Cancelled, SequenceSet DEF BookStep
<1>4. CASE UNCHANGED vars
  BY <1>4 DEF vars, IInv, TypeOK, LinkMutual, RowsNameReceipts, ReceiptsNameRows, Present, Live,
              ActiveReceipts, Active, Ids, NextReceiptUnissued
<1>5. QED
  BY <1>1, <1>2, <1>3, <1>4 DEF Next

\* The invariant holds throughout.
THEOREM InvariantHolds == Spec => []IInv
BY InitKeepsIInv, NextKeepsIInv, PTL DEF Spec

\* Every variable keeps its type, whatever the order of issues, cancellations and imports.
THEOREM TypeCorrect == Spec => []TypeOK
<1>1. IInv => TypeOK
  BY DEF IInv
<1>2. QED
  BY <1>1, InvariantHolds, PTL

\* Receipts in force and the rows they were issued for always name each other.
THEOREM LinksAreMutual == Spec => []LinkMutual
<1>1. IInv => LinkMutual
  BY DEF IInv
<1>2. QED
  BY <1>1, InvariantHolds, PTL

\* A receipt can always be issued: the next number is above every number in the book.
THEOREM NextReceiptAlwaysUnissued == Spec => []NextReceiptUnissued
<1>1. IInv => NextReceiptUnissued
  BY DEF IInv
<1>2. QED
  BY <1>1, InvariantHolds, PTL

-----------------------------------------------------------------------------
(* What the steps do to the book, and what follows from it *)

\* The book itself changes only by an issue, a cancellation or a new start number.
LEMMA BookEffects ==
    ASSUME [Next]_vars
    PROVE  \/ UNCHANGED <<receipts, nextReceipt, jumped>>
           \/ \E s \in Sources : \E row : IssueReceipt(s, row)
           \/ \E i \in Ids, alsoDelete \in BOOLEAN : CancelReceipt(i, alsoDelete)
           \/ \E n \in StartNumbers : SetReceiptStartNumber(n)
<1>1. CASE PaymentStep
  <2>1. PICK p \in Payments :
            \/ DeletePayment(p)
            \/ \E n \in Names \cup {Keep} : IssueReceiptForPayment(p, n)
            \/ \E a \in Amounts, n \in Names :
                \/ CreatePayment(p, a, n)
                \/ CreatePaymentWithReceipt(p, a, n)
                \/ ImportPayment(p, a, n)
                \/ ImportReplacePayments(p, a, n)
    BY <1>1 DEF PaymentStep
  <2>2. p \in Sources
    BY DEF Sources
  <2>3. QED
    BY <2>1, <2>2 DEF DeletePayment, SoftDelete, IssueReceiptForPayment, IssueReceiptFor,
       IssueRefused, CreatePayment, CreatePaymentWithReceipt, ImportPayment,
       ImportReplacePayments
<1>2. CASE DonationStep
  <2>1. PICK d \in Donations :
            \/ DeleteDonation(d)
            \/ \E n \in Names \cup {Keep} : IssueReceiptForDonation(d, n)
            \/ \E a \in Amounts, n \in Names :
                \/ CreateDonation(d, a, n)
                \/ CreateDonationWithReceipt(d, a, n)
                \/ UpdateDonation(d, a, n)
                \/ ImportUpdateDonation(d, a, n)
                \/ \E number \in SheetNumbers \cup {Blank} :
                    \/ ImportNewDonation(d, a, n, number)
                    \/ ImportReplaceDonations(d, a, n, number)
    BY <1>2 DEF DonationStep
  <2>2. d \in Sources
    BY DEF Sources
  <2>3. QED
    BY <2>1, <2>2 DEF DeleteDonation, SoftDelete, IssueReceiptForDonation, IssueReceiptFor,
       IssueRefused, CreateDonation, CreateDonationWithReceipt, UpdateDonation,
       ImportUpdateDonation, ImportNewDonation, ImportReplaceDonations
<1>3. CASE BookStep
  BY <1>3 DEF BookStep
<1>4. CASE UNCHANGED vars
  BY <1>4 DEF vars
<1>5. QED
  BY <1>1, <1>2, <1>3, <1>4 DEF Next

\* What a transaction that issues a receipt does to the receipt table.
LEMMA IssueAppends ==
    ASSUME IInv, IInv', NEW s \in Sources, NEW row, IssueReceipt(s, row)
    PROVE  /\ Len(receipts') = Len(receipts) + 1
           /\ \A i \in Ids : receipts'[i] = receipts[i]
           /\ receipts'[Len(receipts) + 1].number = nextReceipt
           /\ receipts'[Len(receipts) + 1].source = s
           /\ receipts'[Len(receipts) + 1].amount = row.amount
           /\ ~receipts'[Len(receipts) + 1].cancelled
           /\ nextReceipt' = nextReceipt + 1
           /\ jumped' = jumped
<1> DEFINE new == [number |-> nextReceipt, source |-> s, amount |-> row.amount,
                   payer |-> row.payer, cancelled |-> FALSE]
<1>1. receipts' = Append(receipts, new)
  BY DEF IssueReceipt
<1>2. receipts \in Seq(Receipt \cup {new}) /\ new \in Receipt \cup {new}
  BY SeqMonotonic DEF IInv, TypeOK
<1> HIDE DEF new
<1>3. /\ Len(receipts') = Len(receipts) + 1
      /\ \A i \in Ids : receipts'[i] = receipts[i]
      /\ receipts'[Len(receipts) + 1] = new
  BY <1>1, <1>2, AppendProperties DEF Ids
<1>4. /\ new.number = nextReceipt /\ new.source = s /\ new.amount = row.amount /\ ~new.cancelled
  BY DEF new
<1>5. QED
  BY <1>3, <1>4 DEF IssueReceipt

\* What cancelReceipt does to the receipt table.
LEMMA CancelMarks ==
    ASSUME IInv, NEW i \in Ids, NEW alsoDelete \in BOOLEAN, CancelReceipt(i, alsoDelete)
    PROVE  /\ Len(receipts') = Len(receipts)
           /\ ~receipts[i].cancelled
           /\ receipts'[i] = [receipts[i] EXCEPT !.cancelled = TRUE]
           /\ \A j \in Ids : j # i => receipts'[j] = receipts[j]
           /\ \A j \in Ids : receipts'[j].number = receipts[j].number
           /\ UNCHANGED <<nextReceipt, jumped>>
<1> DEFINE cancelled == [receipts[i] EXCEPT !.cancelled = TRUE]
<1>1. receipts \in Seq(Receipt) /\ receipts[i] \in Receipt /\ i \in 1..Len(receipts)
  BY BookTypes DEF IInv, TypeOK, Ids
<1>2. cancelled \in Receipt /\ cancelled.number = receipts[i].number
  BY <1>1 DEF Receipt
<1>3. receipts' = [receipts EXCEPT ![i] = cancelled]
  BY <1>1 DEF CancelReceipt
<1> HIDE DEF cancelled
<1>4. /\ Len(receipts') = Len(receipts)
      /\ receipts'[i] = cancelled
      /\ \A j \in Ids : j # i => receipts'[j] = receipts[j]
  BY <1>1, <1>2, <1>3, ExceptSeq DEF Ids
<1>5. \A j \in Ids : receipts'[j].number = receipts[j].number
  BY <1>2, <1>4
<1>6. QED
  BY <1>4, <1>5 DEF CancelReceipt, Active, cancelled

\* B-04: receipts are appended with the sequence's number and never edited or removed; all
\* that can happen to one is that it is cancelled, once.
THEOREM BookIsAppendOnly == Spec => BookAppendOnly
<1>1. IInv /\ IInv' /\ [Next]_vars => [Extends(receipts, receipts')]_receipts
  <2> SUFFICES ASSUME IInv, IInv', [Next]_vars, receipts' # receipts
               PROVE  Extends(receipts, receipts')
    OBVIOUS
  <2> Len(receipts) \in Nat /\ Ids = 1..Len(receipts)
    BY LenProperties DEF IInv, TypeOK, Ids
  <2>1. CASE \E s \in Sources : \E row : IssueReceipt(s, row)
    <3>0. PICK s \in Sources : \E row : IssueReceipt(s, row)
      BY <2>1
    <3>1. PICK row : IssueReceipt(s, row)
      BY <3>0
    <3>2. QED
      BY <3>1, IssueAppends DEF Extends
  <2>2. CASE \E i \in Ids, alsoDelete \in BOOLEAN : CancelReceipt(i, alsoDelete)
    <3>1. PICK i \in Ids, alsoDelete \in BOOLEAN : CancelReceipt(i, alsoDelete)
      BY <2>2
    <3>2. /\ Len(receipts') = Len(receipts)
          /\ ~receipts[i].cancelled /\ receipts'[i] = [receipts[i] EXCEPT !.cancelled = TRUE]
          /\ \A j \in Ids : j # i => receipts'[j] = receipts[j]
      BY <3>1, CancelMarks
    <3>3. \A j \in 1..Len(receipts) :
            \/ receipts'[j] = receipts[j]
            \/ /\ ~receipts[j].cancelled
               /\ receipts'[j] = [receipts[j] EXCEPT !.cancelled = TRUE]
      BY <3>2, Zenon
    <3>4. QED
      BY <3>2, <3>3 DEF Extends
  <2>3. CASE \E n \in StartNumbers : SetReceiptStartNumber(n)
    BY <2>3 DEF SetReceiptStartNumber
  <2>4. QED
    BY <2>1, <2>2, <2>3, BookEffects
<1>2. QED
  BY <1>1, InvariantHolds, PTL DEF Spec, BookAppendOnly

\* B-03: whatever handlers ran, refused ones included, the only numbers missing from the
\* book are those setReceiptStartNumber passed over.
THEOREM HolesAreOnlyJumps == Spec => []HolesAreJumps
<1>1. Init => HolesAreJumps
  BY DEF Init, HolesAreJumps, Missing
<1>2. IInv /\ IInv' /\ HolesAreJumps /\ [Next]_vars => HolesAreJumps'
  <2> SUFFICES ASSUME IInv, IInv', HolesAreJumps, [Next]_vars PROVE HolesAreJumps'
    OBVIOUS
  <2>1. nextReceipt \in Nat \ {0} /\ nextReceipt' \in Nat \ {0} /\ Len(receipts) \in Nat
    BY LenProperties DEF IInv, TypeOK
  <2>2. CASE UNCHANGED <<receipts, nextReceipt, jumped>>
    BY <2>2 DEF HolesAreJumps, Missing, ReceiptNumberUnused, Ids
  <2>3. CASE \E s \in Sources : \E row : IssueReceipt(s, row)
    <3>0. PICK s \in Sources : \E row : IssueReceipt(s, row)
      BY <2>3
    <3>1. PICK row : IssueReceipt(s, row)
      BY <3>0
    <3>2. /\ Ids' = Ids \cup {Len(receipts) + 1}
          /\ \A i \in Ids : receipts'[i] = receipts[i]
          /\ receipts'[Len(receipts) + 1].number = nextReceipt
          /\ nextReceipt' = nextReceipt + 1 /\ jumped' = jumped
      BY <3>1, <2>1, IssueAppends DEF Ids
    <3>3. Missing' \subseteq Missing
      BY <3>2, <2>1 DEF Missing, ReceiptNumberUnused
    <3>4. QED
      BY <3>2, <3>3 DEF HolesAreJumps
  <2>4. CASE \E i \in Ids, alsoDelete \in BOOLEAN : CancelReceipt(i, alsoDelete)
    <3>1. /\ Ids' = Ids /\ \A j \in Ids : receipts'[j].number = receipts[j].number
          /\ UNCHANGED <<nextReceipt, jumped>>
      BY <2>4, CancelMarks DEF Ids
    <3>2. QED
      BY <3>1 DEF HolesAreJumps, Missing, ReceiptNumberUnused
  <2>5. CASE \E n \in StartNumbers : SetReceiptStartNumber(n)
    <3>1. PICK n \in StartNumbers : SetReceiptStartNumber(n)
      BY <2>5
    <3>2. /\ Ids' = Ids /\ receipts' = receipts
          /\ nextReceipt' = n /\ n \in Nat /\ jumped' = jumped \cup (nextReceipt..(n - 1))
      BY <3>1, NumbersNatural DEF SetReceiptStartNumber, Ids
    <3>3. QED
      BY <3>2, <2>1 DEF HolesAreJumps, Missing, ReceiptNumberUnused
  <2>6. QED
    BY <2>2, <2>3, <2>4, <2>5, BookEffects
<1>3. QED
  BY <1>1, <1>2, InvariantHolds, PTL DEF Spec

-----------------------------------------------------------------------------
(* What a receipt says about its row *)

\* A write to one row leaves every active receipt true, if the row is not receipted or
\* keeps its amount.
LEMMA AmountsKept ==
    ASSUME IInv, ReceiptShowsAmount, NEW s \in Sources, receipts' = receipts,
           \A t \in Sources : t # s => source'[t] = source[t],
           \/ ~Present(s)
           \/ source[s].receipt = Blank
           \/ source'[s].amount = source[s].amount
    PROVE  ReceiptShowsAmount'
<1> SUFFICES ASSUME NEW i \in ActiveReceipts, Present(receipts[i].source)'
             PROVE  source'[receipts[i].source].amount = receipts[i].amount
  BY DEF ReceiptShowsAmount, ActiveReceipts, Active, Ids
<1>1. /\ receipts[i].source \in Sources
      /\ Present(receipts[i].source) /\ source[receipts[i].source].receipt = i
      /\ i # Blank
      /\ source[receipts[i].source].amount = receipts[i].amount
  BY BookTypes DEF IInv, ActiveReceipts, Ids, LinkMutual, ReceiptsNameRows, ReceiptShowsAmount,
                   Blank
<1>2. CASE receipts[i].source = s
  BY <1>1, <1>2
<1>3. CASE receipts[i].source # s
  BY <1>1, <1>3
<1>4. QED
  BY <1>2, <1>3

\* issueReceipt prints the amount the row is left with.
LEMMA IssuePrintsAmount ==
    ASSUME IInv, IInv', ReceiptShowsAmount, NEW s \in Sources, NEW row \in Row,
           IssueReceipt(s, row)
    PROVE  ReceiptShowsAmount'
<1>1. Len(receipts) \in Nat /\ source \in [Sources -> Row \cup {NoRow}]
  BY LenProperties DEF IInv, TypeOK
<1>2. /\ Len(receipts') = Len(receipts) + 1
      /\ \A i \in Ids : receipts'[i] = receipts[i]
      /\ receipts'[Len(receipts) + 1].source = s
      /\ receipts'[Len(receipts) + 1].amount = row.amount
  BY IssueAppends
<1>3. /\ source'[s].amount = row.amount
      /\ \A t \in Sources : t # s => source'[t] = source[t]
  BY <1>1 DEF IssueReceipt, Row
<1> SUFFICES ASSUME NEW i \in ActiveReceipts', Present(receipts[i].source)'
             PROVE  source'[receipts'[i].source].amount = receipts'[i].amount
  BY DEF ReceiptShowsAmount
<1>4. CASE i = Len(receipts) + 1
  BY <1>2, <1>3, <1>4
<1>5. CASE i \in Ids
  <2>1. i \in ActiveReceipts /\ receipts'[i] = receipts[i] /\ receipts[i].source \in Sources
    BY <1>2, <1>5, BookTypes DEF ActiveReceipts, Active, IInv
  <2>2. receipts[i].source # s
    BY <2>1 DEF IssueReceipt, CanIssue, HasActiveReceipt
  <2>3. Present(receipts[i].source) /\ source[receipts[i].source].amount = receipts[i].amount
    BY <2>1 DEF IInv, LinkMutual, ReceiptsNameRows, ReceiptShowsAmount
  <2>4. QED
    BY <2>1, <2>2, <2>3, <1>3
<1>6. QED
  BY <1>1, <1>2, <1>4, <1>5 DEF ActiveReceipts, Ids

\* cancelReceipt makes no other receipt untrue.
LEMMA CancelKeepsAmounts ==
    ASSUME IInv, IInv', ReceiptShowsAmount, NEW i \in Ids, NEW alsoDelete \in BOOLEAN,
           CancelReceipt(i, alsoDelete)
    PROVE  ReceiptShowsAmount'
<1>1. /\ receipts[i].source \in Sources /\ source \in [Sources -> Row \cup {NoRow}]
  BY BookTypes DEF IInv, TypeOK
<1>2. /\ Ids' = Ids /\ receipts'[i].cancelled
      /\ \A j \in Ids : j # i => receipts'[j] = receipts[j]
  <2>1. receipts[i] \in Receipt
    BY BookTypes DEF IInv
  <2>2. QED
    BY <2>1, CancelMarks DEF Ids, Receipt
<1>3. \A t \in Sources : t # receipts[i].source => source'[t] = source[t]
  BY <1>1 DEF CancelReceipt
<1> SUFFICES ASSUME NEW j \in ActiveReceipts', Present(receipts[j].source)'
             PROVE  source'[receipts'[j].source].amount = receipts'[j].amount
  BY DEF ReceiptShowsAmount
<1>4. j \in ActiveReceipts /\ j # i /\ receipts'[j] = receipts[j]
  BY <1>2 DEF ActiveReceipts, Active
<1>5. i \in ActiveReceipts
  BY DEF CancelReceipt, ActiveReceipts
<1>6. /\ Present(receipts[j].source) /\ source[receipts[j].source].receipt = j
      /\ source[receipts[i].source].receipt = i
      /\ source[receipts[j].source].amount = receipts[j].amount
      /\ receipts[j].source \in Sources
  BY <1>4, <1>5, BookTypes DEF IInv, LinkMutual, ReceiptsNameRows, ReceiptShowsAmount,
                               ActiveReceipts
<1>7. source'[receipts[j].source] = source[receipts[j].source]
  BY <1>3, <1>4, <1>6
<1>8. QED
  BY <1>4, <1>6, <1>7

\* B-05 for amounts: as long as no upsert import runs, every active receipt shows the amount
\* its payment or donation still has.
THEOREM ReceiptsShowAmounts ==
    ASSUME "upsert" \notin ImportModes
    PROVE  Spec => []ReceiptShowsAmount
<1>1. Init => ReceiptShowsAmount
  BY DEF Init, ReceiptShowsAmount, ActiveReceipts, Ids
<1>2. IInv /\ IInv' /\ ReceiptShowsAmount /\ [Next]_vars => ReceiptShowsAmount'
  <2> SUFFICES ASSUME IInv, IInv', ReceiptShowsAmount, [Next]_vars
               PROVE  ReceiptShowsAmount'
    OBVIOUS
  <2>1. source \in [Sources -> Row \cup {NoRow}]
    BY DEF IInv, TypeOK
  <2>2. ASSUME NEW s \in Sources, SoftDelete(s) PROVE ReceiptShowsAmount'
    BY <2>1, <2>2, AmountsKept DEF SoftDelete
  <2>3. ASSUME NEW s \in Sources, NEW n \in Names \cup {Keep}, IssueReceiptFor(s, n)
        PROVE  ReceiptShowsAmount'
    <3>1. Present(s) /\ source[s] \in Row
      BY <2>1, <2>3 DEF IssueReceiptFor, Live, Present
    <3>2. Renamed(s, n) \in Row /\ Renamed(s, n).amount = source[s].amount
      BY <3>1 DEF Renamed, Row
    <3>3. CASE IssueReceipt(s, Renamed(s, n))
      BY <3>2, <3>3, IssuePrintsAmount
    <3>4. CASE IssueRefused(s, Renamed(s, n))
      <4>1. /\ receipts' = receipts /\ source'[s].amount = source[s].amount
            /\ \A t \in Sources : t # s => source'[t] = source[t]
        BY <2>1, <3>2, <3>4 DEF IssueRefused
      <4>2. QED
        BY <4>1, AmountsKept
    <3>5. QED
      BY <2>3, <3>3, <3>4 DEF IssueReceiptFor
  <2>4. ASSUME NEW s \in Sources, ~Present(s), receipts' = receipts,
               NEW row, source' = [source EXCEPT ![s] = row]
        PROVE  ReceiptShowsAmount'
    BY <2>1, <2>4, AmountsKept
  <2>5. ASSUME ReplaceAllowed, receipts' = receipts PROVE ReceiptShowsAmount'
    BY <2>5 DEF ReplaceAllowed, ReceiptShowsAmount, ActiveReceipts, Active, Ids
  <2>6. CASE PaymentStep
    <3>1. PICK p \in Payments :
            \/ DeletePayment(p)
            \/ \E n \in Names \cup {Keep} : IssueReceiptForPayment(p, n)
            \/ \E a \in Amounts, n \in Names :
                \/ CreatePayment(p, a, n)
                \/ CreatePaymentWithReceipt(p, a, n)
                \/ ImportPayment(p, a, n)
                \/ ImportReplacePayments(p, a, n)
      BY <2>6 DEF PaymentStep
    <3>2. p \in Sources /\ Blank \in Nat
      BY DEF Sources, Blank
    <3>3. CASE DeletePayment(p)
      BY <2>2, <3>2, <3>3 DEF DeletePayment
    <3>4. CASE \E n \in Names \cup {Keep} : IssueReceiptForPayment(p, n)
      BY <2>3, <3>2, <3>4 DEF IssueReceiptForPayment
    <3>5. ASSUME NEW a \in Amounts, NEW n \in Names, CreatePayment(p, a, n)
          PROVE  ReceiptShowsAmount'
      BY <2>4, <3>2, <3>5 DEF CreatePayment
    <3>6. ASSUME NEW a \in Amounts, NEW n \in Names, CreatePaymentWithReceipt(p, a, n)
          PROVE  ReceiptShowsAmount'
      BY <3>2, <3>6, NewRowTypes, IssuePrintsAmount DEF CreatePaymentWithReceipt
    <3>7. ASSUME NEW a \in Amounts, NEW n \in Names, ImportReplacePayments(p, a, n)
          PROVE  ReceiptShowsAmount'
      BY <2>5, <3>7 DEF ImportReplacePayments
    <3>8. QED
      BY <3>1, <3>3, <3>4, <3>5, <3>6, <3>7 DEF ImportPayment
  <2>7. CASE DonationStep
    <3>1. PICK d \in Donations :
            \/ DeleteDonation(d)
            \/ \E n \in Names \cup {Keep} : IssueReceiptForDonation(d, n)
            \/ \E a \in Amounts, n \in Names :
                \/ CreateDonation(d, a, n)
                \/ CreateDonationWithReceipt(d, a, n)
                \/ UpdateDonation(d, a, n)
                \/ ImportUpdateDonation(d, a, n)
                \/ \E number \in SheetNumbers \cup {Blank} :
                    \/ ImportNewDonation(d, a, n, number)
                    \/ ImportReplaceDonations(d, a, n, number)
      BY <2>7 DEF DonationStep
    <3>2. d \in Sources /\ nextDonation \in Nat
      BY DonationSequenceTypes DEF Sources
    <3>3. CASE DeleteDonation(d)
      BY <2>2, <3>2, <3>3 DEF DeleteDonation
    <3>4. CASE \E n \in Names \cup {Keep} : IssueReceiptForDonation(d, n)
      BY <2>3, <3>2, <3>4 DEF IssueReceiptForDonation
    <3>5. ASSUME NEW a \in Amounts, NEW n \in Names, CreateDonation(d, a, n)
          PROVE  ReceiptShowsAmount'
      BY <2>4, <3>2, <3>5 DEF CreateDonation
    <3>6. ASSUME NEW a \in Amounts, NEW n \in Names, CreateDonationWithReceipt(d, a, n)
          PROVE  ReceiptShowsAmount'
      BY <3>2, <3>6, NewRowTypes, IssuePrintsAmount DEF CreateDonationWithReceipt
    <3>7. ASSUME NEW a \in Amounts, NEW n \in Names, UpdateDonation(d, a, n)
          PROVE  ReceiptShowsAmount'
      BY <2>1, <3>2, <3>7, AmountsKept DEF UpdateDonation
    <3>8. ASSUME NEW a \in Amounts, NEW n \in Names, ImportUpdateDonation(d, a, n)
          PROVE  FALSE
      BY <3>8 DEF ImportUpdateDonation
    <3>9. ASSUME NEW a \in Amounts, NEW n \in Names, NEW number \in SheetNumbers \cup {Blank},
                 \/ ImportNewDonation(d, a, n, number)
                 \/ ImportReplaceDonations(d, a, n, number)
          PROVE  ReceiptShowsAmount'
      BY <2>4, <2>5, <3>2, <3>9 DEF ImportNewDonation, ImportReplaceDonations
    <3>10. QED
      BY <3>1, <3>3, <3>4, <3>5, <3>6, <3>7, <3>8, <3>9
  <2>8. CASE BookStep
    <3>1. ASSUME NEW n \in StartNumbers, SetReceiptStartNumber(n) PROVE ReceiptShowsAmount'
      BY <3>1 DEF SetReceiptStartNumber, ReceiptShowsAmount, ActiveReceipts, Active, Ids, Present
    <3>2. QED
      BY <2>8, <3>1, CancelKeepsAmounts DEF BookStep
  <2>9. CASE UNCHANGED vars
    BY <2>9 DEF vars, ReceiptShowsAmount, ActiveReceipts, Active, Ids, Present
  <2>10. QED
    BY <2>6, <2>7, <2>8, <2>9 DEF Next
<1>3. QED
  BY <1>1, <1>2, InvariantHolds, PTL DEF Spec

-----------------------------------------------------------------------------
(* The donation sequence *)

\* Stronger than NextDonationUnused, which a step that advances the sequence could break.
DonationsBelowNext == \A d \in Donations : Present(d) => source[d].number < nextDonation

\* A write to one row keeps the numbers below the sequence, if the row keeps its number or
\* gets one below the new value of the sequence.
LEMMA NumberWritten ==
    ASSUME IInv, DonationsBelowNext, NEW s \in Sources, nextDonation' \in Nat,
           nextDonation' >= nextDonation,
           \A d \in Donations : d # s => source'[d] = source[d],
           s \in Donations => \/ source'[s].number < nextDonation'
                              \/ Present(s) /\ source'[s].number = source[s].number
    PROVE  DonationsBelowNext'
<1> SUFFICES ASSUME NEW d \in Donations, Present(d)' PROVE source'[d].number < nextDonation'
  BY DEF DonationsBelowNext
<1>1. nextDonation \in Nat /\ (Present(d) => source[d].number \in Nat)
  BY DEF IInv, TypeOK, Present, Row, Sources
<1>2. Present(d) => source[d].number < nextDonation
  BY DEF DonationsBelowNext
<1>3. CASE d = s
  BY <1>1, <1>2, <1>3
<1>4. CASE d # s
  BY <1>1, <1>2, <1>4 DEF Present
<1>5. QED
  BY <1>3, <1>4

\* As long as sheets leave the number cell empty, the sequence never points at a donation
\* number in use, so that no createDonation and no such import can fail on it.
THEOREM NextDonationAlwaysUnused ==
    ASSUME SheetNumbers = {}
    PROVE  Spec => []NextDonationUnused
<1>1. Init => DonationsBelowNext
  BY DEF Init, DonationsBelowNext, Present, Sources
<1>2. IInv /\ DonationsBelowNext /\ [Next]_vars => DonationsBelowNext'
  <2> SUFFICES ASSUME IInv, DonationsBelowNext, [Next]_vars PROVE DonationsBelowNext'
    OBVIOUS
  <2>1. source \in [Sources -> Row \cup {NoRow}] /\ nextDonation \in Nat
    BY DEF IInv, TypeOK
  <2>2. \A s \in Sources : \A row :
          source' = [source EXCEPT ![s] = row] =>
            /\ source'[s] = row
            /\ \A d \in Donations : d # s => source'[d] = source[d]
    BY <2>1 DEF Sources
  <2>3. ASSUME NEW s \in Sources, SoftDelete(s) PROVE DonationsBelowNext'
    <3>1. Present(s) /\ source[s] \in Row
      BY <2>1, <2>3 DEF SoftDelete, Live, Present
    <3>2. source'[s].number = source[s].number
      BY <2>1, <2>3, <3>1 DEF SoftDelete, Row
    <3>3. \A d \in Donations : d # s => source'[d] = source[d]
      BY <2>1, <2>3 DEF SoftDelete, Sources
    <3>4. QED
      BY <2>1, <2>3, <3>1, <3>2, <3>3, NumberWritten DEF SoftDelete
  <2>4. ASSUME NEW s \in Sources, NEW n \in Names \cup {Keep}, IssueReceiptFor(s, n)
        PROVE  DonationsBelowNext'
    <3>1. Present(s) /\ source[s] \in Row
      BY <2>1, <2>4 DEF IssueReceiptFor, Live, Present
    <3> DEFINE row == [Renamed(s, n) EXCEPT !.receipt = Len(receipts) + 1]
    <3>2. Renamed(s, n).number = source[s].number /\ row.number = source[s].number
      BY <3>1 DEF Renamed, Row
    <3>3. nextDonation' = nextDonation
      BY <2>4 DEF IssueReceiptFor
    <3>4. \/ source' = [source EXCEPT ![s] = row]
          \/ source' = [source EXCEPT ![s] = Renamed(s, n)]
      BY <2>4 DEF IssueReceiptFor, IssueReceipt, IssueRefused
    <3> HIDE DEF row
    <3>5. /\ source'[s].number = source[s].number
          /\ \A d \in Donations : d # s => source'[d] = source[d]
      BY <2>2, <3>2, <3>4
    <3>6. QED
      BY <2>1, <3>1, <3>3, <3>5, NumberWritten
  <2>5. CASE PaymentStep
    <3>1. PICK p \in Payments :
            \/ DeletePayment(p)
            \/ \E n \in Names \cup {Keep} : IssueReceiptForPayment(p, n)
            \/ \E a \in Amounts, n \in Names :
                \/ CreatePayment(p, a, n)
                \/ CreatePaymentWithReceipt(p, a, n)
                \/ ImportPayment(p, a, n)
                \/ ImportReplacePayments(p, a, n)
      BY <2>5 DEF PaymentStep
    <3>2. p \in Sources /\ p \notin Donations
      BY TablesDisjoint DEF Sources
    <3>3. CASE DeletePayment(p)
      BY <2>3, <3>2, <3>3 DEF DeletePayment
    <3>4. CASE \E n \in Names \cup {Keep} : IssueReceiptForPayment(p, n)
      BY <2>4, <3>2, <3>4 DEF IssueReceiptForPayment
    <3>5. ASSUME NEW a \in Amounts, NEW n \in Names,
                 CreatePayment(p, a, n) \/ CreatePaymentWithReceipt(p, a, n)
          PROVE  DonationsBelowNext'
      <4>1. /\ \A d \in Donations : d # p => source'[d] = source[d]
            /\ nextDonation' = nextDonation
        BY <2>1, <3>2, <3>5
           DEF CreatePayment, CreatePaymentWithReceipt, IssueReceipt, Sources
      <4>2. QED
        BY <2>1, <3>2, <4>1, NumberWritten
    <3>6. ASSUME NEW a \in Amounts, NEW n \in Names, ImportReplacePayments(p, a, n)
          PROVE  DonationsBelowNext'
      <4>1. \A d \in Donations : source'[d] = source[d]
        BY <3>2, <3>6, TablesDisjoint DEF ImportReplacePayments, Replaced, Sources
      <4>2. QED
        BY <4>1, <3>6 DEF ImportReplacePayments, DonationsBelowNext, Present
    <3>7. QED
      BY <3>1, <3>3, <3>4, <3>5, <3>6 DEF ImportPayment
  <2>6. CASE DonationStep
    <3>1. PICK d \in Donations :
            \/ DeleteDonation(d)
            \/ \E n \in Names \cup {Keep} : IssueReceiptForDonation(d, n)
            \/ \E a \in Amounts, n \in Names :
                \/ CreateDonation(d, a, n)
                \/ CreateDonationWithReceipt(d, a, n)
                \/ UpdateDonation(d, a, n)
                \/ ImportUpdateDonation(d, a, n)
                \/ ImportNewDonation(d, a, n, Blank)
                \/ ImportReplaceDonations(d, a, n, Blank)
      BY <2>6 DEF DonationStep
    <3>2. d \in Sources
      BY DEF Sources
    <3>3. CASE DeleteDonation(d)
      BY <2>3, <3>2, <3>3 DEF DeleteDonation
    <3>4. CASE \E n \in Names \cup {Keep} : IssueReceiptForDonation(d, n)
      BY <2>4, <3>2, <3>4 DEF IssueReceiptForDonation
    <3>5. ASSUME NEW a \in Amounts, NEW n \in Names,
                 \/ CreateDonation(d, a, n)
                 \/ CreateDonationWithReceipt(d, a, n)
                 \/ ImportNewDonation(d, a, n, Blank)
          PROVE  DonationsBelowNext'
      <4>1. NewRow(a, n, nextDonation).number = nextDonation
            /\ [NewRow(a, n, nextDonation) EXCEPT !.receipt = Len(receipts) + 1].number
                 = nextDonation
        BY DEF NewRow
      <4>2. nextDonation' = nextDonation + 1
        BY <3>5 DEF CreateDonation, CreateDonationWithReceipt, ImportNewDonation,
                    NumberFromSheet, TakesNextNumber
      <4>3. \/ source' = [source EXCEPT ![d] = NewRow(a, n, nextDonation)]
            \/ source' = [source EXCEPT ![d] =
                            [NewRow(a, n, nextDonation) EXCEPT !.receipt = Len(receipts) + 1]]
        BY <3>5 DEF CreateDonation, CreateDonationWithReceipt, IssueReceipt,
                    ImportNewDonation, NumberOf
      <4>4. /\ source'[d].number = nextDonation
            /\ \A e \in Donations : e # d => source'[e] = source[e]
        BY <2>2, <3>2, <4>1, <4>3
      <4>5. QED
        BY <2>1, <3>2, <4>2, <4>4, NumberWritten
    <3>6. ASSUME NEW a \in Amounts, NEW n \in Names,
                 UpdateDonation(d, a, n) \/ ImportUpdateDonation(d, a, n)
          PROVE  DonationsBelowNext'
      <4> DEFINE row == [source[d] EXCEPT !.amount = a, !.payer = n]
      <4>1. Present(d) /\ source[d] \in Row
        BY <2>1, <3>2, <3>6 DEF UpdateDonation, ImportUpdateDonation, Live, Present
      <4>2. row.number = source[d].number
        BY <4>1 DEF Row
      <4>3. source' = [source EXCEPT ![d] = row] /\ nextDonation' = nextDonation
        BY <2>1, <3>6 DEF UpdateDonation, ImportUpdateDonation
      <4> HIDE DEF row
      <4>4. /\ source'[d].number = source[d].number
            /\ \A e \in Donations : e # d => source'[e] = source[e]
        BY <2>2, <3>2, <4>2, <4>3
      <4>5. QED
        BY <2>1, <3>2, <4>1, <4>3, <4>4, NumberWritten
    <3>7. ASSUME NEW a \in Amounts, NEW n \in Names, ImportReplaceDonations(d, a, n, Blank)
          PROVE  DonationsBelowNext'
      <4>1. /\ nextDonation' = nextDonation + 1
            /\ source' = Replaced(Donations, d, NewRow(a, n, nextDonation))
        BY <3>7 DEF ImportReplaceDonations, NumberOf
      <4>2. \A e \in Donations : source'[e] = IF e = d THEN NewRow(a, n, nextDonation) ELSE NoRow
        BY <4>1 DEF Replaced, Sources
      <4>3. NewRow(a, n, nextDonation).number = nextDonation
        BY DEF NewRow
      <4>4. QED
        BY <2>1, <4>1, <4>2, <4>3 DEF DonationsBelowNext, Present
    <3>8. QED
      BY <3>1, <3>3, <3>4, <3>5, <3>6, <3>7
  <2>7. CASE BookStep
    <3>1. ASSUME NEW i \in Ids, NEW alsoDelete \in BOOLEAN, CancelReceipt(i, alsoDelete)
          PROVE  DonationsBelowNext'
      <4> DEFINE s == receipts[i].source
      <4>1. s \in Sources
        BY BookTypes DEF IInv
      <4>2. CASE ~Present(s)
        BY <3>1, <4>2 DEF CancelReceipt, DonationsBelowNext, Present
      <4>3. CASE Present(s)
        <5>1. source[s] \in Row
          BY <2>1, <4>1, <4>3 DEF Present
        <5>2. Unlinked(source[s], alsoDelete).number = source[s].number
          BY <5>1 DEF Unlinked, Row
        <5>3. /\ source' = [source EXCEPT ![s] = Unlinked(source[s], alsoDelete)]
              /\ nextDonation' = nextDonation
          BY <3>1, <4>3 DEF CancelReceipt
        <5> HIDE DEF s
        <5>4. /\ source'[s].number = source[s].number
              /\ \A d \in Donations : d # s => source'[d] = source[d]
          BY <2>2, <4>1, <5>2, <5>3
        <5>5. QED
          BY <2>1, <4>1, <4>3, <5>3, <5>4, NumberWritten
      <4>4. QED
        BY <4>2, <4>3
    <3>2. ASSUME NEW n \in StartNumbers, SetReceiptStartNumber(n) PROVE DonationsBelowNext'
      BY <3>2 DEF SetReceiptStartNumber, DonationsBelowNext, Present
    <3>3. QED
      BY <2>7, <3>1, <3>2 DEF BookStep
  <2>8. CASE UNCHANGED vars
    BY <2>8 DEF vars, DonationsBelowNext, Present
  <2>9. QED
    BY <2>5, <2>6, <2>7, <2>8 DEF Next
<1>3. IInv /\ DonationsBelowNext => NextDonationUnused
  BY DEF IInv, TypeOK, Row, Sources, Present, DonationsBelowNext, NextDonationUnused,
         DonationNumberUnused
<1>4. QED
  BY <1>1, <1>2, <1>3, InvariantHolds, PTL DEF Spec

=============================================================================
