----------------------------- MODULE DeskProofs ------------------------------
(***************************************************************************)
(* Theorems about the parts of Desk that keep records: receipts that are   *)
(* printed (ReceiptPrint), the setting up of an installation (SetupDesk),  *)
(* the messages of events (EventMessages) and the members' register        *)
(* (MemberRegister).  A dialog, a print or a sending is about a record it  *)
(* read earlier: each invariant says what of it still holds when it is     *)
(* used.                                                                   *)
(***************************************************************************)
EXTENDS Desk, SequenceTheorems, TLAPS

-----------------------------------------------------------------------------
(* Receipts that are printed: ReceiptPrint.                                    *)

\* The dialog is busy as long as a print is under way, and the print is of the receipt
\* the dialog is open for.
BusyPrinting ==
    /\ job.at = "none" => job = P!NoJob
    /\ receiptDialog.busy <=> job.at # "none"
    /\ job.at # "none" =>
          /\ job.of = receiptDialog.open /\ job.of \in Receipts
          /\ receipt[job.of].count < MaxPrints

\* The loads of an open dialog end with its own.
OwnLoadIsLast ==
    receiptDialog.open # P!NoReceipt =>
        IF load = <<>> THEN receiptDialog.shown = receiptDialog.open
        ELSE load[Len(load)] = receiptDialog.open

\* What a print has decided and what it has written so far.
PrintFollows ==
    job.at # "none" =>
        /\ receipt[job.of].count > 0 => job.stamp # "original"
        /\ job.at # "rendered" => archive[<<folder, job.of>>] = job.stamp
        /\ job.at = "printed" => receipt[job.of].path = folder

PrintInv == P!TypeOK /\ BusyPrinting /\ OwnLoadIsLast /\ PrintFollows /\ PrintedIsArchived

\* Rows of the receipt table, and the print under way.
ReceiptRow == [count : 0 .. MaxPrints, path : Folders \cup {NoFolder}, cancelled : BOOLEAN]
PrintDialog == [open : Receipts \cup {P!NoReceipt}, shown : Receipts \cup {P!NoReceipt},
                cancelled : BOOLEAN, busy : BOOLEAN]
PrintJob == [at : {"none", "rendered", "written", "printed"},
             of : Receipts \cup {P!NoReceipt}, stamp : P!Stamps, printer : BOOLEAN]

LEMMA PrintGiven ==
    /\ MaxPrints \in Nat /\ MaxLoads \in Nat
    /\ Default \in Folders /\ NoFolder \notin Folders /\ P!NoReceipt \notin Receipts
    /\ P!NoFile \notin P!Stamps
  BY DeskBounds DEF P!PrintBounds, P!NoReceipt, P!NoFile, P!Stamps

LEMMA PrintTypes ==
    P!TypeOK <=>
        /\ receipt \in [Receipts -> ReceiptRow]
        /\ archive \in [Folders \X Receipts -> P!Stamps \cup {P!NoFile}]
        /\ folder \in Folders
        /\ load \in Seq(Receipts) /\ Len(load) <= MaxLoads
        /\ receiptDialog \in PrintDialog /\ job \in PrintJob
  BY DEF P!TypeOK, ReceiptRow, PrintDialog, PrintJob

\* Steps of the dialog that leave the receipts and the files alone.
LEMMA DialogKeepsPrints ==
    ASSUME PrintInv, UNCHANGED <<receipt, archive, folder, job>>,
           load' \in Seq(Receipts), Len(load') <= MaxLoads,
           receiptDialog' \in PrintDialog,
           receiptDialog'.busy = receiptDialog.busy,
           receiptDialog.busy => receiptDialog'.open = receiptDialog.open,
           OwnLoadIsLast'
    PROVE  PrintInv'
<1>1. P!TypeOK'
  BY PrintTypes DEF PrintInv, P!TypeOK, PrintDialog
<1>2. BusyPrinting'
  BY DEF PrintInv, BusyPrinting, P!NoJob
<1>3. PrintFollows' /\ PrintedIsArchived'
  BY DEF PrintInv, PrintFollows, PrintedIsArchived, P!PrintedIsArchived
<1>4. QED
  BY <1>1, <1>2, <1>3 DEF PrintInv

LEMMA PrintStarts == P!Init => PrintInv
<1>1. SUFFICES ASSUME P!Init PROVE PrintInv
  OBVIOUS
<1>2. P!TypeOK
  <2>1. load \in Seq(Receipts) /\ Len(load) = 0
    BY <1>1, EmptySeq DEF P!Init
  <2>2. receipt \in [Receipts -> ReceiptRow]
    BY <1>1, PrintGiven DEF P!Init, ReceiptRow
  <2>3. job \in PrintJob /\ receiptDialog \in PrintDialog
    BY <1>1 DEF P!Init, P!NoJob, P!Closed, PrintJob, PrintDialog, P!Stamps
  <2>4. archive \in [Folders \X Receipts -> P!Stamps \cup {P!NoFile}] /\ folder \in Folders
    BY <1>1, PrintGiven DEF P!Init
  <2>5. QED
    BY <2>1, <2>2, <2>3, <2>4, PrintTypes, PrintGiven
<1>3. BusyPrinting /\ OwnLoadIsLast /\ PrintFollows
  BY <1>1 DEF P!Init, BusyPrinting, OwnLoadIsLast, PrintFollows, P!NoJob, P!Closed
<1>4. PrintedIsArchived
  BY <1>1 DEF P!Init, PrintedIsArchived, P!PrintedIsArchived
<1>5. QED
  BY <1>2, <1>3, <1>4 DEF PrintInv

LEMMA PrintDialogKeeps ==
    ASSUME PrintInv, P!OpenDialog \/ P!Loaded \/ P!CloseDialog
    PROVE  PrintInv'
<1>1. /\ receipt \in [Receipts -> ReceiptRow] /\ receiptDialog \in PrintDialog
      /\ load \in Seq(Receipts) /\ Len(load) <= MaxLoads /\ Len(load) \in Nat
  BY PrintTypes, LenProperties DEF PrintInv
<1>2. CASE P!OpenDialog
  <2>1. PICK r \in Receipts :
          /\ receiptDialog.open = P!NoReceipt /\ Len(load) < MaxLoads
          /\ receiptDialog' = [P!Closed EXCEPT !.open = r]
          /\ load' = Append(load, r)
          /\ UNCHANGED <<receipt, archive, folder, job>>
    BY <1>2 DEF P!OpenDialog
  <2>2. /\ load' \in Seq(Receipts) /\ Len(load') = Len(load) + 1 /\ load' # <<>>
        /\ load'[Len(load')] = r
    BY <1>1, <2>1, AppendProperties
  <2>3. receiptDialog' \in PrintDialog /\ receiptDialog'.open = r /\ ~receiptDialog'.busy
    BY <2>1 DEF P!Closed, PrintDialog
  <2>4. ~receiptDialog.busy
    BY <2>1, PrintGiven DEF PrintInv, BusyPrinting
  <2>5. OwnLoadIsLast'
    BY <2>2, <2>3 DEF OwnLoadIsLast
  <2>6. Len(load') <= MaxLoads
    BY <1>1, <2>1, <2>2, PrintGiven
  <2>7. receiptDialog'.busy = receiptDialog.busy
    BY <1>1, <2>3, <2>4 DEF PrintDialog
  <2>8. QED
    BY <2>1, <2>2, <2>3, <2>4, <2>5, <2>6, <2>7, DialogKeepsPrints
<1>3. CASE P!Loaded
  <2>1. /\ load # <<>> /\ load' = Tail(load)
        /\ UNCHANGED <<receipt, archive, folder, job>>
        /\ receiptDialog' =
             IF receiptDialog.open = P!NoReceipt THEN receiptDialog
             ELSE [receiptDialog EXCEPT !.shown = Head(load),
                                        !.cancelled = receipt[Head(load)].cancelled]
    BY <1>3 DEF P!Loaded
  <2>2. /\ load' \in Seq(Receipts) /\ Head(load) \in Receipts /\ Head(load) = load[1]
        /\ Len(load') = Len(load) - 1 /\ \A i \in 1 .. Len(load') : load'[i] = load[i + 1]
        /\ Len(load) # 0
    BY <1>1, <2>1, HeadTailProperties, EmptySeq
  <2>3. receipt[Head(load)].cancelled \in BOOLEAN
    BY <1>1, <2>2 DEF ReceiptRow
  <2>4. /\ receiptDialog' \in PrintDialog /\ receiptDialog'.open = receiptDialog.open
        /\ receiptDialog'.busy = receiptDialog.busy
        /\ receiptDialog.open # P!NoReceipt => receiptDialog'.shown = Head(load)
    BY <1>1, <2>1, <2>2, <2>3 DEF PrintDialog
  <2>5. OwnLoadIsLast'
    <3>1. SUFFICES ASSUME receiptDialog.open # P!NoReceipt
                   PROVE  IF load' = <<>> THEN receiptDialog'.shown = receiptDialog.open
                          ELSE load'[Len(load')] = receiptDialog.open
      BY <2>4 DEF OwnLoadIsLast
    <3>2. load[Len(load)] = receiptDialog.open
      BY <2>1, <3>1 DEF PrintInv, OwnLoadIsLast
    <3>3. CASE Len(load') = 0
      <4>1. load' = <<>> /\ Len(load) = 1
        BY <1>1, <2>2, <3>3, EmptySeq
      <4>2. QED
        BY <2>2, <2>4, <3>1, <3>2, <4>1
    <3>4. CASE Len(load') # 0
      <4>1. Len(load') \in 1 .. Len(load') /\ Len(load') + 1 = Len(load) /\ load' # <<>>
        BY <1>1, <2>2, <3>4
      <4>2. QED
        BY <2>2, <3>2, <4>1
    <3>5. QED
      BY <3>3, <3>4
  <2>6. Len(load') <= MaxLoads
    BY <1>1, <2>2, PrintGiven
  <2>7. QED
    BY <2>1, <2>2, <2>4, <2>5, <2>6, DialogKeepsPrints
<1>4. CASE P!CloseDialog
  <2>1. /\ receiptDialog' = P!Closed /\ ~receiptDialog.busy
        /\ UNCHANGED <<receipt, archive, folder, load, job>>
    BY <1>4 DEF P!CloseDialog
  <2>2. receiptDialog' \in PrintDialog /\ receiptDialog'.busy = receiptDialog.busy
    BY <1>1, <2>1 DEF P!Closed, PrintDialog
  <2>3. OwnLoadIsLast'
    BY <2>1 DEF OwnLoadIsLast, P!Closed
  <2>4. QED
    BY <1>1, <2>1, <2>2, <2>3, DialogKeepsPrints
<1>5. QED
  BY <1>2, <1>3, <1>4

\* Steps outside a print: a receipt is cancelled, the archive moves, the program stops.
LEMMA OutsideKeeps ==
    ASSUME PrintInv, P!CancelReceipt \/ P!SetFolder \/ P!Restart
    PROVE  PrintInv'
<1>1. /\ receipt \in [Receipts -> ReceiptRow] /\ receiptDialog \in PrintDialog
      /\ archive \in [Folders \X Receipts -> P!Stamps \cup {P!NoFile}]
      /\ load \in Seq(Receipts) /\ Len(load) <= MaxLoads
      /\ folder \in Folders /\ job \in PrintJob
  BY PrintTypes DEF PrintInv
<1>2. P!Closed \in PrintDialog /\ ~P!Closed.busy /\ P!Closed.open = P!NoReceipt
  BY DEF P!Closed, PrintDialog
<1>3. CASE P!CancelReceipt
  <2>1. /\ receiptDialog.open # P!NoReceipt /\ ~receiptDialog.busy
        /\ receipt' = [receipt EXCEPT ![receiptDialog.open].cancelled = TRUE]
        /\ receiptDialog' = P!Closed /\ UNCHANGED <<archive, folder, load, job>>
    BY <1>3 DEF P!CancelReceipt
  <2>2. receiptDialog.open \in Receipts
    BY <1>1, <2>1 DEF PrintDialog
  <2>3. /\ receipt' \in [Receipts -> ReceiptRow]
        /\ \A r \in Receipts : receipt'[r].count = receipt[r].count
                               /\ receipt'[r].path = receipt[r].path
    BY <1>1, <2>1, <2>2 DEF ReceiptRow
  <2>4. P!TypeOK'
    BY <1>1, <1>2, <2>1, <2>3, PrintTypes DEF P!TypeOK, ReceiptRow, PrintDialog, PrintJob
  <2>5. job.at = "none"
    BY <2>1 DEF PrintInv, BusyPrinting
  <2>6. PrintedIsArchived'
    BY <2>1, <2>3 DEF PrintInv, PrintedIsArchived, P!PrintedIsArchived
  <2>7. QED
    BY <1>2, <2>1, <2>4, <2>5, <2>6
       DEF PrintInv, BusyPrinting, OwnLoadIsLast, PrintFollows, P!NoJob
<1>4. CASE P!SetFolder
  <2>1. /\ folder' \in Folders /\ receiptDialog.open = P!NoReceipt
        /\ UNCHANGED <<receipt, archive, load, receiptDialog, job>>
    BY <1>4 DEF P!SetFolder
  <2>2. job.at = "none"
    BY <2>1, PrintGiven DEF PrintInv, BusyPrinting
  <2>3. QED
    BY <2>1, <2>2 DEF PrintInv, P!TypeOK, BusyPrinting, OwnLoadIsLast, PrintFollows, P!NoJob,
                      PrintedIsArchived, P!PrintedIsArchived
<1>5. CASE P!Restart
  <2>1. /\ job' = P!NoJob /\ receiptDialog' = P!Closed /\ load' = <<>>
        /\ UNCHANGED <<receipt, archive, folder>>
    BY <1>5 DEF P!Restart
  <2>2. job' \in PrintJob /\ job'.at = "none"
    BY <2>1 DEF P!NoJob, PrintJob, P!Stamps
  <2>3. load' \in Seq(Receipts) /\ Len(load') <= MaxLoads
    BY <2>1, EmptySeq, PrintGiven
  <2>4. P!TypeOK'
    BY <1>1, <1>2, <2>1, <2>2, <2>3 DEF P!TypeOK, ReceiptRow, PrintDialog, PrintJob
  <2>5. QED
    BY <1>2, <2>1, <2>2, <2>4 DEF PrintInv, BusyPrinting, OwnLoadIsLast, PrintFollows, P!NoJob,
                             PrintedIsArchived, P!PrintedIsArchived
<1>6. QED
  BY <1>3, <1>4, <1>5
\* The steps of a print, each of which ends it or leaves it at a later point.
LEMMA PrintKeeps ==
    ASSUME PrintInv, P!BeginPrint \/ P!WriteFile \/ P!RegisterPdf \/ P!Printed \/ P!PrintFails
    PROVE  PrintInv'
<1>1. /\ receipt \in [Receipts -> ReceiptRow] /\ receiptDialog \in PrintDialog
      /\ archive \in [Folders \X Receipts -> P!Stamps \cup {P!NoFile}]
      /\ load \in Seq(Receipts) /\ Len(load) <= MaxLoads
      /\ folder \in Folders /\ job \in PrintJob
  BY PrintTypes DEF PrintInv
<1>2. \A r \in Receipts : receipt[r].count \in Nat /\ receipt[r].count <= MaxPrints
                          /\ receipt[r].path \in Folders \cup {NoFolder}
                          /\ receipt[r].cancelled \in BOOLEAN
  BY <1>1, PrintGiven DEF ReceiptRow
<1>3. P!NoJob \in PrintJob /\ P!NoJob.at = "none"
  BY DEF P!NoJob, PrintJob, P!Stamps
<1>4. ASSUME UNCHANGED <<folder, load>>,
             receipt' \in [Receipts -> ReceiptRow],
             archive' \in [Folders \X Receipts -> P!Stamps \cup {P!NoFile}],
             receiptDialog' \in PrintDialog, job' \in PrintJob
      PROVE  P!TypeOK'
  BY <1>1, <1>4 DEF P!TypeOK, ReceiptRow, PrintDialog, PrintJob
<1>5. CASE P!BeginPrint
  <2>1. PICK printer \in BOOLEAN :
          /\ receiptDialog.open # P!NoReceipt /\ ~receiptDialog.busy
          /\ receipt[receiptDialog.open].count < MaxPrints
          /\ receiptDialog' = [receiptDialog EXCEPT !.busy = TRUE]
          /\ job' = [at |-> "rendered", of |-> receiptDialog.open,
                     stamp |-> P!Stamp(receiptDialog.open), printer |-> printer]
          /\ UNCHANGED <<receipt, archive, folder, load>>
    BY <1>5 DEF P!BeginPrint
  <2>2. receiptDialog.open \in Receipts
    BY <1>1, <2>1 DEF PrintDialog
  <2>3. /\ P!Stamp(receiptDialog.open) \in P!Stamps
        /\ receipt[receiptDialog.open].count > 0 => P!Stamp(receiptDialog.open) # "original"
    BY DEF P!Stamp, P!Stamps
  <2>4. /\ receiptDialog' \in PrintDialog /\ receiptDialog'.busy
        /\ receiptDialog'.open = receiptDialog.open /\ receiptDialog'.shown = receiptDialog.shown
    BY <1>1, <2>1 DEF PrintDialog
  <2>5. /\ job' \in PrintJob /\ job'.at = "rendered" /\ job'.of = receiptDialog.open
        /\ job'.stamp = P!Stamp(receiptDialog.open)
    BY <2>1, <2>2, <2>3 DEF PrintJob
  <2>6. P!TypeOK'
    BY <1>1, <1>4, <2>1, <2>4, <2>5
  <2>7. BusyPrinting' /\ OwnLoadIsLast' /\ PrintFollows'
    BY <2>1, <2>2, <2>3, <2>4, <2>5
       DEF PrintInv, BusyPrinting, OwnLoadIsLast, PrintFollows
  <2>8. PrintedIsArchived'
    BY <2>1 DEF PrintInv, PrintedIsArchived, P!PrintedIsArchived
  <2>9. QED
    BY <2>6, <2>7, <2>8 DEF PrintInv
<1>6. ASSUME job.at # "none"
      PROVE  /\ job.of = receiptDialog.open /\ job.of \in Receipts /\ receiptDialog.busy
             /\ receipt[job.of].count < MaxPrints
             /\ receipt[job.of].count > 0 => job.stamp # "original"
             /\ job.at # "rendered" => archive[<<folder, job.of>>] = job.stamp
             /\ job.at = "printed" => receipt[job.of].path = folder
             /\ job.stamp \in P!Stamps
             /\ receiptDialog.open # P!NoReceipt
  BY <1>1, <1>6, PrintGiven DEF PrintInv, BusyPrinting, PrintFollows, PrintJob
<1>7. CASE P!WriteFile
  <2>1. /\ job.at = "rendered"
        /\ archive' = [archive EXCEPT ![<<folder, job.of>>] = job.stamp]
        /\ job' = [job EXCEPT !.at = "written"]
        /\ UNCHANGED <<receipt, folder, load, receiptDialog>>
    BY <1>7 DEF P!WriteFile
  <2>2. job' \in PrintJob /\ job'.at = "written" /\ job'.of = job.of /\ job'.stamp = job.stamp
    BY <1>1, <2>1 DEF PrintJob
  <2>3. /\ archive' \in [Folders \X Receipts -> P!Stamps \cup {P!NoFile}]
        /\ archive'[<<folder, job.of>>] = job.stamp
        /\ \A f \in Folders, r \in Receipts :
              archive'[<<f, r>>] = archive[<<f, r>>] \/ (f = folder /\ r = job.of)
    BY <1>1, <1>6, <2>1
  <2>4. P!TypeOK'
    BY <1>1, <1>4, <2>1, <2>2, <2>3
  <2>5. BusyPrinting' /\ OwnLoadIsLast' /\ PrintFollows'
    BY <1>6, <2>1, <2>2, <2>3 DEF PrintInv, BusyPrinting, OwnLoadIsLast, PrintFollows
  <2>6. PrintedIsArchived'
    <3>1. SUFFICES ASSUME NEW r \in Receipts
                   PROVE  /\ receipt[r].count > 0 => receipt[r].path # NoFolder
                          /\ receipt[r].path # NoFolder =>
                               /\ archive'[<<receipt[r].path, r>>] # P!NoFile
                               /\ receipt[r].count > 1 =>
                                     archive'[<<receipt[r].path, r>>] # "original"
      BY <2>1 DEF PrintedIsArchived, P!PrintedIsArchived
    <3>2. /\ receipt[r].count > 0 => receipt[r].path # NoFolder
          /\ receipt[r].path # NoFolder =>
               /\ archive[<<receipt[r].path, r>>] # P!NoFile
               /\ receipt[r].count > 1 => archive[<<receipt[r].path, r>>] # "original"
      BY DEF PrintInv, PrintedIsArchived, P!PrintedIsArchived
    <3>3. CASE r = job.of /\ receipt[r].path = folder
      BY <1>2, <1>6, <2>1, <2>3, <3>2, <3>3, PrintGiven
    <3>4. CASE ~(r = job.of /\ receipt[r].path = folder)
      <4>1. receipt[r].path # NoFolder =>
               archive'[<<receipt[r].path, r>>] = archive[<<receipt[r].path, r>>]
        BY <1>2, <2>3, <3>4
      <4>2. QED
        BY <3>2, <4>1
    <3>5. QED
      BY <3>3, <3>4
  <2>7. QED
    BY <2>4, <2>5, <2>6 DEF PrintInv
<1>8. CASE P!RegisterPdf \/ P!Printed
  <2>1. /\ job.at \in {"written", "printed"} /\ UNCHANGED <<archive, folder, load>>
        /\ \E count \in {receipt[job.of].count, receipt[job.of].count + 1} :
              receipt' = [receipt EXCEPT ![job.of].path = folder, ![job.of].count = count]
        /\ \/ /\ job' = [job EXCEPT !.at = "printed"] /\ UNCHANGED receiptDialog
              /\ receipt' = [receipt EXCEPT ![job.of].path = folder,
                                            ![job.of].count = receipt[job.of].count]
           \/ /\ job' = P!NoJob
              /\ receiptDialog' = [receiptDialog EXCEPT !.busy = FALSE, !.shown = job.of,
                                       !.cancelled = receipt[job.of].cancelled]
    <3>1. CASE P!RegisterPdf
      BY <3>1 DEF P!RegisterPdf
    <3>2. CASE P!Printed
      BY <3>2 DEF P!Printed
    <3>3. QED
      BY <1>8, <3>1, <3>2
  <2>2. PICK count \in {receipt[job.of].count, receipt[job.of].count + 1} :
           receipt' = [receipt EXCEPT ![job.of].path = folder, ![job.of].count = count]
    BY <2>1
  <2>3. count \in Nat /\ count <= MaxPrints /\ count \in 0 .. MaxPrints
        /\ (count > 1 => receipt[job.of].count > 0)
    BY <1>2, <1>6, <2>1, PrintGiven
  <2>4. /\ receipt' \in [Receipts -> ReceiptRow]
        /\ receipt'[job.of].path = folder /\ receipt'[job.of].count = count
        /\ \A r \in Receipts \ {job.of} : receipt'[r] = receipt[r]
    <3>1. PICK row : row = [receipt[job.of] EXCEPT !.path = folder, !.count = count]
      OBVIOUS
    <3>2. receipt' = [receipt EXCEPT ![job.of] = row]
      BY <1>1, <1>6, <2>1, <2>2, <3>1
    <3>3. row \in ReceiptRow /\ row.path = folder /\ row.count = count
      <4>1. receipt[job.of] \in ReceiptRow
        BY <1>1, <1>6, <2>1
      <4>2. folder \in Folders
        BY <1>1
      <4>3. QED
        BY <2>3, <3>1, <4>1, <4>2 DEF ReceiptRow
    <3>4. QED
      BY <1>1, <1>6, <2>1, <3>2, <3>3
  <2>5. PrintedIsArchived'
    <3>1. SUFFICES ASSUME NEW r \in Receipts
                   PROVE  /\ receipt'[r].count > 0 => receipt'[r].path # NoFolder
                          /\ receipt'[r].path # NoFolder =>
                               /\ archive[<<receipt'[r].path, r>>] # P!NoFile
                               /\ receipt'[r].count > 1 =>
                                     archive[<<receipt'[r].path, r>>] # "original"
      BY <2>1 DEF PrintedIsArchived, P!PrintedIsArchived
    <3>2. CASE r = job.of
      <4>1. archive[<<folder, job.of>>] = job.stamp /\ job.stamp # P!NoFile
        BY <1>6, <2>1, PrintGiven
      <4>2. folder # NoFolder
        BY <1>1, PrintGiven
      <4>3. count > 1 => job.stamp # "original"
        BY <1>6, <2>1, <2>3
      <4>4. QED
        BY <2>4, <3>2, <4>1, <4>2, <4>3
    <3>3. CASE r # job.of
      BY <2>4, <3>3 DEF PrintInv, PrintedIsArchived, P!PrintedIsArchived
    <3>4. QED
      BY <3>2, <3>3
  <2>6. CASE job' = P!NoJob
    <3>1. receiptDialog' = [receiptDialog EXCEPT !.busy = FALSE, !.shown = job.of,
                                       !.cancelled = receipt[job.of].cancelled]
      BY <1>1, <1>3, <2>1, <2>6 DEF PrintJob
    <3>2. /\ receiptDialog' \in PrintDialog /\ ~receiptDialog'.busy
          /\ receiptDialog'.open = receiptDialog.open /\ receiptDialog'.shown = job.of
      BY <1>1, <1>2, <1>6, <2>1, <3>1 DEF PrintDialog
    <3>3. P!TypeOK'
      BY <1>1, <1>3, <1>4, <2>1, <2>4, <2>6, <3>2
    <3>4. BusyPrinting' /\ OwnLoadIsLast' /\ PrintFollows'
      BY <1>3, <1>6, <2>1, <2>6, <3>2
         DEF PrintInv, BusyPrinting, OwnLoadIsLast, PrintFollows
    <3>5. QED
      BY <2>5, <3>3, <3>4 DEF PrintInv
  <2>7. CASE job' = [job EXCEPT !.at = "printed"] /\ UNCHANGED receiptDialog
    <3>1. job' \in PrintJob /\ job'.at = "printed" /\ job'.of = job.of /\ job'.stamp = job.stamp
      BY <1>1, <2>7 DEF PrintJob
    <3>2. receipt'[job.of].count = receipt[job.of].count
      <4>1. receipt' = [receipt EXCEPT ![job.of].path = folder,
                                       ![job.of].count = receipt[job.of].count]
        BY <1>3, <2>1, <3>1
      <4>2. QED
        BY <1>1, <1>6, <2>1, <4>1 DEF ReceiptRow
    <3>3. P!TypeOK'
      BY <1>1, <1>4, <2>1, <2>4, <2>7, <3>1
    <3>4. BusyPrinting' /\ OwnLoadIsLast' /\ PrintFollows'
      BY <1>6, <2>1, <2>4, <2>7, <3>1, <3>2
         DEF PrintInv, BusyPrinting, OwnLoadIsLast, PrintFollows
    <3>5. QED
      BY <2>5, <3>3, <3>4 DEF PrintInv
  <2>8. QED
    BY <2>1, <2>6, <2>7
<1>9. CASE P!PrintFails
  <2>1. /\ job.at # "none" /\ job' = P!NoJob
        /\ receiptDialog' = [receiptDialog EXCEPT !.busy = FALSE]
        /\ UNCHANGED <<receipt, archive, folder, load>>
    BY <1>9 DEF P!PrintFails
  <2>2. /\ receiptDialog' \in PrintDialog /\ ~receiptDialog'.busy
        /\ receiptDialog'.open = receiptDialog.open /\ receiptDialog'.shown = receiptDialog.shown
    BY <1>1, <2>1 DEF PrintDialog
  <2>3. P!TypeOK'
    BY <1>1, <1>3, <1>4, <2>1, <2>2
  <2>4. BusyPrinting' /\ OwnLoadIsLast' /\ PrintFollows'
    BY <1>3, <2>1, <2>2 DEF PrintInv, BusyPrinting, OwnLoadIsLast, PrintFollows
  <2>5. PrintedIsArchived'
    BY <2>1 DEF PrintInv, PrintedIsArchived, P!PrintedIsArchived
  <2>6. QED
    BY <2>3, <2>4, <2>5 DEF PrintInv
<1>10. QED
  BY <1>5, <1>7, <1>8, <1>9

LEMMA PrintStays == PrintInv /\ [P!Next]_P!vars => PrintInv'
<1>1. SUFFICES ASSUME PrintInv, [P!Next]_P!vars PROVE PrintInv'
  OBVIOUS
<1>2. CASE UNCHANGED P!vars
  BY <1>1, <1>2 DEF P!vars, PrintInv, P!TypeOK, BusyPrinting, OwnLoadIsLast, PrintFollows,
                    P!NoJob, PrintedIsArchived, P!PrintedIsArchived
<1>3. QED
  BY <1>1, <1>2, PrintDialogKeeps, OutsideKeeps, PrintKeeps DEF P!Next

\* In every state a print under way is of the receipt the busy dialog is open for, and
\* the loads of that dialog end with its own.
THEOREM PrintHolds == P!Spec => []PrintInv
  BY PrintStarts, PrintStays, PTL DEF P!Spec

\* However often a receipt is printed, wherever the archive moves and whatever fails in
\* between: what was counted or opened has its file, and from the second print on not as
\* an original (printReceipt, generateReceiptPdf, registerPrint).
THEOREM PrintedAlwaysArchived == P!Spec => []PrintedIsArchived
<1>1. PrintInv => PrintedIsArchived
  BY DEF PrintInv
<1>2. QED
  BY <1>1, PrintHolds, PTL

\* Once the loads are answered the dialog shows the receipt it was opened for, whichever
\* were opened and closed before, and prints no other (ReceiptDialog).
THEOREM ShownAlwaysOpen == P!Spec => []ShownIsOpen
<1>1. PrintInv => ShownIsOpen
  BY DEF PrintInv, BusyPrinting, OwnLoadIsLast, ShownIsOpen, P!ShownIsOpen
<1>2. QED
  BY <1>1, PrintHolds, PTL
-----------------------------------------------------------------------------
(* The settings: SetupDesk.                                                    *)

Configuration ==
    {f \in [S!Keys -> SetupNames \cup {0} \cup Papers] :
        \A key \in S!Keys : f[key] \in S!Values(key)}
SetupWizard == [open : BOOLEAN, step : 1 .. 3, draft : Configuration, start : Nat]
SetupPage == [open : BOOLEAN, config : Configuration, draft : Configuration, loading : BOOLEAN]

\* Drafts hold values their keys may have, so what is saved does.
SetupInv ==
    /\ stored \in Configuration /\ completed \in BOOLEAN /\ next \in Nat /\ issued \in Nat
    /\ app \in [next : Nat, loading : BOOLEAN]
    /\ wizard \in SetupWizard /\ settingsPage \in SetupPage
    /\ NamedWhenSetUp

LEMMA StepsGiven ==
    /\ Len(S!WizardSteps) = 3
    /\ \A step \in 1 .. 3 : S!WizardSteps[step] \subseteq S!Keys
  BY DEF S!WizardSteps, S!Keys

LEMMA SeedIsConfiguration == S!Seeded \in Configuration
  BY DeskBounds DEF S!Seeded, Configuration, S!Keys, S!Values, S!SetupGiven

\* What is saved of a draft: some of its keys, none of them required and empty.
LEMMA SavedKeepsName ==
    ASSUME SetupInv, NEW d \in Configuration, NEW keys \in SUBSET S!Keys,
           S!ValidateSettings([key \in keys |-> d[key]]),
           stored' = S!Saved([key \in keys |-> d[key]])
    PROVE  stored' \in Configuration /\ (S!MissingRequired(stored) = {} =>
                                         S!MissingRequired(stored') = {})
<1>1. stored \in Configuration
  BY DEF SetupInv
<1>2. \A key \in S!Keys : stored'[key] = IF key \in keys THEN d[key] ELSE stored[key]
  BY DEF S!Saved
<1>3. stored' \in Configuration
  BY <1>1, <1>2 DEF S!Saved, Configuration
<1>4. \A key \in keys \cap S!Required : d[key] # 0
  BY DEF S!ValidateSettings
<1>5. S!Required \subseteq S!Keys
  BY DEF S!Required, S!Keys
<1>6. S!MissingRequired(stored) = {} => S!MissingRequired(stored') = {}
  BY <1>2, <1>4, <1>5 DEF S!MissingRequired
<1>7. QED
  BY <1>3, <1>6

LEMMA SetupStarts == S!Init => SetupInv
<1>1. SUFFICES ASSUME S!Init PROVE SetupInv
  OBVIOUS
<1>2. wizard \in SetupWizard /\ settingsPage \in SetupPage
  BY <1>1, SeedIsConfiguration DEF S!Init, S!NoWizard, S!NoPage, SetupWizard, SetupPage
<1>3. QED
  BY <1>1, <1>2, SeedIsConfiguration DEF S!Init, SetupInv, NamedWhenSetUp, S!NamedWhenSetUp

\* A key of a draft is typed anew.
LEMMA Typed ==
    ASSUME NEW d \in Configuration, NEW key \in S!Keys, NEW v \in S!Values(key)
    PROVE  [d EXCEPT ![key] = v] \in Configuration
  BY DEF Configuration, S!Values, S!Keys

LEMMA SetupStays == SetupInv /\ [S!Next]_S!vars => SetupInv'
<1>1. SUFFICES ASSUME SetupInv, [S!Next]_S!vars PROVE SetupInv'
  OBVIOUS
<1>2. /\ stored \in Configuration /\ completed \in BOOLEAN /\ next \in Nat /\ issued \in Nat
      /\ app \in [next : Nat, loading : BOOLEAN]
      /\ wizard \in SetupWizard /\ settingsPage \in SetupPage
      /\ completed => S!MissingRequired(stored) = {}
      /\ StartNumbers \subseteq Nat
  BY <1>1, DeskBounds DEF SetupInv, NamedWhenSetUp, S!NamedWhenSetUp, S!SetupGiven
<1>3. S!NoWizard \in SetupWizard /\ S!NoPage \in SetupPage
  BY SeedIsConfiguration DEF S!NoWizard, S!NoPage, SetupWizard, SetupPage
<1>4. [app EXCEPT !.loading = TRUE] \in [next : Nat, loading : BOOLEAN]
  BY <1>2
<1>5. /\ [settingsPage EXCEPT !.loading = TRUE] \in SetupPage
      /\ [settingsPage EXCEPT !.config = stored, !.draft = stored, !.loading = FALSE]
            \in SetupPage
      /\ [S!NoPage EXCEPT !.open = TRUE, !.loading = TRUE] \in SetupPage
  BY <1>2, <1>3 DEF SetupPage
<1>6. CASE S!LoadApp \/ S!IssueReceipt
  <2>1. [open |-> TRUE, step |-> 1, draft |-> stored, start |-> next] \in SetupWizard
    BY <1>2 DEF SetupWizard
  <2>2. CASE S!LoadApp
    BY <1>2, <2>1, <2>2 DEF S!LoadApp, S!stored, SetupInv, NamedWhenSetUp, S!NamedWhenSetUp
  <2>3. CASE S!IssueReceipt
    BY <1>2, <1>4, <2>3
       DEF S!IssueReceipt, S!Bumped, SetupInv, NamedWhenSetUp, S!NamedWhenSetUp
  <2>4. QED
    BY <1>6, <2>2, <2>3
<1>7. CASE S!TypeInWizard \/ S!WizardBack
  <2>1. wizard' \in SetupWizard
    <3>1. CASE S!WizardBack
      BY <1>2, <3>1 DEF S!WizardBack, SetupWizard
    <3>2. CASE \E key \in S!WizardSteps[wizard.step] : \E v \in S!Values(key) :
                  wizard' = [wizard EXCEPT !.draft[key] = v]
      <4>1. PICK key \in S!Keys : \E v \in S!Values(key) :
                  wizard' = [wizard EXCEPT !.draft[key] = v]
        BY <1>2, <3>2, StepsGiven DEF SetupWizard
      <4>2. PICK v \in S!Values(key) : wizard' = [wizard EXCEPT !.draft[key] = v]
        BY <4>1
      <4>3. wizard' = [wizard EXCEPT !.draft = [wizard.draft EXCEPT ![key] = v]]
        BY <1>2, <4>2 DEF SetupWizard
      <4>4. [wizard.draft EXCEPT ![key] = v] \in Configuration
        BY <1>2, Typed DEF SetupWizard
      <4>5. QED
        BY <1>2, <4>3, <4>4 DEF SetupWizard
    <3>3. CASE \E n \in StartNumbers : wizard' = [wizard EXCEPT !.start = n]
      BY <1>2, <3>3 DEF SetupWizard
    <3>4. QED
      BY <1>7, <3>1, <3>2, <3>3 DEF S!TypeInWizard
  <2>2. UNCHANGED <<stored, completed, next, issued, app, settingsPage>>
    BY <1>7 DEF S!TypeInWizard, S!WizardBack, S!stored
  <2>3. QED
    BY <1>2, <2>1, <2>2 DEF SetupInv, NamedWhenSetUp, S!NamedWhenSetUp
<1>8. CASE S!SaveAndAdvance \/ S!CompleteSetup
  <2>1. S!SaveStep /\ UNCHANGED <<issued, settingsPage>>
    BY <1>8 DEF S!SaveAndAdvance, S!CompleteSetup
  <2>2. PICK keys \in SUBSET S!Keys : keys = S!WizardSteps[wizard.step]
    BY <1>2, StepsGiven DEF SetupWizard
  <2>3. /\ S!ValidateSettings([key \in keys |-> wizard.draft[key]])
        /\ stored' = S!Saved([key \in keys |-> wizard.draft[key]])
    BY <2>1, <2>2 DEF S!SaveStep
  <2>4. wizard.draft \in Configuration /\ wizard.start \in Nat
    BY <1>2 DEF SetupWizard
  <2>5. /\ stored' \in Configuration
        /\ S!MissingRequired(stored) = {} => S!MissingRequired(stored') = {}
    BY <1>1, <2>3, <2>4, SavedKeepsName
  <2>6. next' \in Nat
    BY <1>2, <2>1, <2>4 DEF S!SaveStep
  <2>7. CASE S!SaveAndAdvance
    <3>1. wizard' \in SetupWizard
      BY <1>2, <2>7, StepsGiven DEF S!SaveAndAdvance, SetupWizard
    <3>2. QED
      BY <1>2, <2>1, <2>5, <2>6, <2>7, <3>1
         DEF S!SaveAndAdvance, SetupInv, NamedWhenSetUp, S!NamedWhenSetUp
  <2>8. CASE S!CompleteSetup
    BY <1>2, <1>3, <1>4, <2>1, <2>5, <2>6, <2>8
       DEF S!CompleteSetup, S!Bumped, SetupInv, NamedWhenSetUp, S!NamedWhenSetUp
  <2>9. QED
    BY <1>8, <2>7, <2>8
<1>9. CASE S!OpenPage \/ S!LoadPage \/ S!LeavePage
  BY <1>2, <1>3, <1>5, <1>9 DEF S!OpenPage, S!LoadPage, S!LeavePage, S!stored,
                                SetupInv, NamedWhenSetUp, S!NamedWhenSetUp
<1>10. CASE S!EditPage
  <2>1. UNCHANGED <<stored, completed, next, issued, app, wizard>>
    BY <1>10 DEF S!EditPage, S!stored
  <2>2. PICK key \in S!Keys : \E v \in S!Values(key) :
              settingsPage' = [settingsPage EXCEPT !.draft[key] = v]
    BY <1>10 DEF S!EditPage
  <2>3. PICK v \in S!Values(key) : settingsPage' = [settingsPage EXCEPT !.draft[key] = v]
    BY <2>2
  <2>4. settingsPage' = [settingsPage EXCEPT !.draft = [settingsPage.draft EXCEPT ![key] = v]]
    BY <1>2, <2>3 DEF SetupPage
  <2>5. [settingsPage.draft EXCEPT ![key] = v] \in Configuration
    BY <1>2, Typed DEF SetupPage
  <2>6. settingsPage' \in SetupPage
    BY <1>2, <2>4, <2>5 DEF SetupPage
  <2>7. QED
    BY <1>2, <2>1, <2>6 DEF SetupInv, NamedWhenSetUp, S!NamedWhenSetUp
<1>11. CASE S!SavePage
  <2>1. PICK keys \in SUBSET S!Keys :
          keys = {key \in S!Keys : settingsPage.draft[key] # settingsPage.config[key]}
    OBVIOUS
  <2>2. /\ S!ValidateSettings([key \in keys |-> settingsPage.draft[key]])
        /\ stored' = S!Saved([key \in keys |-> settingsPage.draft[key]])
        /\ settingsPage' = [settingsPage EXCEPT !.loading = TRUE]
        /\ app' = [app EXCEPT !.loading = TRUE]
        /\ UNCHANGED <<completed, next, issued, wizard>>
    BY <1>11, <2>1 DEF S!SavePage, S!Bumped
  <2>3. settingsPage.draft \in Configuration
    BY <1>2 DEF SetupPage
  <2>4. /\ stored' \in Configuration
        /\ S!MissingRequired(stored) = {} => S!MissingRequired(stored') = {}
    BY <1>1, <2>2, <2>3, SavedKeepsName
  <2>5. QED
    BY <1>2, <1>4, <1>5, <2>2, <2>4 DEF SetupInv, NamedWhenSetUp, S!NamedWhenSetUp
<1>12. CASE S!SetReceiptStart \/ S!ReopenSetup \/ S!DeleteDatabase
  <2>1. CASE S!SetReceiptStart
    <3>1. PICK n \in StartNumbers : next' = n
      BY <2>1 DEF S!SetReceiptStart
    <3>2. QED
      BY <1>2, <1>4, <1>5, <2>1, <3>1
         DEF S!SetReceiptStart, S!Bumped, SetupInv, NamedWhenSetUp, S!NamedWhenSetUp
  <2>2. CASE S!ReopenSetup
    BY <1>2, <2>2 DEF S!ReopenSetup, SetupInv, NamedWhenSetUp, S!NamedWhenSetUp
  <2>3. CASE S!DeleteDatabase
    BY <1>2, <1>4, <1>5, <2>3, SeedIsConfiguration
       DEF S!DeleteDatabase, S!Bumped, SetupInv, NamedWhenSetUp, S!NamedWhenSetUp
  <2>4. QED
    BY <1>12, <2>1, <2>2, <2>3
<1>13. CASE UNCHANGED S!vars
  BY <1>2, <1>13 DEF S!vars, SetupInv, NamedWhenSetUp, S!NamedWhenSetUp
<1>14. QED
  BY <1>1, <1>6, <1>7, <1>8, <1>9, <1>10, <1>11, <1>12, <1>13 DEF S!Next

\* Every stored value and every draft is one its key may have, in every state.
THEOREM SetupHolds == S!Spec => []SetupInv
  BY SetupStarts, SetupStays, PTL DEF S!Spec

\* Once an installation counts as set up it has its name, through later saves of either
\* screen and deletions of the data (completeSetup, validateSettings).
THEOREM AlwaysNamed == S!Spec => []NamedWhenSetUp
<1>1. SetupInv => NamedWhenSetUp
  BY DEF SetupInv
<1>2. QED
  BY <1>1, SetupHolds, PTL
-----------------------------------------------------------------------------
(* Messages about money: EventMessages.                                        *)

Money == [kind : E!Kinds, id : Payments \cup Nat]
Asking == [what : {"draft", "member", "send"}, kind : E!Kinds, id : Payments \cup Nat,
           force : BOOLEAN]
Drafted == [kind : E!Kinds, id : Payments \cup Nat, force : BOOLEAN]
Issued == [payment : Payments, live : BOOLEAN]
Sending == [ref : Money, force : BOOLEAN, ok : BOOLEAN]

EventTypes ==
    /\ mode \in [E!Kinds -> E!NotifyModes] /\ template \subseteq E!Kinds /\ mobile \in BOOLEAN
    /\ payment \in [Payments -> {"none", "recorded", "deleted"}]
    /\ told \in Seq(Issued) /\ Len(told) <= MaxTold
    /\ campaign \in Seq(Sending) /\ Len(campaign) <= MaxSends
    /\ requests \in Seq(Asking) /\ Len(requests) <= MaxNotices
    /\ messageDialog \in [draft : Drafted \cup {E!NoDraft}, busy : BOOLEAN]
    /\ sending \in 0 .. Len(campaign)

\* What a request, a draft or a campaign is about was recorded or issued.
Real(q) ==
    \/ q.kind = "payment" /\ q.id \in Payments /\ payment[q.id] # "none"
    \/ q.kind = "receipt" /\ q.id \in 1 .. Len(told)

AllReal ==
    /\ \A r \in 1 .. Len(told) : payment[told[r].payment] # "none"
    /\ \A k \in 1 .. Len(requests) : Real(requests[k])
    /\ \A c \in 1 .. Len(campaign) : Real(campaign[c].ref)
    /\ messageDialog.draft # E!NoDraft => Real(messageDialog.draft)

\* One message is being sent, or asked to be, for the dialog that is busy.
OneSend ==
    /\ \A k \in 1 .. Len(requests) : requests[k].what = "send" =>
          /\ messageDialog.busy /\ sending = 0 /\ Len(campaign) < MaxSends
          /\ \A j \in 1 .. Len(requests) : requests[j].what = "send" => j = k
    /\ sending # 0 => messageDialog.busy

\* The messages that arrived and that no user asked for again.
Arrived == {c \in 1 .. Len(campaign) : campaign[c].ok /\ ~campaign[c].force}
MoneyOf(q) == E!Ref(q.kind, q.id)

\* No message has arrived about q, nor about a receipt for it; one about the payment of
\* q's receipt may have.
Unheard(q) ==
    ~q.force => \A c \in Arrived : ~E!SameMoney(MoneyOf(q), campaign[c].ref)

\* Nor has that one.
Untold(q) ==
    Unheard(q) /\ (~q.force => \A c \in Arrived : ~E!SameMoney(campaign[c].ref, MoneyOf(q)))

\* What is offered is new, and what was drafted, shown or begun is untold: because a
\* message that arrives leaves no other draft behind, on the screen or on its way there.
NothingTwice ==
    /\ \A k \in 1 .. Len(requests) :
          /\ Unheard(requests[k])
          /\ requests[k].what # "draft" => Untold(requests[k])
    /\ messageDialog.draft # E!NoDraft => Untold(messageDialog.draft)
    /\ sending # 0 =>
          Untold([kind |-> campaign[sending].ref.kind, id |-> campaign[sending].ref.id,
                  force |-> campaign[sending].force])

EventInv == EventTypes /\ AllReal /\ OneSend /\ NothingTwice /\ ToldOnce

LEMMA MessagesGiven == MaxTold \in Nat /\ MaxSends \in Nat /\ MaxNotices \in Nat
  BY DeskBounds DEF E!MessageBounds

LEMMA EventLengths ==
    ASSUME EventTypes
    PROVE  /\ Len(told) \in Nat /\ DOMAIN told = 1 .. Len(told)
           /\ Len(campaign) \in Nat /\ DOMAIN campaign = 1 .. Len(campaign)
           /\ Len(requests) \in Nat /\ DOMAIN requests = 1 .. Len(requests)
           /\ \A r \in 1 .. Len(told) : told[r] \in Issued
           /\ \A c \in 1 .. Len(campaign) : campaign[c] \in Sending
           /\ \A k \in 1 .. Len(requests) : requests[k] \in Asking
  BY LenProperties, ElementOfSeq DEF EventTypes

LEMMA EventStarts == E!Init => EventInv
<1>1. SUFFICES ASSUME E!Init PROVE EventInv
  OBVIOUS
<1>2. /\ told = <<>> /\ campaign = <<>> /\ requests = <<>> /\ sending = 0
      /\ messageDialog = [draft |-> E!NoDraft, busy |-> FALSE]
  BY <1>1 DEF E!Init
<1>3. Len(told) = 0 /\ Len(campaign) = 0 /\ Len(requests) = 0
      /\ told \in Seq(Issued) /\ campaign \in Seq(Sending) /\ requests \in Seq(Asking)
  BY <1>2, EmptySeq
<1>4. EventTypes
  BY <1>1, <1>2, <1>3, MessagesGiven DEF E!Init, EventTypes
<1>5. AllReal /\ OneSend /\ NothingTwice
  BY <1>2, <1>3 DEF AllReal, OneSend, NothingTwice
<1>6. ToldOnce
  BY <1>3, <1>4, EventLengths DEF ToldOnce, E!ToldOnce
<1>7. QED
  BY <1>4, <1>5, <1>6 DEF EventInv

\* Steps of the pages: records are added or marked, and at most one event is offered, of
\* which nothing was heard.
LEMMA BookGrows ==
    ASSUME EventInv, UNCHANGED <<campaign, messageDialog, sending>>,
           messageDialog.draft = E!NoDraft,
           EventTypes',
           Len(told') >= Len(told),
           \A r \in 1 .. Len(told) : told'[r].payment = told[r].payment,
           \A p \in Payments : payment[p] # "none" => payment'[p] # "none",
           \A r \in 1 .. Len(told') : payment'[told'[r].payment] # "none",
           \/ UNCHANGED requests
           \/ \E q \in Asking : /\ requests' = Append(requests, q) /\ q.what = "draft"
                                /\ Real(q)' /\ Unheard(q)'
    PROVE  EventInv'
<1>1. /\ Len(told) \in Nat /\ Len(told') \in Nat /\ Len(requests) \in Nat
      /\ DOMAIN campaign = 1 .. Len(campaign)
      /\ \A c \in 1 .. Len(campaign) : campaign[c] \in Sending
      /\ \A k \in 1 .. Len(requests) : requests[k] \in Asking
      /\ requests \in Seq(Asking)
  BY EventLengths DEF EventInv, EventTypes
<1>2. \A q : Real(q) => Real(q)'
  BY <1>1 DEF Real
<1>3. ASSUME NEW a, NEW b, Real(b)
      PROVE  E!SameMoney(a, b)' <=> E!SameMoney(a, b)
  BY <1>3 DEF E!SameMoney, Real
<1>4. /\ \A k \in 1 .. Len(requests) : Real(requests[k])
      /\ \A c \in 1 .. Len(campaign) : Real(campaign[c].ref)
  BY DEF EventInv, AllReal
<1>5. Arrived' = Arrived /\ Arrived \subseteq 1 .. Len(campaign)
  BY DEF Arrived
<1>6. \A q : Real(q) => Real(MoneyOf(q))
  BY DEF Real, MoneyOf, E!Ref
<1>7. ASSUME NEW q, Real(q) PROVE (Unheard(q) => Unheard(q)') /\ (Untold(q) => Untold(q)')
  BY <1>3, <1>4, <1>5, <1>6, <1>7 DEF Unheard, Untold, MoneyOf, E!Ref
<1>8. ToldOnce'
  BY <1>1, <1>3, <1>4 DEF EventInv, ToldOnce, E!ToldOnce
<1>9. sending # 0 => sending \in 1 .. Len(campaign)
  BY EventLengths DEF EventInv, EventTypes
<1>10. sending # 0 => Real([kind |-> campaign[sending].ref.kind, id |-> campaign[sending].ref.id,
                            force |-> campaign[sending].force])
  BY <1>4, <1>9 DEF Real
<1>11. /\ messageDialog.draft # E!NoDraft => Untold(messageDialog.draft)'
       /\ sending # 0 =>
            Untold([kind |-> campaign[sending].ref.kind, id |-> campaign[sending].ref.id,
                    force |-> campaign[sending].force])'
  BY <1>7, <1>10 DEF EventInv, NothingTwice
<1>12. CASE UNCHANGED requests
  <2>1. AllReal'
    BY <1>2, <1>4, <1>12 DEF EventInv, AllReal
  <2>2. OneSend'
    BY <1>12 DEF EventInv, OneSend
  <2>3. NothingTwice'
    BY <1>4, <1>7, <1>11, <1>12 DEF EventInv, NothingTwice
  <2>4. QED
    BY <1>8, <2>1, <2>2, <2>3 DEF EventInv
<1>13. CASE \E q \in Asking : /\ requests' = Append(requests, q) /\ q.what = "draft"
                              /\ Real(q)' /\ Unheard(q)'
  <2>1. PICK q \in Asking : /\ requests' = Append(requests, q) /\ q.what = "draft"
                            /\ Real(q)' /\ Unheard(q)'
    BY <1>13
  <2>2. /\ Len(requests') = Len(requests) + 1 /\ requests'[Len(requests) + 1] = q
        /\ \A k \in 1 .. Len(requests) : requests'[k] = requests[k]
    BY <1>1, <2>1, AppendProperties
  <2>3. \A k \in 1 .. Len(requests') :
           \/ k \in 1 .. Len(requests) /\ requests'[k] = requests[k]
           \/ requests'[k] = q
    BY <1>1, <2>2
  <2>4. AllReal'
    BY <1>2, <1>4, <2>1, <2>3 DEF EventInv, AllReal
  <2>5. OneSend'
    BY <2>1, <2>3 DEF EventInv, OneSend
  <2>6. NothingTwice'
    BY <1>4, <1>7, <1>11, <2>1, <2>3 DEF EventInv, NothingTwice
  <2>7. QED
    BY <1>8, <2>4, <2>5, <2>6 DEF EventInv
<1>14. QED
  BY <1>12, <1>13

\* Of what did not exist nothing was heard.
LEMMA NewIsUnheard ==
    ASSUME EventInv, NEW p \in Payments, NEW n \in Nat, n = Len(told) + 1,
           Arrived' = Arrived, campaign' = campaign
    PROVE  /\ payment[p] = "none" =>
                \A force \in BOOLEAN :
                   Unheard([what |-> "draft", kind |-> "payment", id |-> p, force |-> force])
           /\ \A force \in BOOLEAN :
                Unheard([what |-> "draft", kind |-> "receipt", id |-> n, force |-> force])'
<1>1. /\ \A c \in 1 .. Len(campaign) : campaign[c] \in Sending /\ Real(campaign[c].ref)
      /\ \A r \in 1 .. Len(told) : payment[told[r].payment] # "none"
      /\ Len(told) \in Nat /\ Arrived \subseteq 1 .. Len(campaign)
  BY EventLengths DEF EventInv, AllReal, Arrived
<1>2. ASSUME payment[p] = "none", NEW c \in Arrived
      PROVE  ~E!SameMoney(E!Ref("payment", p), campaign[c].ref)
  BY <1>1, <1>2 DEF E!SameMoney, E!Ref, Real
<1>3. ASSUME NEW c \in Arrived
      PROVE  ~E!SameMoney(E!Ref("receipt", n), campaign[c].ref)'
  <2>1. campaign'[c].ref # E!Ref("receipt", n)
    BY <1>1 DEF E!Ref, Real
  <2>2. QED
    BY <2>1 DEF E!SameMoney, E!Ref
<1>4. QED
  BY <1>2, <1>3 DEF Unheard, MoneyOf

LEMMA PagesKeep ==
    ASSUME EventInv,
           \/ \E p \in Payments :
                \/ \E withReceipt \in BOOLEAN : E!RecordPayment(p, withReceipt)
                \/ E!IssueReceipt(p) \/ E!DeletePayment(p) \/ E!ForceOffer(p)
           \/ \E r \in 1 .. MaxTold : E!CancelReceipt(r)
           \/ E!Change
    PROVE  EventInv'
<1>1. /\ EventTypes /\ Len(told) \in Nat /\ DOMAIN told = 1 .. Len(told)
      /\ \A r \in 1 .. Len(told) : told[r] \in Issued /\ payment[told[r].payment] # "none"
      /\ told \in Seq(Issued) /\ requests \in Seq(Asking) /\ Len(requests) \in Nat
      /\ payment \in [Payments -> {"none", "recorded", "deleted"}]
  BY EventLengths DEF EventInv, AllReal, EventTypes
<1>2. ASSUME NEW kind \in E!Kinds, NEW id \in Payments \cup Nat, NEW force \in BOOLEAN,
             E!Offer(kind, id, force)
      PROVE  /\ [what |-> "draft", kind |-> kind, id |-> id, force |-> force] \in Asking
             /\ requests' = Append(requests, [what |-> "draft", kind |-> kind, id |-> id,
                                              force |-> force])
             /\ requests' \in Seq(Asking) /\ Len(requests') <= MaxNotices
  <2>1. [what |-> "draft", kind |-> kind, id |-> id, force |-> force] \in Asking
    BY DEF Asking
  <2>2. /\ Len(requests) < MaxNotices
        /\ requests' = Append(requests, [what |-> "draft", kind |-> kind, id |-> id,
                                         force |-> force])
    BY <1>2 DEF E!Offer, E!Ask
  <2>3. requests' \in Seq(Asking) /\ Len(requests') = Len(requests) + 1
    BY <1>1, <2>1, <2>2, AppendProperties
  <2>4. QED
    BY <1>1, <2>1, <2>2, <2>3, MessagesGiven
<1>3. ASSUME NEW p \in Payments, Len(told) < MaxTold,
             told' = Append(told, [payment |-> p, live |-> TRUE])
      PROVE  /\ told' \in Seq(Issued) /\ Len(told') = Len(told) + 1 /\ Len(told') <= MaxTold
             /\ told'[Len(told) + 1].payment = p
             /\ \A r \in 1 .. Len(told) : told'[r] = told[r]
  <2>1. [payment |-> p, live |-> TRUE] \in Issued
    BY DEF Issued
  <2>2. /\ told' \in Seq(Issued) /\ Len(told') = Len(told) + 1
        /\ told'[Len(told) + 1] = [payment |-> p, live |-> TRUE]
        /\ \A r \in 1 .. Len(told) : told'[r] = told[r]
    BY <1>1, <1>3, <2>1, AppendProperties
  <2>3. QED
    BY <1>1, <1>3, <2>2, MessagesGiven
<1>4. UNCHANGED campaign => Arrived' = Arrived
  BY DEF Arrived
<1>5. ASSUME NEW p \in Payments, NEW withReceipt \in BOOLEAN, E!RecordPayment(p, withReceipt)
      PROVE  EventInv'
  <2>1. /\ messageDialog.draft = E!NoDraft /\ payment[p] = "none"
        /\ payment' = [payment EXCEPT ![p] = "recorded"]
        /\ withReceipt => Len(told) < MaxTold
        /\ told' = IF withReceipt THEN Append(told, [payment |-> p, live |-> TRUE]) ELSE told
        /\ E!Offer("payment", p, FALSE)
        /\ UNCHANGED <<mode, template, mobile, campaign, messageDialog, sending>>
    BY <1>5 DEF E!RecordPayment, E!PageFree, E!MergeEvents, E!world
  <2>2. DEFINE q == [what |-> "draft", kind |-> "payment", id |-> p, force |-> FALSE]
  <2>3. q \in Asking /\ requests' = Append(requests, q) /\ q.what = "draft"
        /\ requests' \in Seq(Asking) /\ Len(requests') <= MaxNotices
    BY <1>2, <2>1 DEF E!Kinds
  <2>4. /\ payment' \in [Payments -> {"none", "recorded", "deleted"}]
        /\ payment'[p] = "recorded" /\ \A o \in Payments \ {p} : payment'[o] = payment[o]
    BY <1>1, <2>1
  <2>5. /\ told' \in Seq(Issued) /\ Len(told') >= Len(told) /\ Len(told') <= MaxTold
        /\ \A r \in 1 .. Len(told) : told'[r] = told[r]
        /\ \A r \in 1 .. Len(told') :
              r \in 1 .. Len(told) \/ told'[r].payment = p
    <3>1. CASE withReceipt
      <4>1. \A r \in 1 .. Len(told) + 1 : r \in 1 .. Len(told) \/ r = Len(told) + 1
        BY <1>1
      <4>2. told' = Append(told, [payment |-> p, live |-> TRUE]) /\ Len(told) < MaxTold
        BY <2>1, <3>1
      <4>3. /\ told' \in Seq(Issued) /\ Len(told') = Len(told) + 1 /\ Len(told') <= MaxTold
            /\ told'[Len(told) + 1].payment = p
            /\ \A r \in 1 .. Len(told) : told'[r] = told[r]
        BY <1>3, <4>2
      <4>4. QED
        BY <1>1, <4>1, <4>3
    <3>2. CASE ~withReceipt
      BY <1>1, <2>1, <3>2 DEF EventTypes
    <3>3. QED
      BY <3>1, <3>2
  <2>6. EventTypes'
    BY <1>1, <2>1, <2>3, <2>4, <2>5 DEF EventTypes
  <2>7. \A r \in 1 .. Len(told') : payment'[told'[r].payment] # "none"
    BY <1>1, <2>4, <2>5 DEF Issued
  <2>8. Unheard(q)'
    <3>1. Unheard(q)
      <4>1. PICK n \in Nat : n = Len(told) + 1
        BY <1>1
      <4>2. QED
        BY <1>4, <2>1, <4>1, NewIsUnheard
    <3>2. \A c \in Arrived : ~E!SameMoney(E!Ref("payment", p), campaign[c].ref)
      BY <3>1 DEF Unheard, MoneyOf
    <3>3. \A c \in Arrived : c \in 1 .. Len(campaign) /\ Real(campaign[c].ref)
      BY DEF EventInv, AllReal, Arrived
    <3>4. \A c \in Arrived : ~E!SameMoney(E!Ref("payment", p), campaign[c].ref)'
      BY <2>1, <2>5, <3>2, <3>3 DEF E!SameMoney, E!Ref, Real
    <3>5. QED
      BY <1>4, <2>1, <3>4 DEF Unheard, MoneyOf
  <2>9. Real(q)'
    BY <2>4 DEF Real
  <2> HIDE DEF q
  <2>10. QED
    BY <2>1, <2>3, <2>4, <2>5, <2>6, <2>7, <2>8, <2>9, BookGrows
<1>6. ASSUME NEW p \in Payments, E!IssueReceipt(p)
      PROVE  EventInv'
  <2>1. /\ messageDialog.draft = E!NoDraft /\ payment[p] = "recorded" /\ Len(told) < MaxTold
        /\ told' = Append(told, [payment |-> p, live |-> TRUE])
        /\ E!Offer("receipt", Len(told'), FALSE)
        /\ UNCHANGED <<mode, template, mobile, payment, campaign, messageDialog, sending>>
    BY <1>6 DEF E!IssueReceipt, E!PageFree, E!MergeEvents, E!world
  <2>2. PICK n \in Nat : n = Len(told) + 1
    BY <1>1
  <2> DEFINE q == [what |-> "draft", kind |-> "receipt", id |-> n, force |-> FALSE]
  <2>3. /\ told' \in Seq(Issued) /\ Len(told') = n /\ Len(told') <= MaxTold
        /\ told'[n].payment = p
        /\ \A r \in 1 .. Len(told) : told'[r] = told[r]
    BY <1>3, <2>1, <2>2
  <2>4. q \in Asking /\ requests' = Append(requests, q) /\ q.what = "draft"
        /\ requests' \in Seq(Asking) /\ Len(requests') <= MaxNotices
    BY <1>2, <2>1, <2>3 DEF E!Kinds
  <2>5. EventTypes'
    BY <1>1, <2>1, <2>3, <2>4 DEF EventTypes
  <2>6. \A r \in 1 .. Len(told') : payment'[told'[r].payment] # "none"
    <3>1. TAKE r \in 1 .. Len(told')
    <3>2. r \in 1 .. Len(told) \/ r = n
      BY <1>1, <2>2, <2>3
    <3>3. QED
      BY <1>1, <2>1, <2>3, <3>2
  <2>7. Unheard(q)'
    BY <1>4, <2>1, <2>2, NewIsUnheard
  <2>8. Real(q)'
    BY <1>1, <2>2, <2>3 DEF Real
  <2> HIDE DEF q
  <2>9. QED
    BY <1>1, <2>1, <2>2, <2>3, <2>4, <2>5, <2>6, <2>7, <2>8, BookGrows
<1>7. ASSUME NEW p \in Payments, E!ForceOffer(p)
      PROVE  EventInv'
  <2>1. /\ messageDialog.draft = E!NoDraft /\ payment[p] = "recorded"
        /\ E!Offer("payment", p, TRUE)
        /\ UNCHANGED <<mode, template, mobile, payment, told, campaign, messageDialog, sending>>
    BY <1>7 DEF E!ForceOffer, E!PageFree, E!world, E!book
  <2>2. DEFINE q == [what |-> "draft", kind |-> "payment", id |-> p, force |-> TRUE]
  <2>3. q \in Asking /\ requests' = Append(requests, q) /\ q.what = "draft"
        /\ requests' \in Seq(Asking) /\ Len(requests') <= MaxNotices
    BY <1>2, <2>1 DEF E!Kinds
  <2>4. EventTypes'
    BY <1>1, <2>1, <2>3 DEF EventTypes
  <2>5. Unheard(q)' /\ Real(q)'
    BY <2>1 DEF Unheard, Real
  <2> HIDE DEF q
  <2>6. QED
    BY <1>1, <2>1, <2>3, <2>4, <2>5, BookGrows
<1>8. ASSUME NEW p \in Payments, E!DeletePayment(p)
      PROVE  EventInv'
  <2>1. /\ messageDialog.draft = E!NoDraft
        /\ payment' = [payment EXCEPT ![p] = "deleted"]
        /\ UNCHANGED <<mode, template, mobile, told, campaign, requests, messageDialog, sending>>
    BY <1>8 DEF E!DeletePayment, E!PageFree, E!world
  <2>2. /\ payment' \in [Payments -> {"none", "recorded", "deleted"}]
        /\ \A o \in Payments : payment[o] # "none" => payment'[o] # "none"
    BY <1>1, <2>1
  <2>3. EventTypes'
    BY <1>1, <2>1, <2>2 DEF EventTypes
  <2>4. \A r \in 1 .. Len(told') : payment'[told'[r].payment] # "none"
    BY <1>1, <2>1, <2>2 DEF Issued
  <2>5. QED
    BY <1>1, <2>1, <2>2, <2>3, <2>4, BookGrows
<1>9. ASSUME NEW r \in 1 .. MaxTold, E!CancelReceipt(r)
      PROVE  EventInv'
  <2>1. /\ messageDialog.draft = E!NoDraft /\ r \in 1 .. Len(told)
        /\ told' = [told EXCEPT ![r].live = FALSE]
        /\ UNCHANGED <<mode, template, mobile, payment, campaign, requests, messageDialog,
                       sending>>
    BY <1>1, <1>9 DEF E!CancelReceipt, E!PageFree, E!world
  <2>2. [told[r] EXCEPT !.live = FALSE] \in Issued
    BY <1>1, <2>1 DEF Issued
  <2>3. told' \in Seq(Issued) /\ Len(told') = Len(told)
    BY <1>1, <2>1, <2>2, ExceptSeq
  <2>4. \A o \in 1 .. Len(told) : told'[o].payment = told[o].payment
    BY <1>1, <2>1 DEF Issued
  <2>5. EventTypes'
    BY <1>1, <2>1, <2>3 DEF EventTypes
  <2>6. QED
    BY <1>1, <2>1, <2>3, <2>4, <2>5, BookGrows
<1>10. ASSUME E!Change PROVE EventInv'
  <2>1. /\ messageDialog.draft = E!NoDraft
        /\ UNCHANGED <<payment, told, campaign, requests, messageDialog, sending>>
    BY <1>10 DEF E!Change, E!PageFree, E!book
  <2>2. mode' \in [E!Kinds -> E!NotifyModes] /\ template' \subseteq E!Kinds /\ mobile' \in BOOLEAN
    BY <1>1, <1>10 DEF E!Change, EventTypes
  <2>3. EventTypes'
    BY <1>1, <2>1, <2>2 DEF EventTypes
  <2>4. QED
    BY <1>1, <2>1, <2>3, BookGrows
<1>11. QED
  BY <1>5, <1>6, <1>7, <1>8, <1>9, <1>10

\* Steps of the dialog and of the main process that leave the records and the campaigns.
LEMMA DialogKeeps ==
    ASSUME EventInv,
           UNCHANGED <<mode, template, mobile, payment, told, campaign, sending>>,
           E!BuildNotification \/ E!ShowDraft \/ E!Send \/ E!CloseDialog
    PROVE  EventInv'
<1>1. /\ EventTypes /\ AllReal /\ OneSend /\ NothingTwice /\ ToldOnce
      /\ requests \in Seq(Asking) /\ Len(requests) \in Nat
      /\ \A k \in 1 .. Len(requests) : requests[k] \in Asking
      /\ Len(campaign) \in Nat /\ \A c \in 1 .. Len(campaign) : campaign[c] \in Sending
      /\ messageDialog \in [draft : Drafted \cup {E!NoDraft}, busy : BOOLEAN]
  BY EventLengths DEF EventInv, EventTypes
<1>2. Arrived' = Arrived /\ ToldOnce' /\ Arrived \subseteq 1 .. Len(campaign)
  BY <1>1 DEF Arrived, ToldOnce, E!ToldOnce, E!SameMoney
<1>3. ASSUME NEW q
      PROVE  /\ Real(q)' <=> Real(q)
             /\ Unheard(q)' <=> Unheard(q)
             /\ Untold(q)' <=> Untold(q)
  BY <1>2 DEF Real, Unheard, Untold, MoneyOf, E!SameMoney, E!Ref
<1>4. sending # 0 =>
         Untold([kind |-> campaign[sending].ref.kind, id |-> campaign[sending].ref.id,
                 force |-> campaign[sending].force])'
  BY <1>1, <1>3 DEF NothingTwice
<1>5. ASSUME requests # <<>>
      PROVE  /\ E!Request = requests[1] /\ requests[1] \in Asking /\ 1 \in 1 .. Len(requests)
             /\ Tail(requests) \in Seq(Asking) /\ Len(Tail(requests)) = Len(requests) - 1
             /\ Len(requests) >= 1
             /\ \A k \in 1 .. Len(Tail(requests)) :
                   Tail(requests)[k] = requests[k + 1] /\ k + 1 \in 1 .. Len(requests)
  BY <1>1, <1>5, HeadTailProperties, EmptySeq DEF E!Request
<1>6. CASE E!BuildNotification
  <2>1. /\ requests # <<>> /\ requests[1].what = "draft"
        /\ requests' =
              IF E!Decision(requests[1].kind, requests[1].id, requests[1].force) = "ask"
              THEN Append(Tail(requests), [requests[1] EXCEPT !.what = "member"])
              ELSE Tail(requests)
        /\ UNCHANGED messageDialog
    BY <1>5, <1>6 DEF E!BuildNotification
  <2>2. PICK q : q = [requests[1] EXCEPT !.what = "member"]
    OBVIOUS
  <2>3. /\ q \in Asking /\ q.what = "member" /\ q.kind = requests[1].kind
        /\ q.id = requests[1].id /\ q.force = requests[1].force
        /\ Real(q) /\ Unheard(q)
    BY <1>1, <1>5, <2>1, <2>2 DEF Asking, AllReal, Real, NothingTwice, Unheard, MoneyOf
  <2>4. ASSUME E!Decision(requests[1].kind, requests[1].id, requests[1].force) = "ask"
        PROVE  Untold(q)
    <3>1. SUFFICES ASSUME ~q.force, NEW c \in Arrived
                   PROVE  ~E!SameMoney(campaign[c].ref, MoneyOf(q))
      BY <2>3 DEF Untold
    <3>2. ~E!AlreadySent({E!Ref(q.kind, q.id)} \cup E!Facts(q.kind, q.id).covered)
      BY <2>3, <2>4, <3>1 DEF E!Decision
    <3>3. campaign[c].ref \notin {E!Ref(q.kind, q.id)} \cup E!Facts(q.kind, q.id).covered
      BY <1>1, <1>2, <3>2, EventLengths DEF E!AlreadySent
    <3>4. campaign[c].ref # E!Ref(q.kind, q.id)
      BY <3>3
    <3>5. CASE q.kind = "payment"
      BY <3>4, <3>5 DEF E!SameMoney, MoneyOf, E!Ref
    <3>6. CASE q.kind = "receipt"
      <4>1. campaign[c].ref # E!Ref("payment", told[q.id].payment)
        BY <3>3, <3>6 DEF E!Facts
      <4>2. campaign[c].ref \in Money
        BY <1>1, <1>2 DEF Sending
      <4>3. campaign[c].ref = [kind |-> campaign[c].ref.kind, id |-> campaign[c].ref.id]
        BY <4>2 DEF Money
      <4>4. QED
        BY <3>4, <3>6, <4>1, <4>3 DEF E!SameMoney, MoneyOf, E!Ref
    <3>7. QED
      BY <2>3, <3>5, <3>6 DEF Asking, E!Kinds
  <2>5. /\ requests' \in Seq(Asking) /\ Len(requests') <= Len(requests)
        /\ \A k \in 1 .. Len(requests') :
              \/ k + 1 \in 1 .. Len(requests) /\ requests'[k] = requests[k + 1]
              \/ requests'[k] = q /\ Untold(q)
    <3>1. CASE E!Decision(requests[1].kind, requests[1].id, requests[1].force) = "ask"
      <4>1. requests' = Append(Tail(requests), q)
        BY <2>1, <2>2, <3>1
      <4>2. /\ requests' \in Seq(Asking) /\ Len(requests') = Len(requests)
            /\ requests'[Len(requests)] = q
            /\ \A k \in 1 .. Len(requests) - 1 : requests'[k] = Tail(requests)[k]
        BY <1>1, <1>5, <2>1, <2>3, <4>1, AppendProperties
      <4>3. \A k \in 1 .. Len(requests) : k \in 1 .. Len(requests) - 1 \/ k = Len(requests)
        BY <1>1
      <4>4. \A k \in 1 .. Len(requests) - 1 :
               requests'[k] = requests[k + 1] /\ k + 1 \in 1 .. Len(requests)
        BY <1>5, <2>1, <4>2
      <4>5. QED
        BY <2>4, <3>1, <4>2, <4>3, <4>4
    <3>2. CASE ~(E!Decision(requests[1].kind, requests[1].id, requests[1].force) = "ask")
      BY <1>1, <1>5, <2>1, <3>2
    <3>3. QED
      BY <3>1, <3>2
  <2>6. EventTypes'
    BY <1>1, <2>1, <2>5, LenProperties, MessagesGiven DEF EventTypes
  <2>7. AllReal'
    BY <1>1, <1>3, <2>1, <2>3, <2>5 DEF AllReal
  <2>8. OneSend'
    <3>1. ASSUME NEW k \in 1 .. Len(requests'), requests'[k].what = "send"
          PROVE  k + 1 \in 1 .. Len(requests) /\ requests[k + 1].what = "send"
      BY <2>3, <2>5, <3>1
    <3>2. ASSUME NEW k \in 1 .. Len(requests'), requests'[k].what = "send",
                 NEW j \in 1 .. Len(requests'), requests'[j].what = "send"
          PROVE  j = k
      <4>1. k + 1 = j + 1
        BY <1>1, <3>1, <3>2 DEF OneSend
      <4>2. k \in Nat /\ j \in Nat
        BY <2>5, LenProperties
      <4>3. QED
        BY <4>1, <4>2
    <3>3. QED
      BY <1>1, <2>1, <3>1, <3>2 DEF OneSend
  <2>9. NothingTwice'
    <3>1. ASSUME NEW k \in 1 .. Len(requests')
          PROVE  Unheard(requests'[k]) /\ (requests'[k].what # "draft" => Untold(requests'[k]))
      <4>1. CASE k + 1 \in 1 .. Len(requests) /\ requests'[k] = requests[k + 1]
        BY <1>1, <4>1 DEF NothingTwice
      <4>2. CASE requests'[k] = q /\ Untold(q)
        BY <2>3, <4>2
      <4>3. QED
        BY <2>5, <4>1, <4>2
    <3>2. QED
      BY <1>1, <1>3, <1>4, <2>1, <3>1 DEF NothingTwice
  <2>10. QED
    BY <1>2, <2>6, <2>7, <2>8, <2>9 DEF EventInv
<1>7. CASE E!ShowDraft
  <2>1. /\ requests # <<>> /\ requests[1].what = "member" /\ requests' = Tail(requests)
        /\ messageDialog' = [messageDialog EXCEPT !.draft =
              [kind |-> requests[1].kind, id |-> requests[1].id, force |-> requests[1].force]]
    BY <1>5, <1>7 DEF E!ShowDraft
  <2>2. PICK d : d = [kind |-> requests[1].kind, id |-> requests[1].id,
                      force |-> requests[1].force]
    OBVIOUS
  <2>3. d \in Drafted /\ Real(d) /\ Untold(d)
    BY <1>1, <1>5, <2>1, <2>2 DEF Asking, Drafted, AllReal, Real, NothingTwice, Untold, Unheard,
                                  MoneyOf
  <2>4. messageDialog'.draft = d /\ messageDialog'.busy = messageDialog.busy
        /\ messageDialog' \in [draft : Drafted \cup {E!NoDraft}, busy : BOOLEAN]
    BY <1>1, <2>1, <2>2, <2>3
  <2>5. /\ requests' \in Seq(Asking) /\ Len(requests') = Len(requests) - 1
        /\ \A k \in 1 .. Len(requests') :
              k + 1 \in 1 .. Len(requests) /\ requests'[k] = requests[k + 1]
    BY <1>5, <2>1
  <2>6. EventTypes'
    BY <1>1, <2>4, <2>5, MessagesGiven DEF EventTypes
  <2>7. AllReal'
    BY <1>1, <1>3, <2>3, <2>4, <2>5 DEF AllReal
  <2>8. OneSend'
    <3>1. ASSUME NEW k \in 1 .. Len(requests'), requests'[k].what = "send",
                 NEW j \in 1 .. Len(requests'), requests'[j].what = "send"
          PROVE  j = k
      <4>1. k + 1 = j + 1
        BY <1>1, <2>5, <3>1 DEF OneSend
      <4>2. k \in Nat /\ j \in Nat
        OBVIOUS
      <4>3. QED
        BY <4>1, <4>2
    <3>2. QED
      BY <1>1, <2>4, <2>5, <3>1 DEF OneSend
  <2>9. NothingTwice'
    BY <1>1, <1>3, <1>4, <2>3, <2>4, <2>5 DEF NothingTwice
  <2>10. QED
    BY <1>2, <2>6, <2>7, <2>8, <2>9 DEF EventInv
<1>8. CASE E!Send
  <2>1. PICK q : q = [what |-> "send", kind |-> messageDialog.draft.kind,
                      id |-> messageDialog.draft.id, force |-> messageDialog.draft.force]
    OBVIOUS
  <2>2. /\ messageDialog.draft # E!NoDraft /\ ~messageDialog.busy
        /\ Len(campaign) < MaxSends /\ Len(requests) < MaxNotices
        /\ requests' = Append(requests, q)
        /\ messageDialog' = [messageDialog EXCEPT !.busy = TRUE]
    BY <1>8, <2>1 DEF E!Send, E!Ask
  <2>3. q \in Asking /\ q.what = "send" /\ Real(q) /\ Untold(q)
    BY <1>1, <2>1, <2>2 DEF Asking, Drafted, AllReal, Real, NothingTwice, Untold, Unheard,
                            MoneyOf
  <2>4. /\ requests' \in Seq(Asking) /\ Len(requests') = Len(requests) + 1
        /\ requests'[Len(requests) + 1] = q
        /\ \A k \in 1 .. Len(requests) : requests'[k] = requests[k]
    BY <1>1, <2>2, <2>3, AppendProperties
  <2>5. \A k \in 1 .. Len(requests') :
           \/ k \in 1 .. Len(requests) /\ requests'[k] = requests[k]
           \/ k = Len(requests) + 1 /\ requests'[k] = q
    BY <1>1, <2>4
  <2>6. messageDialog'.draft = messageDialog.draft /\ messageDialog'.busy
        /\ messageDialog' \in [draft : Drafted \cup {E!NoDraft}, busy : BOOLEAN]
    BY <1>1, <2>2
  <2>7. EventTypes'
    BY <1>1, <2>2, <2>4, <2>6, MessagesGiven DEF EventTypes
  <2>8. AllReal'
    BY <1>1, <1>3, <2>3, <2>5, <2>6 DEF AllReal
  <2>9. OneSend'
    <3>1. sending = 0 /\ \A k \in 1 .. Len(requests) : requests[k].what # "send"
      BY <1>1, <2>2 DEF OneSend
    <3>2. QED
      BY <2>2, <2>5, <2>6, <3>1 DEF OneSend
  <2>10. NothingTwice'
    BY <1>1, <1>3, <1>4, <2>3, <2>5, <2>6 DEF NothingTwice, Untold
  <2>11. QED
    BY <1>2, <2>7, <2>8, <2>9, <2>10 DEF EventInv
<1>9. CASE E!CloseDialog
  <2>1. /\ messageDialog' = [messageDialog EXCEPT !.draft = E!NoDraft] /\ UNCHANGED requests
        /\ messageDialog' \in [draft : Drafted \cup {E!NoDraft}, busy : BOOLEAN]
    BY <1>1, <1>9 DEF E!CloseDialog
  <2>2. messageDialog'.draft = E!NoDraft /\ messageDialog'.busy = messageDialog.busy
    BY <1>1, <2>1
  <2>3. EventTypes'
    BY <1>1, <2>1 DEF EventTypes
  <2>4. AllReal' /\ OneSend' /\ NothingTwice'
    BY <1>1, <1>3, <1>4, <2>1, <2>2 DEF AllReal, OneSend, NothingTwice
  <2>5. QED
    BY <1>2, <2>3, <2>4 DEF EventInv
<1>10. QED
  BY <1>6, <1>7, <1>8, <1>9

\* The campaign begins: it exists, it has not arrived.
LEMMA BeginKeeps ==
    ASSUME EventInv, E!BeginSend
    PROVE  EventInv'
<1>1. /\ EventTypes /\ AllReal /\ OneSend /\ NothingTwice /\ ToldOnce
      /\ requests \in Seq(Asking) /\ Len(requests) \in Nat
      /\ \A k \in 1 .. Len(requests) : requests[k] \in Asking
      /\ campaign \in Seq(Sending) /\ Len(campaign) \in Nat
      /\ \A c \in 1 .. Len(campaign) : campaign[c] \in Sending
      /\ messageDialog \in [draft : Drafted \cup {E!NoDraft}, busy : BOOLEAN]
      /\ DOMAIN campaign = 1 .. Len(campaign)
  BY EventLengths DEF EventInv, EventTypes
<1>2. PICK q : q = requests[1]
  OBVIOUS
<1>3. /\ requests # <<>> /\ q.what = "send" /\ requests' = Tail(requests)
      /\ q \in Asking /\ 1 \in 1 .. Len(requests)
      /\ Tail(requests) \in Seq(Asking) /\ Len(Tail(requests)) = Len(requests) - 1
      /\ \A k \in 1 .. Len(Tail(requests)) :
            Tail(requests)[k] = requests[k + 1] /\ k + 1 \in 1 .. Len(requests)
  BY <1>1, <1>2, HeadTailProperties, EmptySeq DEF E!BeginSend, E!Request
<1>4. /\ campaign' = Append(campaign, [ref |-> E!Ref(q.kind, q.id), force |-> q.force,
                                       ok |-> FALSE])
      /\ sending' = IF mobile THEN Len(campaign') ELSE 0
      /\ messageDialog' = IF mobile THEN messageDialog ELSE [messageDialog EXCEPT !.busy = FALSE]
      /\ UNCHANGED <<mode, template, mobile, payment, told>>
  BY <1>1, <1>2, <1>3, HeadTailProperties DEF E!BeginSend, E!Request, E!world, E!book
<1>5. PICK row \in Sending : row = [ref |-> E!Ref(q.kind, q.id), force |-> q.force, ok |-> FALSE]
  BY <1>3 DEF Sending, Money, Asking, E!Ref
<1>6. /\ campaign' \in Seq(Sending) /\ Len(campaign') = Len(campaign) + 1
      /\ campaign'[Len(campaign) + 1] = row
      /\ \A c \in 1 .. Len(campaign) : campaign'[c] = campaign[c]
      /\ DOMAIN campaign' = 1 .. Len(campaign')
  BY <1>1, <1>4, <1>5, AppendProperties, LenProperties
<1>7. \A c \in 1 .. Len(campaign') : c \in 1 .. Len(campaign) \/ c = Len(campaign) + 1
  BY <1>1, <1>6
<1>8. Arrived' = Arrived /\ Arrived \subseteq 1 .. Len(campaign)
  BY <1>1, <1>5, <1>6, <1>7 DEF Arrived
<1>9. ASSUME NEW o
      PROVE  /\ Real(o)' <=> Real(o)
             /\ Unheard(o)' <=> Unheard(o)
             /\ Untold(o)' <=> Untold(o)
  BY <1>4, <1>6, <1>8 DEF Real, Unheard, Untold, MoneyOf, E!SameMoney, E!Ref
<1>10. Real(q) /\ Untold(q)
  BY <1>1, <1>2, <1>3 DEF AllReal, NothingTwice
<1>11. \A k \in 1 .. Len(requests') : k + 1 \in 1 .. Len(requests)
                                      /\ requests'[k] = requests[k + 1]
  BY <1>3
<1>12. \A k \in 1 .. Len(requests') : requests'[k].what # "send"
  <2>1. TAKE k \in 1 .. Len(requests')
  <2>2. k + 1 # 1
    OBVIOUS
  <2>3. QED
    BY <1>1, <1>2, <1>3, <1>11, <2>2 DEF OneSend
<1>13. /\ messageDialog' \in [draft : Drafted \cup {E!NoDraft}, busy : BOOLEAN]
       /\ messageDialog'.draft = messageDialog.draft
       /\ mobile => messageDialog' = messageDialog
  BY <1>1, <1>4
<1>14. Len(campaign) < MaxSends /\ messageDialog.busy
  BY <1>1, <1>2, <1>3 DEF OneSend
<1>15. EventTypes'
  BY <1>1, <1>3, <1>4, <1>6, <1>13, <1>14, MessagesGiven DEF EventTypes
<1>16. AllReal'
  <2>1. row.ref.kind = q.kind /\ row.ref.id = q.id
    BY <1>5 DEF E!Ref
  <2>2. Real(row.ref)'
    BY <1>9, <1>10, <2>1 DEF Real
  <2>3. QED
    BY <1>1, <1>4, <1>6, <1>7, <1>9, <1>11, <1>13, <2>2 DEF AllReal
<1>17. OneSend'
  BY <1>4, <1>12, <1>13, <1>14 DEF OneSend
<1>18. NothingTwice'
  <2>1. \A k \in 1 .. Len(requests') :
           /\ Unheard(requests'[k]) /\ (requests'[k].what # "draft" => Untold(requests'[k]))
    BY <1>1, <1>11 DEF NothingTwice
  <2>2. messageDialog.draft # E!NoDraft => Untold(messageDialog.draft)
    BY <1>1 DEF NothingTwice
  <2>3. (sending # 0 =>
           Untold([kind |-> campaign[sending].ref.kind, id |-> campaign[sending].ref.id,
                   force |-> campaign[sending].force]))'
    <3>1. SUFFICES ASSUME sending' = Len(campaign) + 1
                   PROVE  Untold([kind |-> row.ref.kind, id |-> row.ref.id,
                                  force |-> row.force])'
      BY <1>4, <1>6
    <3>2. row.ref.kind = q.kind /\ row.ref.id = q.id /\ row.force = q.force
      BY <1>5 DEF E!Ref
    <3>3. Untold([kind |-> row.ref.kind, id |-> row.ref.id, force |-> row.force])
      BY <1>10, <3>2 DEF Untold, Unheard, MoneyOf
    <3>4. QED
      BY <1>9, <3>3
  <2>4. QED
    BY <1>9, <1>13, <2>1, <2>2, <2>3 DEF NothingTwice
<1>19. ToldOnce'
  <2>1. \A i, j \in Arrived : i # j => ~E!SameMoney(campaign[i].ref, campaign[j].ref)
    BY <1>1 DEF Arrived, ToldOnce, E!ToldOnce
  <2>2. (\A i, j \in Arrived : i # j => ~E!SameMoney(campaign[i].ref, campaign[j].ref))'
    BY <1>4, <1>6, <1>8, <2>1 DEF E!SameMoney
  <2>3. QED
    BY <1>6, <2>2 DEF Arrived, ToldOnce, E!ToldOnce
<1>20. QED
  BY <1>15, <1>16, <1>17, <1>18, <1>19 DEF EventInv
\* It ends: when the message arrived its draft is gone, and none is on its way.
LEMMA EndKeeps ==
    ASSUME EventInv, NEW ok \in BOOLEAN, E!EndSend(ok)
    PROVE  EventInv'
<1>1. /\ EventTypes /\ AllReal /\ OneSend /\ NothingTwice /\ ToldOnce
      /\ campaign \in Seq(Sending) /\ Len(campaign) \in Nat
      /\ \A c \in 1 .. Len(campaign) : campaign[c] \in Sending
      /\ messageDialog \in [draft : Drafted \cup {E!NoDraft}, busy : BOOLEAN]
      /\ DOMAIN campaign = 1 .. Len(campaign)
  BY EventLengths DEF EventInv, EventTypes
<1>2. /\ sending \in 1 .. Len(campaign) /\ requests = <<>> /\ requests' = <<>> /\ sending' = 0
      /\ campaign' = [campaign EXCEPT ![sending].ok = ok]
      /\ messageDialog' = [draft |-> IF ok THEN E!NoDraft ELSE messageDialog.draft,
                           busy |-> FALSE]
      /\ UNCHANGED <<mode, template, mobile, payment, told>>
  BY <1>1 DEF E!EndSend, E!world, E!book, EventTypes
<1>3. PICK row \in Sending : row = [campaign[sending] EXCEPT !.ok = ok]
  BY <1>1, <1>2 DEF Sending
<1>4. /\ row.ref = campaign[sending].ref /\ row.force = campaign[sending].force /\ row.ok = ok
  BY <1>1, <1>2, <1>3 DEF Sending
<1>5. campaign' = [campaign EXCEPT ![sending] = row]
  BY <1>1, <1>2, <1>3
<1>6. /\ campaign' \in Seq(Sending) /\ Len(campaign') = Len(campaign)
      /\ DOMAIN campaign' = 1 .. Len(campaign')
  <2>1. campaign' \in Seq(Sending) /\ Len(campaign') = Len(campaign)
    BY <1>1, <1>2, <1>5, ExceptSeq
  <2>2. QED
    BY <2>1, LenProperties
<1>7. \A c \in 1 .. Len(campaign) :
         campaign'[c].ref = campaign[c].ref /\ campaign'[c].force = campaign[c].force
  BY <1>1, <1>2, <1>4, <1>5
<1>8. \A c \in Arrived' : c \in Arrived \/ (c = sending /\ ok /\ ~campaign[sending].force)
  BY <1>1, <1>2, <1>4, <1>5, <1>6, <1>7 DEF Arrived
<1>9. Arrived \subseteq 1 .. Len(campaign) /\ Arrived' \subseteq 1 .. Len(campaign)
  BY <1>6 DEF Arrived
<1>10. Len(requests') = 0 /\ requests' \in Seq(Asking)
  BY <1>2, EmptySeq
<1>11. EventTypes'
  BY <1>1, <1>2, <1>6, <1>10, MessagesGiven DEF EventTypes
<1>12. AllReal'
  BY <1>1, <1>2, <1>6, <1>7, <1>10 DEF AllReal, Real
<1>13. OneSend'
  BY <1>2, <1>10 DEF OneSend
<1>14. NothingTwice'
  <2>1. SUFFICES ASSUME messageDialog'.draft # E!NoDraft
                 PROVE  Untold(messageDialog.draft)'
    BY <1>2, <1>10 DEF NothingTwice
  <2>2. ok = FALSE /\ messageDialog'.draft = messageDialog.draft
    BY <1>2, <2>1
  <2>3. Untold(messageDialog.draft)
    BY <1>1, <2>1, <2>2 DEF NothingTwice
  <2>4. \A c \in Arrived' : c \in Arrived /\ campaign'[c].ref = campaign[c].ref
    BY <1>7, <1>8, <1>9, <2>2
  <2>5. QED
    BY <1>2, <2>2, <2>3, <2>4 DEF Untold, Unheard, MoneyOf, E!SameMoney, E!Ref
<1>15. ToldOnce'
  <2>1. \A i, j \in Arrived : i # j => ~E!SameMoney(campaign[i].ref, campaign[j].ref)
    BY <1>1 DEF Arrived, ToldOnce, E!ToldOnce
  <2>2. ASSUME ~campaign[sending].force, NEW c \in Arrived
        PROVE  /\ ~E!SameMoney(campaign[sending].ref, campaign[c].ref)
               /\ ~E!SameMoney(campaign[c].ref, campaign[sending].ref)
    <3>1. Untold([kind |-> campaign[sending].ref.kind, id |-> campaign[sending].ref.id,
                  force |-> campaign[sending].force])
      BY <1>1, <1>2 DEF NothingTwice
    <3>2. campaign[sending].ref = E!Ref(campaign[sending].ref.kind, campaign[sending].ref.id)
      BY <1>1, <1>2 DEF Sending, Money, E!Ref
    <3>3. QED
      BY <2>2, <3>1, <3>2 DEF Untold, Unheard, MoneyOf
  <2>3. \A i, j \in Arrived' : i # j => ~E!SameMoney(campaign[i].ref, campaign[j].ref)
    BY <1>8, <2>1, <2>2
  <2>4. (\A i, j \in Arrived : i # j => ~E!SameMoney(campaign[i].ref, campaign[j].ref))'
    BY <1>2, <1>7, <1>9, <2>3 DEF E!SameMoney
  <2>5. QED
    BY <1>6, <2>4 DEF Arrived, ToldOnce, E!ToldOnce
<1>16. QED
  BY <1>11, <1>12, <1>13, <1>14, <1>15 DEF EventInv

LEMMA EventStays == EventInv /\ [E!Next]_E!vars => EventInv'
<1>1. SUFFICES ASSUME EventInv, [E!Next]_E!vars PROVE EventInv'
  OBVIOUS
<1>2. CASE UNCHANGED E!vars
  <2>1. UNCHANGED <<mode, template, mobile, payment, told, campaign, requests, messageDialog,
                    sending>>
    BY <1>2 DEF E!vars
  <2>2. QED
    <3>1. EventTypes' /\ OneSend'
      BY <1>1, <2>1 DEF EventInv, EventTypes, OneSend
    <3>2. AllReal'
      BY <1>1, <2>1 DEF EventInv, AllReal, Real
    <3>3. Arrived' = Arrived
      BY <2>1 DEF Arrived
    <3>4. NothingTwice'
      BY <1>1, <2>1, <3>3 DEF EventInv, NothingTwice, Unheard, Untold, MoneyOf, E!SameMoney
    <3>5. ToldOnce'
      BY <1>1, <2>1 DEF EventInv, ToldOnce, E!ToldOnce, E!SameMoney
    <3>6. QED
      BY <3>1, <3>2, <3>4, <3>5 DEF EventInv
<1>3. CASE E!BuildNotification \/ E!ShowDraft \/ E!Send \/ E!CloseDialog
  <2>1. UNCHANGED <<mode, template, mobile, payment, told, campaign, sending>>
    BY <1>3 DEF E!BuildNotification, E!ShowDraft, E!Send, E!CloseDialog, E!world, E!book
  <2>2. QED
    BY <1>1, <1>3, <2>1, DialogKeeps
<1>4. QED
  BY <1>1, <1>2, <1>3, PagesKeep, BeginKeeps, EndKeeps DEF E!Next

\* At most one message is being sent, for the dialog that is busy, and of what is shown no
\* message has arrived, in every state (useEventNotification, SendOneDialog).
THEOREM EventsHold == E!Spec => []EventInv
  BY EventStarts, EventStays, PTL DEF E!Spec

\* One action, one message: nobody is told twice of the same money, although the check runs
\* when the draft is built and the mark is written when the message is sent (decideNotify,
\* campaigns:sendOne).
THEOREM ToldOnlyOnce == E!Spec => []ToldOnce
<1>1. EventInv => ToldOnce
  BY DEF EventInv
<1>2. QED
  BY <1>1, EventsHold, PTL

-----------------------------------------------------------------------------
(* Members and the dialog that edits them: MemberRegister.                     *)

\* A member and what the dialog holds; the contents play no part.
Registered(R) == [number : R, name : R, mobile : R, phone : R]
Filled(R) == [open : BOOLEAN, mode : R, id : R, name : R, mobile : R, stored : R]

RegisterTypes ==
    /\ \E R : member \in Seq(Registered(R))
    /\ \E R : memberDialog \in Filled(R)
    /\ memberSetting.code \in Codes

\* No page changes a member while the dialog is open: what it opened with is what is stored.
StoredIsKept ==
    memberDialog.open /\ memberDialog.id # 0 =>
        /\ memberDialog.id \in DOMAIN member
        /\ memberDialog.stored = member[memberDialog.id].name

RegisterInv == RegisterTypes /\ StoredIsKept

\* A number is of the mobile as it reads now, and without a mobile there is none.
NumberOf(row) ==
    /\ row.mobile = <<>> => row.phone.status = "missing"
    /\ row.phone.status = "valid" =>
          \E code \in Codes : row.phone.e164 = M!NormalizeMobile(row.mobile, code).e164
NumbersFollow == \A i \in DOMAIN member : NumberOf(member[i])

LEMMA SeqWidens ==
    ASSUME NEW A, NEW B, A \subseteq B, NEW s \in Seq(A)
    PROVE  s \in Seq(B)
  OBVIOUS

LEMMA RegisterWidens ==
    ASSUME NEW A, NEW B
    PROVE  /\ Seq(Registered(A)) \subseteq Seq(Registered(A \cup B))
           /\ Filled(A) \subseteq Filled(A \cup B)
<1>1. Registered(A) \subseteq Registered(A \cup B)
  BY DEF Registered
<1>2. \A s \in Seq(Registered(A)) : s \in Seq(Registered(A \cup B))
  BY <1>1, SeqWidens
<1>3. Filled(A) \subseteq Filled(A \cup B)
  BY DEF Filled
<1>4. QED
  BY <1>2, <1>3

LEMMA RegisterLengths ==
    ASSUME NEW R, member \in Seq(Registered(R))
    PROVE  /\ Len(member) \in Nat /\ DOMAIN member = 1 .. Len(member)
           /\ \A i \in DOMAIN member : member[i] \in Registered(R)
  BY LenProperties, ElementOfSeq

\* A row is put at the end, one row is written, or each is derived anew.
LEMMA RowAdded ==
    ASSUME NEW R, member \in Seq(Registered(R)), NEW row \in Registered(R),
           member' = Append(member, row)
    PROVE  /\ member' \in Seq(Registered(R))
           /\ DOMAIN member \subseteq DOMAIN member'
           /\ \A i \in DOMAIN member : member'[i] = member[i]
           /\ \A i \in DOMAIN member' : i \in DOMAIN member \/ member'[i] = row
  BY AppendProperties, RegisterLengths

LEMMA RowWritten ==
    ASSUME NEW R, member \in Seq(Registered(R)), NEW row \in Registered(R),
           NEW i \in DOMAIN member, member' = [member EXCEPT ![i] = row]
    PROVE  /\ member' \in Seq(Registered(R))
           /\ DOMAIN member = DOMAIN member' /\ member'[i] = row
           /\ \A k \in DOMAIN member : k # i => member'[k] = member[k]
<1>1. Len(member) \in Nat /\ DOMAIN member = 1 .. Len(member)
  BY RegisterLengths
<1>2. member' \in Seq(Registered(R)) /\ Len(member') = Len(member)
  BY <1>1, ExceptSeq
<1>3. QED
  BY <1>1, <1>2

\* What a member's save writes: a row with the number's new derivation.
LEMMA DerivedFollows ==
    ASSUME memberSetting.code \in Codes, NEW row, NEW typed,
           row.mobile = typed, row.phone = M!Derived(typed)
    PROVE  NumberOf(row)
<1>1. M!NormalizeMobile(<<>>, memberSetting.code).status = "missing"
  BY DEF M!NormalizeMobile, M!Result
<1>2. QED
  BY <1>1 DEF NumberOf, M!Derived

NameSaved == M!NameForSave(memberDialog.mode, memberDialog.name, memberDialog.stored)

\* What a save does to the register: the dialog's member gets what was typed.
LEMMA SavedRow ==
    ASSUME RegisterInv, M!Save
    PROVE  \E R : \E row \in Registered(R) :
             /\ row.name = NameSaved /\ NumberOf(row) /\ member \in Seq(Registered(R))
             /\ \/ memberDialog.id = 0 /\ member' = Append(member, row)
                \/ /\ memberDialog.id # 0
                   /\ member' = [member EXCEPT ![memberDialog.id] = row]
<1>1. PICK R : member \in Seq(Registered(R))
  BY DEF RegisterInv, RegisterTypes
<1>2. PICK typed, phone : typed = NameSaved /\ phone = M!Derived(memberDialog.mobile)
  OBVIOUS
<1>3. PICK A : A = R \cup {typed, phone, memberDialog.mobile, sequence}
  OBVIOUS
<1>4. member \in Seq(Registered(A))
  BY <1>1, <1>3, RegisterWidens
<1>5. CASE memberDialog.id = 0
  <2>1. PICK row : row = [number |-> sequence, name |-> typed, mobile |-> memberDialog.mobile,
                          phone |-> phone]
    OBVIOUS
  <2>2. member' = Append(member, row)
    BY <1>2, <1>5, <2>1 DEF M!Save, M!CreateMember, NameSaved
  <2>3. /\ row \in Registered(A) /\ row.name = typed
        /\ row.mobile = memberDialog.mobile /\ row.phone = phone
    BY <1>3, <2>1 DEF Registered
  <2>4. NumberOf(row)
    BY <1>2, <2>3, DerivedFollows DEF RegisterInv, RegisterTypes
  <2>5. QED
    BY <1>2, <1>4, <1>5, <2>2, <2>3, <2>4
<1>6. CASE memberDialog.id # 0
  <2>1. PICK i : i = memberDialog.id
    OBVIOUS
  <2>2. i \in DOMAIN member /\ member[i] \in Registered(A)
    BY <1>4, <1>6, <2>1, RegisterLengths DEF RegisterInv, StoredIsKept, M!Save
  <2>3. PICK row : row = [member[i] EXCEPT !.name = typed, !.mobile = memberDialog.mobile,
                                           !.phone = phone]
    OBVIOUS
  <2>4. /\ row \in Registered(A) /\ row.name = typed
        /\ row.mobile = memberDialog.mobile /\ row.phone = phone
    BY <1>3, <2>2, <2>3 DEF Registered
  <2>5. member' = [member EXCEPT ![i].name = typed, ![i].mobile = memberDialog.mobile,
                                 ![i].phone = phone]
    BY <1>2, <1>6, <2>1 DEF M!Save, M!UpdateMember, NameSaved
  <2>6. member' = [member EXCEPT ![i] = row]
    BY <2>2, <2>3, <2>5
  <2>7. NumberOf(row)
    BY <1>2, <2>4, DerivedFollows DEF RegisterInv, RegisterTypes
  <2>8. QED
    BY <1>2, <1>4, <1>6, <2>1, <2>4, <2>6, <2>7
<1>7. QED
  BY <1>5, <1>6

\* An imported row has no number yet; a known one keeps its number, and only overwriting
\* (upsert) gives a member with a mobile another one.
LEMMA ImportedRow ==
    ASSUME RegisterInv, M!ImportMember
    PROVE  \E R : \E row \in Registered(R) :
             NumberOf(row) /\ member \in Seq(Registered(R)) /\ member' = Append(member, row)
<1>1. PICK R : member \in Seq(Registered(R))
  BY DEF RegisterInv, RegisterTypes
<1>2. PICK number \in SheetNumbers, name \in MemberNames, typed \in Texts :
        member' = Append(member, [number |-> number, name |-> name, mobile |-> typed,
                                  phone |-> M!Result(M!NoNumber, "missing", "")])
  BY DEF M!ImportMember
<1>3. PICK phone : phone = M!Result(M!NoNumber, "missing", "")
  OBVIOUS
<1>4. PICK row : row = [number |-> number, name |-> name, mobile |-> typed, phone |-> phone]
  OBVIOUS
<1>5. PICK A : A = R \cup {number, name, typed, phone}
  OBVIOUS
<1>6. row \in Registered(A) /\ member \in Seq(Registered(A)) /\ row.phone = phone
  BY <1>1, <1>4, <1>5, RegisterWidens DEF Registered
<1>7. NumberOf(row)
  <2>1. phone.status = "missing"
    BY <1>3 DEF M!Result
  <2>2. QED
    BY <1>6, <2>1 DEF NumberOf
<1>8. QED
  BY <1>2, <1>3, <1>4, <1>6, <1>7

LEMMA KnownRow ==
    ASSUME RegisterInv, M!ImportKnownMember
    PROVE  \E R : \E row \in Registered(R), i \in DOMAIN member :
             /\ member \in Seq(Registered(R)) /\ member' = [member EXCEPT ![i] = row]
             /\ "upsert" \notin ImportModes /\ NumberOf(member[i]) => NumberOf(row)
<1>1. PICK R : member \in Seq(Registered(R))
  BY DEF RegisterInv, RegisterTypes
<1>2. PICK i \in DOMAIN member, how \in ImportModes, name \in MemberNames, typed \in Texts :
        /\ how # "insert_only"
        /\ LET old == member[i]
               fills(was, cell) == cell # <<>> /\ (how = "upsert" \/ was = <<>>)
           IN  member' = [member EXCEPT
                   ![i].mobile = IF fills(old.mobile, typed) THEN typed ELSE @,
                   ![i].name = [first |-> IF fills(old.name.first, name.first)
                                          THEN name.first ELSE old.name.first,
                                last |-> IF fills(old.name.last, name.last)
                                         THEN name.last ELSE old.name.last]]
  BY DEF M!ImportKnownMember, M!Ids
<1>3. PICK m, n :
        /\ m = IF typed # <<>> /\ (how = "upsert" \/ member[i].mobile = <<>>)
               THEN typed ELSE member[i].mobile
        /\ n = [first |-> IF name.first # <<>>
                             /\ (how = "upsert" \/ member[i].name.first = <<>>)
                          THEN name.first ELSE member[i].name.first,
                last |-> IF name.last # <<>>
                            /\ (how = "upsert" \/ member[i].name.last = <<>>)
                         THEN name.last ELSE member[i].name.last]
  OBVIOUS
<1>4. PICK A : A = R \cup {m, n}
  OBVIOUS
<1>5. member \in Seq(Registered(A)) /\ member[i] \in Registered(A) /\ m \in A /\ n \in A
  BY <1>1, <1>4, RegisterWidens, RegisterLengths
<1>6. PICK row : row = [member[i] EXCEPT !.mobile = m, !.name = n]
  OBVIOUS
<1>7. row \in Registered(A) /\ row.mobile = m /\ row.phone = member[i].phone
  BY <1>5, <1>6 DEF Registered
<1>8. member' = [member EXCEPT ![i].mobile = m, ![i].name = n]
  BY <1>2, <1>3
<1>9. member' = [member EXCEPT ![i] = row]
  BY <1>6, <1>8
<1>10. ASSUME "upsert" \notin ImportModes, NumberOf(member[i])
       PROVE  NumberOf(row)
  <2>1. how # "upsert"
    BY <1>10
  <2>2. m = member[i].mobile \/ (member[i].mobile = <<>> /\ m # <<>>)
    BY <1>3, <2>1
  <2>3. QED
    BY <1>7, <1>10, <2>2 DEF NumberOf
<1>11. QED
  BY <1>5, <1>7, <1>9, <1>10

\* A start derives what was never derived.
LEMMA StartedRows ==
    ASSUME RegisterInv, M!Start
    PROVE  \E R :
             /\ member' \in Seq(Registered(R)) /\ DOMAIN member' = DOMAIN member
             /\ \A i \in DOMAIN member :
                   /\ member'[i].name = member[i].name
                   /\ NumberOf(member[i]) => NumberOf(member'[i])
<1>1. PICK R : member \in Seq(Registered(R))
  BY DEF RegisterInv, RegisterTypes
<1>2. PICK D : \A i \in DOMAIN member : M!Derived(member[i].mobile) \in D
  <2>1. \A i \in DOMAIN member :
          M!Derived(member[i].mobile) \in {M!Derived(member[k].mobile) : k \in DOMAIN member}
    OBVIOUS
  <2>2. QED
    BY <2>1
<1>3. PICK A : A = R \cup D
  OBVIOUS
<1>4. /\ member \in Seq(Registered(A)) /\ Len(member) \in Nat /\ DOMAIN member = 1 .. Len(member)
      /\ \A i \in DOMAIN member : member[i] \in Registered(A)
  BY <1>1, <1>3, RegisterWidens, RegisterLengths
<1>5. member' = [i \in DOMAIN member |->
                   IF M!NeverDerived(member[i])
                   THEN [member[i] EXCEPT !.phone = M!Derived(member[i].mobile)]
                   ELSE member[i]]
  BY DEF M!Start, M!Ids
<1>6. ASSUME NEW i \in DOMAIN member
      PROVE  /\ member'[i] \in Registered(A) /\ member'[i].name = member[i].name
             /\ NumberOf(member[i]) => NumberOf(member'[i])
  <2>1. PICK d : d = M!Derived(member[i].mobile)
    OBVIOUS
  <2>2. d \in A
    BY <1>2, <1>3, <2>1
  <2>3. PICK row : row = [member[i] EXCEPT !.phone = d]
    OBVIOUS
  <2>4. /\ row \in Registered(A) /\ row.name = member[i].name
        /\ row.mobile = member[i].mobile /\ row.phone = d
    BY <1>4, <2>2, <2>3 DEF Registered
  <2>5. NumberOf(row)
    BY <2>1, <2>4, DerivedFollows DEF RegisterInv, RegisterTypes
  <2>6. member'[i] = row \/ member'[i] = member[i]
    BY <1>5, <2>1, <2>3
  <2>7. QED
    BY <1>4, <2>4, <2>5, <2>6
<1>7. DOMAIN member' = DOMAIN member
  BY <1>5
<1>8. member' \in Seq(Registered(A))
  BY <1>4, <1>5, <1>6, <1>7
<1>9. QED
  BY <1>6, <1>7, <1>8

\* The dialog stays open about the same member, whose name nothing changed.
LEMMA DialogStays ==
    ASSUME RegisterInv, UNCHANGED <<member, memberSetting>>,
           \E R : memberDialog' \in Filled(R),
           memberDialog'.open => /\ memberDialog.open
                                 /\ memberDialog'.id = memberDialog.id
                                 /\ memberDialog'.stored = memberDialog.stored
    PROVE  RegisterInv'
  BY DEF RegisterInv, RegisterTypes, StoredIsKept

LEMMA ClosedRegister ==
    ASSUME RegisterInv, \E R : member' \in Seq(Registered(R)), memberSetting'.code \in Codes,
           memberDialog' = M!Closed \/ (memberDialog' = memberDialog /\ ~memberDialog.open)
    PROVE  RegisterInv'
<1>1. ~memberDialog'.open
  BY DEF M!Closed
<1>2. \E R : memberDialog' \in Filled(R)
  <2>1. PICK A : A = {M!NoName, <<>>, 0, "split"}
    OBVIOUS
  <2>2. M!Closed \in Filled(A)
    BY <2>1 DEF M!Closed, Filled
  <2>3. QED
    BY <2>2 DEF RegisterInv, RegisterTypes
<1>3. QED
  BY <1>1, <1>2 DEF RegisterInv, RegisterTypes, StoredIsKept

LEMMA DialogOpens == RegisterInv /\ M!OpenDialog => RegisterInv'
<1>1. SUFFICES ASSUME RegisterInv, M!OpenDialog PROVE RegisterInv'
  OBVIOUS
<1>2. PICK i \in {0} \cup DOMAIN member :
        LET was == IF i = 0 THEN M!NoName ELSE member[i].name
        IN  memberDialog' = [open |-> TRUE, mode |-> memberSetting.mode, id |-> i,
                             stored |-> was,
                             name |-> M!NameForForm(memberSetting.mode, was),
                             mobile |-> IF i = 0 THEN <<>> ELSE member[i].mobile]
  BY <1>1 DEF M!OpenDialog, M!Ids
<1>3. PICK was, filled, typed, how :
        /\ was = IF i = 0 THEN M!NoName ELSE member[i].name
        /\ filled = M!NameForForm(memberSetting.mode, was)
        /\ typed = IF i = 0 THEN <<>> ELSE member[i].mobile
        /\ how = memberSetting.mode
  OBVIOUS
<1>4. PICK A : A = {was, filled, typed, how, i}
  OBVIOUS
<1>5. memberDialog' = [open |-> TRUE, mode |-> how, id |-> i, stored |-> was,
                       name |-> filled, mobile |-> typed]
  BY <1>2, <1>3
<1>6. memberDialog' \in Filled(A) /\ memberDialog'.id = i /\ memberDialog'.stored = was
  BY <1>4, <1>5 DEF Filled
<1>7. UNCHANGED <<member, memberSetting>>
  BY <1>1 DEF M!OpenDialog
<1>8. StoredIsKept'
  BY <1>3, <1>6, <1>7 DEF StoredIsKept
<1>9. QED
  BY <1>1, <1>6, <1>7, <1>8 DEF RegisterInv, RegisterTypes

LEMMA TypedInDialog == RegisterInv /\ (M!TypeName \/ M!TypeMobile) => RegisterInv'
<1>1. SUFFICES ASSUME RegisterInv, M!TypeName \/ M!TypeMobile PROVE RegisterInv'
  OBVIOUS
<1>2. PICK R : memberDialog \in Filled(R)
  BY <1>1 DEF RegisterInv, RegisterTypes
<1>3. PICK x : memberDialog' = [memberDialog EXCEPT !.name = x]
               \/ memberDialog' = [memberDialog EXCEPT !.mobile = x]
  BY <1>1 DEF M!TypeName, M!TypeMobile
<1>4. PICK A : A = R \cup {x}
  OBVIOUS
<1>5. memberDialog \in Filled(A) /\ x \in A
  BY <1>2, <1>4, RegisterWidens
<1>6. /\ memberDialog' \in Filled(A) /\ memberDialog'.open = memberDialog.open
      /\ memberDialog'.id = memberDialog.id /\ memberDialog'.stored = memberDialog.stored
  BY <1>3, <1>5 DEF Filled
<1>7. UNCHANGED <<member, memberSetting>>
  BY <1>1 DEF M!TypeName, M!TypeMobile
<1>8. QED
  BY <1>1, <1>6, <1>7, DialogStays

LEMMA RegisterStays == RegisterInv /\ [M!Next]_M!vars => RegisterInv'
<1>1. SUFFICES ASSUME RegisterInv, [M!Next]_M!vars PROVE RegisterInv'
  OBVIOUS
<1>2. CASE UNCHANGED M!vars
  BY <1>1, <1>2 DEF M!vars, RegisterInv, RegisterTypes, StoredIsKept
<1>3. CASE M!Cancel
  BY <1>1, <1>3, ClosedRegister DEF M!Cancel, RegisterInv, RegisterTypes
<1>4. CASE M!Save
  <2>1. PICK R : \E row \in Registered(R) :
             /\ row.name = NameSaved /\ NumberOf(row) /\ member \in Seq(Registered(R))
             /\ \/ memberDialog.id = 0 /\ member' = Append(member, row)
                \/ /\ memberDialog.id # 0
                   /\ member' = [member EXCEPT ![memberDialog.id] = row]
    BY <1>1, <1>4, SavedRow
  <2>2. memberDialog.id # 0 => memberDialog.id \in DOMAIN member
    BY <1>1, <1>4 DEF RegisterInv, StoredIsKept, M!Save
  <2>3. member' \in Seq(Registered(R))
    BY <2>1, <2>2, RowAdded, RowWritten
  <2>4. QED
    BY <1>1, <1>4, <2>3, ClosedRegister DEF M!Save, RegisterInv, RegisterTypes
<1>5. CASE M!SaveSettings
  <2>1. memberSetting' \in [mode : M!Modes, code : Codes]
    BY <1>5 DEF M!SaveSettings
  <2>2. QED
    BY <1>1, <1>5, <2>1, ClosedRegister DEF M!SaveSettings, RegisterInv, RegisterTypes
<1>6. CASE M!ImportMember
  <2>1. \E R : member' \in Seq(Registered(R))
    BY <1>1, <1>6, ImportedRow, RowAdded
  <2>2. QED
    BY <1>1, <1>6, <2>1, ClosedRegister DEF M!ImportMember, RegisterInv, RegisterTypes
<1>7. CASE M!ImportKnownMember
  <2>1. \E R : member' \in Seq(Registered(R))
    BY <1>1, <1>7, KnownRow, RowWritten
  <2>2. QED
    BY <1>1, <1>7, <2>1, ClosedRegister DEF M!ImportKnownMember, RegisterInv, RegisterTypes
<1>8. CASE M!Start
  <2>1. \E R : member' \in Seq(Registered(R))
    BY <1>1, <1>8, StartedRows
  <2>2. QED
    BY <1>1, <1>8, <2>1, ClosedRegister DEF M!Start, RegisterInv, RegisterTypes
<1>9. QED
  BY <1>1, <1>2, <1>3, <1>4, <1>5, <1>6, <1>7, <1>8, DialogOpens, TypedInDialog DEF M!Next

LEMMA RegisterStarts == M!Init => RegisterInv
<1>1. SUFFICES ASSUME M!Init PROVE RegisterInv
  OBVIOUS
<1>2. PICK A : A = {M!NoName, <<>>, 0, "split"}
  OBVIOUS
<1>3. memberDialog \in Filled(A) /\ ~memberDialog.open
  BY <1>1, <1>2 DEF M!Init, M!Closed, Filled
<1>4. member \in Seq(Registered(A)) /\ memberSetting.code \in Codes
  BY <1>1 DEF M!Init
<1>5. QED
  BY <1>3, <1>4 DEF RegisterInv, RegisterTypes, StoredIsKept

\* While the dialog is open nothing else writes the register, and it holds the name it
\* opened with (MemberDialog).
THEOREM RegisterHolds == M!Spec => []RegisterInv
<1>1. QED
  BY RegisterStarts, RegisterStays, PTL DEF M!Spec

\* A save in which the name's fields show what they showed at first leaves both parts of
\* the name, with one field or two (nameForSave).
THEOREM PhoneEditAlwaysKeepsName == M!Spec => PhoneEditKeepsName
<1>1. RegisterInv /\ [M!Next]_M!vars =>
        [\A i \in M!Ids :
            (memberDialog.open /\ memberDialog.id = i /\ ~memberDialog'.open
                /\ memberDialog.name = M!NameForForm(memberDialog.mode, member[i].name))
            => member'[i].name = member[i].name]_M!vars
  <2>1. SUFFICES ASSUME RegisterInv, M!Next, NEW i \in DOMAIN member,
                        memberDialog.open, memberDialog.id = i, ~memberDialog'.open,
                        memberDialog.name = M!NameForForm(memberDialog.mode, member[i].name)
                 PROVE  member'[i].name = member[i].name
    BY DEF M!Ids
  <2>2. i # 0 /\ memberDialog.stored = member[i].name
    <3>1. PICK R : member \in Seq(Registered(R))
      BY <2>1 DEF RegisterInv, RegisterTypes
    <3>2. i # 0
      BY <3>1, RegisterLengths
    <3>3. QED
      BY <2>1, <3>2 DEF RegisterInv, StoredIsKept
  <2>3. CASE M!Save
    <3>1. NameSaved = member[i].name
      <4>1. PICK was, joined : was = member[i].name /\ joined = M!JoinName(was)
        OBVIOUS
      <4>2. memberDialog.stored = was
            /\ memberDialog.name = IF memberDialog.mode = "full"
                                   THEN [first |-> joined, last |-> <<>>] ELSE was
        BY <2>1, <2>2, <4>1 DEF M!NameForForm, M!Whole
      <4>3. was = M!NoName => joined = <<>>
        BY <4>1, ConcatEmptySeq DEF M!JoinName, M!NoName
      <4>4. NameSaved = was
        BY <4>1, <4>2, <4>3 DEF NameSaved, M!NameForSave, M!NoName
      <4>5. QED
        BY <4>1, <4>4
    <3>2. PICK R : \E row \in Registered(R) :
               /\ row.name = NameSaved /\ member \in Seq(Registered(R))
               /\ member' = [member EXCEPT ![i] = row]
      BY <2>1, <2>2, <2>3, SavedRow
    <3>3. QED
      BY <3>1, <3>2, RowWritten
  <2>4. CASE M!Start
    BY <2>1, <2>4, StartedRows
  <2>5. CASE M!Cancel
    BY <2>5 DEF M!Cancel
  <2>6. M!Save \/ M!Start \/ M!Cancel
    <3>1. PICK R : memberDialog \in Filled(R)
      BY <2>1 DEF RegisterInv, RegisterTypes
    <3>2. QED
      BY <2>1, <3>1 DEF M!Next, M!OpenDialog, M!TypeName, M!TypeMobile, M!SaveSettings,
         M!ImportMember, M!ImportKnownMember, Filled
  <2>7. QED
    BY <2>3, <2>4, <2>5, <2>6
<1>2. QED
  BY <1>1, RegisterHolds, PTL DEF M!Spec, PhoneEditKeepsName, M!PhoneEditKeepsName

LEMMA NumbersStay ==
    ASSUME "upsert" \notin ImportModes
    PROVE  RegisterInv /\ NumbersFollow /\ [M!Next]_M!vars => NumbersFollow'
<1>1. SUFFICES ASSUME RegisterInv, NumbersFollow, [M!Next]_M!vars PROVE NumbersFollow'
  OBVIOUS
<1>2. CASE UNCHANGED member
  BY <1>1, <1>2 DEF NumbersFollow
<1>3. ASSUME NEW R, NEW row \in Registered(R), NumberOf(row), member \in Seq(Registered(R)),
             member' = Append(member, row)
      PROVE  NumbersFollow'
  <2>1. ASSUME NEW k \in DOMAIN member' PROVE NumberOf(member'[k])
    BY <1>1, <1>3, RowAdded DEF NumbersFollow
  <2>2. QED
    BY <2>1 DEF NumbersFollow, NumberOf
<1>4. ASSUME NEW R, NEW row \in Registered(R), NumberOf(row), member \in Seq(Registered(R)),
             NEW i \in DOMAIN member, member' = [member EXCEPT ![i] = row]
      PROVE  NumbersFollow'
  <2>1. ASSUME NEW k \in DOMAIN member' PROVE NumberOf(member'[k])
    BY <1>1, <1>4, RowWritten DEF NumbersFollow
  <2>2. QED
    BY <2>1 DEF NumbersFollow, NumberOf
<1>5. CASE M!Save
  <2>1. PICK R : \E row \in Registered(R) :
             /\ NumberOf(row) /\ member \in Seq(Registered(R))
             /\ \/ memberDialog.id = 0 /\ member' = Append(member, row)
                \/ /\ memberDialog.id # 0
                   /\ member' = [member EXCEPT ![memberDialog.id] = row]
    BY <1>1, <1>5, SavedRow
  <2>2. memberDialog.id # 0 => memberDialog.id \in DOMAIN member
    BY <1>1, <1>5 DEF RegisterInv, StoredIsKept, M!Save
  <2>3. QED
    BY <1>3, <1>4, <2>1, <2>2
<1>6. CASE M!ImportMember
  BY <1>1, <1>3, <1>6, ImportedRow
<1>7. CASE M!ImportKnownMember
  <2>1. PICK R : \E row \in Registered(R), i \in DOMAIN member :
             /\ member \in Seq(Registered(R)) /\ member' = [member EXCEPT ![i] = row]
             /\ "upsert" \notin ImportModes /\ NumberOf(member[i]) => NumberOf(row)
    BY <1>1, <1>7, KnownRow
  <2>2. \A i \in DOMAIN member : NumberOf(member[i])
    BY <1>1 DEF NumbersFollow
  <2>3. QED
    BY <1>4, <2>1, <2>2
<1>8. CASE M!Start
  <2>1. /\ DOMAIN member' = DOMAIN member
        /\ \A i \in DOMAIN member : NumberOf(member[i]) => NumberOf(member'[i])
    BY <1>1, <1>8, StartedRows
  <2>2. ASSUME NEW k \in DOMAIN member' PROVE NumberOf(member'[k])
    BY <1>1, <2>1, <2>2 DEF NumbersFollow
  <2>3. QED
    BY <2>2 DEF NumbersFollow, NumberOf
<1>9. QED
  BY <1>1, <1>2, <1>5, <1>6, <1>7, <1>8
     DEF M!Next, M!vars, M!OpenDialog, M!TypeName, M!TypeMobile, M!Cancel, M!SaveSettings

\* Only an import that overwrites (upsert) leaves a member the number of an earlier mobile:
\* without it no save, setting, import or start does (normalizedMobileFor, executeImport,
\* backfillMobileE164).
THEOREM NumberFollowsUnlessOverwritten ==
    ASSUME "upsert" \notin ImportModes PROVE M!Spec => []NumberFollowsMobile
<1>1. M!Init => NumbersFollow
  BY DEF M!Init, NumbersFollow
<1>2. RegisterInv /\ NumbersFollow /\ [M!Next]_M!vars => NumbersFollow'
  BY NumbersStay
<1>3. NumbersFollow => NumberFollowsMobile
  BY DEF NumbersFollow, NumberOf, NumberFollowsMobile, M!NumberFollowsMobile, M!Ids
<1>4. QED
  BY <1>1, <1>2, <1>3, RegisterHolds, PTL DEF M!Spec
=============================================================================
