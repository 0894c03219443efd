---------------------------- MODULE ReceiptPrint ----------------------------
(***************************************************************************)
(* Looking at a receipt and printing it: ReceiptDialog, the handlers       *)
(* receipts:previewHtml, get, print and openPdf, services/receiptPdf and   *)
(* registerPrint of services/receipts.                                     *)
(*                                                                         *)
(* A print awaits a hidden window, the file and the printer; what it       *)
(* decided before (whether the page is a copy) is read from the receipt it *)
(* was called with.  The archive's folder is a setting and may change      *)
(* between prints; the program may stop at any await.                      *)
(*                                                                         *)
(* Abstracted: a page is the receipt it shows and its stamp; the years of  *)
(* the archive.                                                            *)
(***************************************************************************)
EXTENDS Naturals, Sequences

CONSTANTS
    Receipts,   \* receipts that were issued
    Folders,    \* where the archive may be, by receipts_dir
    Default,    \* where it is when the setting is empty
    NoFolder,
    MaxPrints,  \* bound: prints of a receipt that are counted
    MaxLoads    \* bound: loads of the dialog under way

\* What the instances assume of these.
PrintBounds ==
    /\ {MaxPrints, MaxLoads} \subseteq Nat
    /\ Default \in Folders /\ NoFolder \notin Folders
    /\ "none" \notin Receipts

VARIABLES
    receipt,   \* print_count, pdf_path (its folder) and cancelled_at of each
    archive,   \* the archive: pages by folder and receipt
    folder,    \* the setting receipts_dir
    load,      \* loads of the dialog that were not answered yet
    dialog,    \* ReceiptDialog: the receipt opened, the one shown, busy
    job        \* the print under way

vars == <<receipt, archive, folder, load, dialog, job>>

NoReceipt == "none"
NoFile == "none"
Stamps == {"original", "copy", "cancelled"}
NoJob == [at |-> "none", of |-> NoReceipt, stamp |-> "original", printer |-> FALSE]
Closed == [open |-> NoReceipt, shown |-> NoReceipt, cancelled |-> FALSE, busy |-> FALSE]

\* columns, files, the dialog and the print under way are what they may be
TypeOK ==
    /\ receipt \in [Receipts -> [count : 0 .. MaxPrints, path : Folders \cup {NoFolder},
                                 cancelled : BOOLEAN]]
    /\ archive \in [Folders \X Receipts -> Stamps \cup {NoFile}]
    /\ folder \in Folders
    /\ load \in Seq(Receipts) /\ Len(load) <= MaxLoads
    /\ dialog \in [open : Receipts \cup {NoReceipt}, shown : Receipts \cup {NoReceipt},
                   cancelled : BOOLEAN, busy : BOOLEAN]
    /\ job \in [at : {"none", "rendered", "written", "printed"},
                of : Receipts \cup {NoReceipt}, stamp : Stamps, printer : BOOLEAN]

Init ==
    /\ receipt = [r \in Receipts |-> [count |-> 0, path |-> NoFolder, cancelled |-> FALSE]]
    /\ archive = [f \in Folders \X Receipts |-> NoFile]
    /\ folder = Default
    /\ load = <<>> /\ dialog = Closed /\ job = NoJob

-----------------------------------------------------------------------------
(* ReceiptDialog.                                                          *)

\* the effect of opening: what was shown is cleared, then both requests go out
OpenDialog ==
    \E r \in Receipts :
        /\ dialog.open = NoReceipt /\ Len(load) < MaxLoads
        /\ dialog' = [Closed EXCEPT !.open = r]
        /\ load' = Append(load, r)
        /\ UNCHANGED <<receipt, archive, folder, job>>

\* answers come in the order they were asked for; one for a receipt that was
\* closed meanwhile is shown in the dialog of the next all the same
Loaded ==
    /\ load # <<>>
    /\ load' = Tail(load)
    /\ dialog' = IF dialog.open = NoReceipt THEN dialog
                 ELSE [dialog EXCEPT !.shown = Head(load),
                                     !.cancelled = receipt[Head(load)].cancelled]
    /\ UNCHANGED <<receipt, archive, folder, job>>

\* mutant: closed during the print
CloseDialog_WhileBusy ==
    /\ dialog.open # NoReceipt
    /\ dialog' = Closed
    /\ UNCHANGED <<receipt, archive, folder, load, job>>

CloseDialog ==
    /\ dialog.open # NoReceipt /\ ~dialog.busy
    /\ dialog' = Closed
    /\ UNCHANGED <<receipt, archive, folder, load, job>>

\* cancelReceipt; the dialog closes
CancelReceipt ==
    /\ dialog.open # NoReceipt /\ ~dialog.busy /\ ~dialog.cancelled
    /\ ~receipt[dialog.open].cancelled
    /\ receipt' = [receipt EXCEPT ![dialog.open].cancelled = TRUE]
    /\ dialog' = Closed
    /\ UNCHANGED <<archive, folder, load, job>>

\* an archive elsewhere from now on; the settings are another page
SetFolder ==
    \E f \in Folders :
        /\ dialog.open = NoReceipt /\ f # folder
        /\ folder' = f
        /\ UNCHANGED <<receipt, archive, load, dialog, job>>

-----------------------------------------------------------------------------
(* printReceipt, from await to await.                                      *)
\* mutant: prints are not told apart
Stamp_NoCopy(r) == IF receipt[r].cancelled THEN "cancelled" ELSE "original"

\* renderReceiptHtml: the stamp of a cancelled receipt hides that of a copy
Stamp(r) == IF receipt[r].cancelled THEN "cancelled"
            ELSE IF receipt[r].count > 0 THEN "copy" ELSE "original"

BeginPrint ==
    \E printer \in BOOLEAN :
        /\ dialog.open # NoReceipt /\ ~dialog.busy /\ ~dialog.cancelled
        /\ receipt[dialog.open].count < MaxPrints
        /\ dialog' = [dialog EXCEPT !.busy = TRUE]
        /\ job' = [at |-> "rendered", of |-> dialog.open, stamp |-> Stamp(dialog.open),
                   printer |-> printer]
        /\ UNCHANGED <<receipt, archive, folder, load>>

\* the hidden window has made the pages: the path is taken from the settings
\* (which stay until the dialog closes) and the file is written
WriteFile ==
    /\ job.at = "rendered"
    /\ archive' = [archive EXCEPT ![<<folder, job.of>>] = job.stamp]
    /\ job' = [job EXCEPT !.at = "written"]
    /\ UNCHANGED <<receipt, folder, load, dialog>>

\* setPdfPath; what does not go to the printer is counted at once
RegisterPdf ==
    /\ job.at = "written"
    /\ receipt' = [receipt EXCEPT ![job.of].path = folder,
                                  ![job.of].count = IF job.printer THEN @ ELSE @ + 1]
    /\ job' = IF job.printer THEN [job EXCEPT !.at = "printed"] ELSE NoJob
    /\ dialog' = IF job.printer THEN dialog
                 ELSE [dialog EXCEPT !.busy = FALSE, !.shown = job.of,
                                     !.cancelled = receipt[job.of].cancelled]
    /\ UNCHANGED <<archive, folder, load>>

\* the printer took the page: registerPrint
Printed ==
    /\ job.at = "printed"
    /\ receipt' = [receipt EXCEPT ![job.of].count = @ + 1, ![job.of].path = folder]
    /\ job' = NoJob
    /\ dialog' = [dialog EXCEPT !.busy = FALSE, !.shown = job.of,
                                !.cancelled = receipt[job.of].cancelled]
    /\ UNCHANGED <<archive, folder, load>>

\* the window, the disk or the printer refuses: the dialog shows the error
PrintFails ==
    /\ job.at \in {"rendered", "printed"}
    /\ job' = NoJob
    /\ dialog' = [dialog EXCEPT !.busy = FALSE]
    /\ UNCHANGED <<receipt, archive, folder, load>>

\* the program stops, and is started again later
Restart ==
    /\ job' = NoJob /\ dialog' = Closed /\ load' = <<>>
    /\ UNCHANGED <<receipt, archive, folder>>

Next ==
    \/ OpenDialog \/ Loaded \/ CloseDialog \/ CancelReceipt \/ SetFolder
    \/ BeginPrint \/ WriteFile \/ RegisterPdf \/ Printed \/ PrintFails \/ Restart

Spec == Init /\ [][Next]_vars

-----------------------------------------------------------------------------
(* Properties.                                                             *)

\* A receipt is printed as an original once: whatever failed, stopped or was
\* moved in between, from the second print that was counted on the archive has
\* it marked as a copy, and what was counted or opened has its file where the
\* receipt says it is
PrintedIsArchived ==
    \A r \in Receipts :
        /\ receipt[r].count > 0 => receipt[r].path # NoFolder
        /\ receipt[r].path # NoFolder =>
              /\ archive[<<receipt[r].path, r>>] # NoFile
              /\ receipt[r].count > 1 => archive[<<receipt[r].path, r>>] # "original"

\* When nothing is being loaded, the dialog shows the receipt it was opened for,
\* and no print is made of another one
ShownIsOpen ==
    /\ dialog.open # NoReceipt /\ load = <<>> => dialog.shown = dialog.open
    /\ job # NoJob => job.of = dialog.open

=============================================================================
