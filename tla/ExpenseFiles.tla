---------------------------- MODULE ExpenseFiles -----------------------------
(***************************************************************************)
(* The scans attached to expenses: services/expenses (storeAttachment and  *)
(* its callers), ExpenseDialog, and what services/backup does with the     *)
(* folder they lie in.                                                     *)
(*                                                                         *)
(* A file is stored under its expense's number, before the row is written  *)
(* and outside of its transaction; the rows go back in time with every     *)
(* restore, the folder does not: copyTree only adds to it.                 *)
(*                                                                         *)
(* Abstracted: the other fields of an expense (CashBook has them); a file  *)
(* is its content, with a size and an extension; a chosen file that is     *)
(* gone when it is to be copied, which refuses the call and changes        *)
(* nothing; pruning and damage of backups (BackupRestore has them).        *)
(***************************************************************************)
EXTENDS Naturals, Sequences, Functions

CONSTANTS
    Files, NoFile,     \* contents, and none
    Size, Extension,   \* of each content
    SheetNumbers,      \* expense numbers that imported sheets carry
    MaxNumber,         \* bound: expense numbers
    MaxBackups         \* bound: backups that may be restored

\* Assumed where the module is used.
FileConstants ==
    /\ NoFile \notin Files
    /\ DOMAIN Size = Files /\ DOMAIN Extension = Files
    /\ SheetNumbers \subseteq 1 .. MaxNumber /\ {MaxNumber, MaxBackups} \subseteq Nat

VARIABLES
    expense,   \* the rows, deleted ones included, by their number
    sequence,  \* the next number
    folder,    \* attachments/: the content under each name
    backups,   \* what was backed up: rows, sequence, folder
    restored   \* history: a backup was restored

vars == <<expense, sequence, folder, backups, restored>>

-----------------------------------------------------------------------------
(* services/expenses.                                                      *)

Paths == (1 .. MaxNumber) \X {Extension[f] : f \in Files}
NoPath == <<0, "none">>

\* chosen and own are history: the content that was chosen for the row, and that the row
\* has its number from the sequence.
Row(path, chosen, own) == [path |-> path, chosen |-> chosen, own |-> own, live |-> TRUE]

\* rows with one more under this number
WithRow(rows, number, row) ==
    [n \in DOMAIN rows \cup {number} |-> IF n = number THEN row ELSE rows[n]]

PathOf(number, file) == <<number, Extension[file]>>

\* copyFileSync overwrites.
StoreAttachment(number, file) ==
    IF file = NoFile THEN folder ELSE [folder EXCEPT ![PathOf(number, file)] = file]

PathFor(number, file, otherwise) == IF file = NoFile THEN otherwise ELSE PathOf(number, file)

\* The file is stored first; UNIQUE(expense_number) may then refuse the row and take the
\* number back, but the file stays.
CreateExpense(file) ==
    /\ sequence <= MaxNumber
    /\ folder' = StoreAttachment(sequence, file)
    /\ IF sequence \in DOMAIN expense
       THEN UNCHANGED <<expense, sequence>>
       ELSE /\ expense' = WithRow(expense, sequence, Row(PathFor(sequence, file, NoPath), file, TRUE))
            /\ sequence' = sequence + 1

\* The number is the row's own; without a file the earlier one stays. A row that was
\* deleted is not found.
UpdateExpense(number, file) ==
    /\ number \in DOMAIN expense
    /\ expense[number].live
    /\ LET row == expense[number]
       IN  expense' = [expense EXCEPT
                ![number].path = PathFor(number, file, row.path),
                ![number].chosen = IF file = NoFile THEN row.chosen ELSE file]
    /\ folder' = StoreAttachment(number, file)
    /\ UNCHANGED sequence

-----------------------------------------------------------------------------
(* ExpensesPage and ExpenseDialog: a dialog for a new expense or for one of *)
(* the list, which may show a row that was deleted meanwhile, and a file or  *)
(* none. The system's window in which a file is picked does not hold the     *)
(* dialog back, so the file may have been asked for in an earlier one: any   *)
(* file can come with any expense.                                           *)

Submit ==
    /\ \E file \in Files \cup {NoFile} :
          \/ CreateExpense(file)
          \/ \E number \in DOMAIN expense : UpdateExpense(number, file)
    /\ UNCHANGED <<backups, restored>>

\* Deleting marks the row; its number and its file stay.
DeleteExpense ==
    /\ \E number \in DOMAIN expense :
          /\ expense[number].live
          /\ expense' = [expense EXCEPT ![number].live = FALSE]
    /\ UNCHANGED <<sequence, folder, backups, restored>>

-----------------------------------------------------------------------------
(* Other pages.                                                            *)

\* A sheet's row with a number nobody has; replacing deletes the rows and not the files.
ImportExpense ==
    /\ \E number \in SheetNumbers, kept \in {DOMAIN expense, {}} :
          /\ number \notin kept
          /\ expense' = WithRow(Restrict(expense, kept), number, Row(NoPath, NoFile, FALSE))
    /\ UNCHANGED <<sequence, folder, backups, restored>>

Snapshot == [expense |-> expense, sequence |-> sequence, folder |-> folder]

\* Made when the copy of the database is complete: the folder is then copied at once.
\* Beyond the bound it is made and not looked at.
CreateBackup ==
    backups' = IF Len(backups) < MaxBackups THEN Append(backups, Snapshot) ELSE backups

Backup ==
    /\ CreateBackup
    /\ UNCHANGED <<expense, sequence, folder, restored>>

\* mutant: what is there is not copied again
CopyTree_Existing(source, target) ==
    [path \in Paths |-> IF target[path] = NoFile THEN source[path] ELSE target[path]]

\* What is there with the same size is not copied again, and nothing is removed.
CopyTree(source, target) ==
    [path \in Paths |->
        IF \/ source[path] = NoFile
           \/ target[path] # NoFile /\ Size[target[path]] = Size[source[path]]
        THEN target[path] ELSE source[path]]

\* After a backup of what is there now, the rows are replaced and the files added.
Restore ==
    /\ CreateBackup
    /\ \E k \in DOMAIN backups :
          /\ expense' = backups[k].expense
          /\ sequence' = backups[k].sequence
          /\ folder' = CopyTree(backups[k].folder, folder)
    /\ restored' = TRUE

\* After a backup the database is removed; the folder of files is not.
DeleteDatabase ==
    /\ CreateBackup
    /\ expense' = [number \in {} |-> Row(NoPath, NoFile, TRUE)] /\ sequence' = 1
    /\ UNCHANGED <<folder, restored>>

-----------------------------------------------------------------------------

Init ==
    /\ expense = [number \in {} |-> Row(NoPath, NoFile, TRUE)]
    /\ sequence = 1
    /\ folder = [path \in Paths |-> NoFile]
    /\ backups = <<>> /\ restored = FALSE

Next ==
    \/ Submit \/ DeleteExpense \/ ImportExpense
    \/ Backup \/ Restore \/ DeleteDatabase

Spec == Init /\ [][Next]_vars

-----------------------------------------------------------------------------
(* Properties.                                                             *)

\* Rows are under numbers that can be, with paths that are theirs.
TypeOK ==
    /\ DOMAIN expense \subseteq 1 .. MaxNumber
    /\ \A number \in DOMAIN expense :
          /\ expense[number].chosen \in Files \cup {NoFile}
          /\ expense[number].path = PathFor(number, expense[number].chosen, NoPath)
    /\ sequence \in 1 .. MaxNumber + 1
    /\ folder \in [Paths -> Files \cup {NoFile}]
    /\ Len(backups) <= MaxBackups /\ restored \in BOOLEAN

\* F-61.  An expense the program gave its number shows the scan that was chosen for it,
\* through deletions, imports, backups, restores and the deletion of the whole database
\* in any order (storeAttachment, copyTree, applyRestore); after a restore it may show
\* another that is exactly as long, which copyTree does not tell apart. An expense with a
\* number from a sheet may show the scan of one whose creation was refused.
ScanIsItsOwn ==
    \A number \in DOMAIN expense :
        LET row == expense[number]
        IN  row.own /\ row.path # NoPath =>
                /\ folder[row.path] # NoFile
                /\ \/ folder[row.path] = row.chosen
                   \/ restored /\ Size[folder[row.path]] = Size[row.chosen]
=============================================================================
