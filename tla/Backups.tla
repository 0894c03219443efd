------------------------------- MODULE Backups -------------------------------
(***************************************************************************)
(* What a backup holds: the file of the database, by BackupRestore, and    *)
(* the scans beside it, by ExpenseFiles.  They share no variable, so a     *)
(* behaviour of one is a behaviour of both in which the other rests.       *)
(***************************************************************************)
EXTENDS BackupRestore

CONSTANTS
    Scans, NoScan,      \* what may be chosen for an expense
    Size, Extension,    \* of each scan
    SheetNumbers,       \* expense numbers that imported sheets carry
    MaxNumber,          \* bound: expense numbers
    MaxCopies           \* bound: backups whose scans may be restored

VARIABLES expense, sequence, attachments, backups, restored

X == INSTANCE ExpenseFiles WITH
        Files <- Scans, NoFile <- NoScan, MaxBackups <- MaxCopies, folder <- attachments

ASSUME ScansGiven == X!FileConstants

\* The variables of both hold what they can hold.
BackupsTypeOK == TypeOK /\ X!TypeOK

\* An expense shows the scan that was chosen for it (storeAttachment, copyTree).
ScanIsItsOwn == X!ScanIsItsOwn
==============================================================================
