------------------------------ MODULE MCBackups ------------------------------
(***************************************************************************)
(* A small instance of Backups: the database, in the instance of           *)
(* MCBackupRestore, and the scans beside it.  "part" says which of them a  *)
(* behaviour is about.                                                     *)
(***************************************************************************)
EXTENDS Backups, MCBackupRestore

VARIABLE part

\* Of the three scans, two are as long as each other.
ScanSize == [f \in Scans |-> IF f = "contract" THEN 2 ELSE 1]
ScanExtension == [f \in Scans |-> "pdf"]

scanVars == <<expense, sequence, attachments, backups, restored>>

BackupsInit == part \in {"database", "scans"} /\ Init /\ X!Init

BackupsNext ==
    /\ UNCHANGED part
    /\ \/ part = "database" /\ Next /\ UNCHANGED scanVars
       \/ part = "scans" /\ X!Next /\ UNCHANGED vars

BackupsSpec ==
    /\ BackupsInit
    /\ [][BackupsNext]_<<part, vars, scanVars>>
==============================================================================
