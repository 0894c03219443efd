--------------------------- MODULE MCBackupRestore ---------------------------
(* Model-checking instance of BackupRestore: contents and handlers are only  *)
(* compared for equality.                                                    *)
EXTENDS BackupRestore, TLC

Symmetry == Permutations(Data) \cup Permutations(Jobs)

===============================================================================
