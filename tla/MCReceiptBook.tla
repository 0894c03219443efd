---------------------------- MODULE MCReceiptBook ----------------------------
(* Model-checking instance of ReceiptBook: row ids, amounts and names are   *)
(* compared only for equality, so that permuting them is a symmetry.        *)
EXTENDS ReceiptBook, TLC

Symmetry == Permutations(Payments) \cup Permutations(Donations)
              \cup Permutations(Amounts) \cup Permutations(Names)

=============================================================================
