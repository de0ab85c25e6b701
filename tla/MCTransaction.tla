--------------------------- MODULE MCTransaction ---------------------------
(* Instances of Transaction for TLC; transactions and resources are model    *)
(* values, interchangeable in the runs that check safety only.               *)
EXTENDS Transaction, TLC

Symmetry == Permutations(Tx) \cup Permutations(Resource)
=============================================================================
