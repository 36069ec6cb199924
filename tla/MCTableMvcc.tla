---------------------------- MODULE MCTableMvcc -----------------------------
(* TLC instances of TableMvcc. *)
EXTENDS TableMvcc, TLC

CONSTANTS a, b, c

TwoTxns   == {a, b}
ThreeTxns == {a, b, c}

Symmetry == Permutations(Txns)
=============================================================================
