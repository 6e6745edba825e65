----------------------------- MODULE MCTreeQueue -----------------------------
(* Small instances of TreeQueue. *)
EXTENDS TreeQueue, TLC

Symmetry == Permutations(Msgs)
=============================================================================
