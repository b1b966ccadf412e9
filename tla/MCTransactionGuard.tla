------------------------ MODULE MCTransactionGuard -------------------------
(* Two guards and three work items: work before, inside and after a guard. *)
EXTENDS TransactionGuard, TLC

Symmetry == Permutations(Work) \union Permutations(Guards)
=============================================================================
