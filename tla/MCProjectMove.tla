--------------------------- MODULE MCProjectMove ---------------------------
(* ProjectMove on a few memories, changes and faults.                      *)
EXTENDS ProjectMove, TLC

(* Promotions keep clear of every Drain, not only of their own process's.  *)
ApartSpec == Init /\ [][Next /\ ~PromotedOverDrain]_vars

Symmetry == Permutations(Memory) \union Permutations(Daemon)
=============================================================================
