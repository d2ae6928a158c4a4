--------------------------- MODULE MCProjectGate ---------------------------
(***************************************************************************)
(* Model-checking instances of ProjectGate.                                *)
(***************************************************************************)
EXTENDS ProjectGate, TLC

Symmetry == Permutations(Tx)
=============================================================================
