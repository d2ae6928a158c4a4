---------------------------- MODULE MCDrainAuth ----------------------------
(***************************************************************************)
(* Model-checking instances of DrainAuth.                                  *)
(***************************************************************************)
EXTENDS DrainAuth, TLC

CONSTANTS p1, a, b

OneHome == [d \in {a, b} |-> p1]
=============================================================================
