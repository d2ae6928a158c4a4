-------------------------- MODULE MCMutationSync --------------------------
(***************************************************************************)
(* Model-checking instances of MutationSync.                               *)
(***************************************************************************)
EXTENDS MutationSync, TLC

CONSTANTS d1, d2

(* One daemon on each device.                                              *)
Apart == d1 :> d1 @@ d2 :> d2

(* Local changes per device.                                               *)
ThreeOne == d1 :> 3 @@ d2 :> 1
ThreeTwo == d1 :> 3 @@ d2 :> 2
FourTwo == d1 :> 4 @@ d2 :> 2

EntitySymmetry == Permutations(Entity)
=============================================================================
