---------------------------- MODULE MCPullSweep ----------------------------
(***************************************************************************)
(* Model-checking instances of PullSweep.  Rows are numbered in sync_id    *)
(* order.                                                                  *)
(***************************************************************************)
EXTENDS PullSweep, TLC

TwoMemories == {1, 2}
TwoSessions == {3, 4}
OwnersCrossed == 1 :> 4 @@ 2 :> 3

ThreeMemories == {1, 2, 3}
FourSessions == {4, 5, 6, 7}
LastTwo == {4, 5}
ThreeCrossed == [m \in ThreeMemories |-> IF m = 1 THEN 5 ELSE 4]
OneOwner == [m \in ThreeMemories |-> 4]
=============================================================================
