--------------------------- MODULE MCQuarantine ---------------------------
(***************************************************************************)
(* Model-checking instances of Quarantine.                                 *)
(***************************************************************************)
EXTENDS Quarantine, TLC

(* Drains 1 and 2: both of project 2 in processes of their own, or of the  *)
(* two projects, in one process or two.                                    *)
BothTwo == 1 :> 2 @@ 2 :> 2
OneAndTwo == 1 :> 1 @@ 2 :> 2
JustTwo == 1 :> 2
JustOne == 1 :> 1
Apart == 1 :> 1 @@ 2 :> 2
Alone == 1 :> 1

(* Commands per project.                                                   *)
FirstOnly(n) == 1 :> n @@ 2 :> 0
One == FirstOnly(1)
Two == FirstOnly(2)
Three == FirstOnly(3)
=============================================================================
