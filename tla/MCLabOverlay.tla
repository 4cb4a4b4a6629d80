---------------------------- MODULE MCLabOverlay ----------------------------
(* The page and its lab section: two views above the threshold, one of     *)
(* them of two cells with different ancestors, and one below; two epochs,  *)
(* the older without the second cell; one bundle that does not verify.     *)
EXTENDS LabOverlay

MCRegion == [v \in Views |-> IF v = "there" THEN {2} ELSE {1, 2}]
MCSealed == [e \in Epochs |-> IF e = 0 THEN {1} ELSE {1, 2}]
MCGenuine == {<<1, 0>>, <<1, 1>>}
MCParent == [c \in Cells |-> IF c = 1 THEN "north" ELSE "south"]
=============================================================================
