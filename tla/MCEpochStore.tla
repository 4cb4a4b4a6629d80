---------------------------- MODULE MCEpochStore ----------------------------
(* A small instance of EpochStore: the two contents of the fixture differ  *)
(* in the revision of one substation and in the presence of another, which *)
(* comes first in h3_cell order.                                           *)
EXTENDS EpochStore

MCCells == {1, 2}
MCFixture == [v \in Versions |-> IF v = "spring" THEN {<<2, "a">>}
                                  ELSE {<<1, "a">>, <<2, "b">>}]
=============================================================================
