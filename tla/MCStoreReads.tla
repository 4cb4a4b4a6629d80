---------------------------- MODULE MCStoreReads ----------------------------
(* StoreReads beside one operator; two contents of the fixture that differ *)
(* in the revision of one substation and the presence of another.          *)
EXTENDS StoreReads

MCCells == {1, 2}
MCFixture == [v \in Versions |-> IF v = "spring" THEN {<<2, "a">>}
                                  ELSE {<<1, "a">>, <<2, "b">>}]
=============================================================================
