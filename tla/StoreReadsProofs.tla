-------------------------- MODULE StoreReadsProofs --------------------------
(***************************************************************************)
(* Proofs about StoreReads: what a read of several statements returns,     *)
(* whatever the writers do between them, for every number of readers,      *)
(* operators, cells and epochs.                                            *)
(*                                                                         *)
(* The invariant of the writers (IInv of EpochStoreProofs) holds of every  *)
(* state of ReadsSpec; ReadsInv adds what a reader knows while its call is *)
(* under way: what it has read is what the store still holds, or the       *)
(* history of the call says why not.                                       *)
(***************************************************************************)
EXTENDS StoreReads, EpochStoreProofs

-----------------------------------------------------------------------------
Statements == {"attestations", "epoch", "hashes", "latest"}
Marks == {"erased", "rebuilt", "mixed"}
Attestation == EpochIds \X Leaf
Bundle == [at : EpochIds, leaf : Leaf \cup {None}, attestations : SUBSET Attestation,
           row : EpochRow \cup {None}, hashes : SUBSET Leaf, region : SUBSET EpochIds]

ReadsType ==
    /\ attested \in SUBSET Attestation
    /\ call \in [Readers -> Outcomes \cup Statements]
    /\ got \in [Readers -> Bundle]
    /\ during \in [Readers -> SUBSET Marks]

\* Every attestation is of a stored row: the foreign key.
Attested == \A a \in attested : a[2] \in cells[a[1]]

\* The store has been built from one content since the call began.
Calm(r) == during[r] \cap {"rebuilt", "mixed"} = {}

\* What a call under way has read.  The history has seen every mixture; the
\* cell is still there or its epoch was erased; in calm, the content, its
\* attestations and the row are those of the contents in force; the epochs
\* of a region are still there or one was erased.
Underway(r) ==
    /\ Ongoing(r) /\ mixed => "mixed" \in during[r]
    /\ call[r] \in {"attestations", "epoch", "hashes"} =>
          /\ got[r].leaf \in Leaf
          /\ \/ "erased" \in during[r]
             \/ CellOf(got[r].leaf) \in CellsOf(cells[got[r].at])
          /\ Calm(r) => got[r].leaf \in Fixture[built]
    /\ call[r] \in {"epoch", "hashes"} /\ Calm(r) =>
          \A a \in got[r].attestations : a[2] = got[r].leaf
    /\ call[r] = "hashes" /\ Calm(r) =>
          got[r].row.root = MerkleRoot(got[r].at, Fixture[built])
    /\ call[r] = "latest" => "erased" \in during[r] \/ got[r].region \subseteq Sealed

\* What a call has returned: the four properties of StoreReads, for one call.
Answered(r) ==
    /\ call[r] = "found" /\ Calm(r) =>
          /\ Verifies(got[r])
          /\ \A a \in got[r].attestations : a[2] = got[r].leaf
    /\ call[r] \in {"epoch_missing", "no_proof"} => "erased" \in during[r]
    /\ call[r] = "rendered" =>
          "erased" \in during[r] \/ \A e \in got[r].region : e <= got[r].at
    /\ call[r] = "no_epoch" => "erased" \in during[r] \/ got[r].region = {}

ReadsInv ==
    /\ IInv /\ ReadsType /\ Attested
    /\ \A r \in Readers : Underway(r) /\ Answered(r)

-----------------------------------------------------------------------------
(* The operators.                                                          *)

\* A set of epochs has a latest one: among the sets of the epochs after each
\* of its members there is a smallest, and that one is empty.
LEMMA LatestExists ==
    ASSUME NEW S \in SUBSET EpochIds, S # {}
    PROVE  \E e \in S : \A f \in S : f <= e
<1>. DEFINE after(e) == {f \in S : f > e}
            afters == {after(e) : e \in S}
            order == StrictSubsetOrdering(EpochIds)
<1>1. IsFiniteSet(EpochIds)
  BY TablesAssumption, FS_Interval DEF EpochIds
<1>2. afters \subseteq FiniteSubsetsOf(EpochIds) /\ afters # {}
  <2>1. \A T \in SUBSET EpochIds : IsFiniteSet(T)
    BY <1>1, FS_Subset
  <2>. QED
    BY <2>1 DEF FiniteSubsetsOf
<1>3. PICK T \in afters : \A U \in afters : <<U, T>> \notin order
  BY <1>2, FS_StrictSubsetOrderingWellFounded, WFMin
<1>4. PICK e \in S : T = after(e)
  OBVIOUS
<1>5. ASSUME NEW f \in S, f > e PROVE FALSE
  <2>1. \A g \in S : g \in Int
    BY TablesAssumption DEF EpochIds
  <2>2. after(f) \subseteq after(e) /\ f \in after(e) /\ f \notin after(f)
    BY <1>5, <2>1
  <2>3. <<after(f), after(e)>> \in order
    BY <2>2 DEF StrictSubsetOrdering
  <2>. QED
    BY <1>3, <1>4, <2>3
<1>. QED
  BY <1>5, TablesAssumption DEF EpochIds

\* No row, no cells; and if there are cells, they are the contents in force.
LEMMA StoredCells ==
    ASSUME IInv, NEW e \in EpochIds, cells[e] # {}
    PROVE  e \in Sealed /\ (~mixed => cells[e] = Fixture[built])
BY DEF IInv, Schema, KeysHold, Core, LogWhole

\* A fixture has one leaf for a cell.
LEMMA OneLeaf ==
    ASSUME NEW v \in Versions, NEW l \in Fixture[v], NEW m \in Fixture[v],
           CellOf(l) = CellOf(m)
    PROVE  l = m
BY TablesAssumption DEF CellOf

\* Only an erasure takes a cell away, and it takes the epoch's row as well.
LEMMA CellsStay ==
    ASSUME IInv, [Next]_vars, NEW e \in EpochIds
    PROVE  \/ e \in Sealed /\ epochs'[e] = None
           \/ cells[e] \subseteq cells'[e]
<1>1. ASSUME NEW p \in Operators, Commit(p) PROVE cells[e] \subseteq cells'[e]
  BY <1>1, CommitEffect DEF IInv
<1>2. ASSUME NEW p \in Operators, WipeCommit(p)
      PROVE  \/ e \in Sealed /\ epochs'[e] = None
             \/ cells[e] \subseteq cells'[e]
  <2>1. CASE e \in tx[p].dropped
    BY <1>2, <2>1, WipeCommitEffect DEF IInv, Schema, WipeInv
  <2>2. CASE e \notin tx[p].dropped
    BY <1>2, <2>2, WipeIsWhole DEF IInv
  <2>. QED
    BY <2>1, <2>2
<1>. QED
  BY <1>1, <1>2, OnlyCommitsWrite DEF IInv

\* In calm, when nothing is mixed, the row of an epoch that is there is that
\* of the contents in force.
LEMMA RowInForce ==
    ASSUME IInv, ~mixed, NEW e \in Sealed
    PROVE  epochs[e].root = MerkleRoot(e, Fixture[built])
BY SealedRows

-----------------------------------------------------------------------------
(* The steps, as a reader sees them.                                       *)

\* A call that is answered is not under way.
LEMMA OngoingCalls ==
    ASSUME ReadsType, NEW r \in Readers
    PROVE  Ongoing(r) <=> call[r] \in Statements
BY DEF ReadsType, Ongoing, Outcomes, Statements

\* Another call: nothing it depends on changes.
OtherCallsStay(r) ==
    \A q \in Readers \ {r} : /\ call'[q] = call[q] /\ got'[q] = got[q]
                             /\ during'[q] = during[q]

\* One statement of r: the tables and the other calls are as they were.
LEMMA ReadEffect ==
    ASSUME ReadsInv, NEW r \in Readers, NEW next \in Outcomes \cup Statements,
           NEW b \in Bundle, Proceed(r, next, b),
           \/ Begin(r) \/ \E statement \in Statements : Continue(r, statement)
    PROVE  /\ call'[r] = next /\ got'[r] = b
           /\ Begin(r) => during'[r] = Now
           /\ ~Begin(r) => during'[r] = during[r]
           /\ OtherCallsStay(r) /\ ReadsType' /\ UNCHANGED <<vars, attested>>
<1>1. /\ call' = [call EXCEPT ![r] = next] /\ got' = [got EXCEPT ![r] = b]
      /\ UNCHANGED <<vars, attested>>
  BY DEF Proceed
<1>2. Now \in SUBSET Marks
  BY DEF Now, Marks
<1>3. during' = [during EXCEPT ![r] = Now] \/ during' = during
  BY DEF Begin, Continue
<1>4. ReadsType'
  BY <1>1, <1>2, <1>3 DEF ReadsInv, ReadsType
<1>5. OtherCallsStay(r)
  BY <1>1, <1>3 DEF ReadsInv, ReadsType, OtherCallsStay
<1>6. /\ Begin(r) => during'[r] = Now
      /\ ~Begin(r) => during'[r] = during[r]
  BY DEF ReadsInv, ReadsType, Begin, Continue
<1>7. call'[r] = next /\ got'[r] = b
  BY <1>1 DEF ReadsInv, ReadsType
<1>. QED
  BY <1>1, <1>4, <1>5, <1>6, <1>7

\* What has to be shown of a statement is its own call.
LEMMA ReadKeeps ==
    ASSUME ReadsInv, NEW r \in Readers, OtherCallsStay(r), ReadsType',
           UNCHANGED <<vars, attested>>, Underway(r)', Answered(r)'
    PROVE  ReadsInv'
<1>1. UNCHANGED <<fixture, epochs, cells, pc, run, tx, built, mixed, disturbed, Sealed>>
  BY DEF vars, tables, history, Sealed
<1>2. IInv'
  BY InvStep DEF ReadsInv
<1>3. Attested'
  BY <1>1 DEF ReadsInv, Attested
<1>4. ASSUME NEW q \in Readers \ {r} PROVE Underway(q)' /\ Answered(q)'
  <2>1. Underway(q) /\ Answered(q)
    BY DEF ReadsInv
  <2>2. call'[q] = call[q] /\ got'[q] = got[q] /\ during'[q] = during[q]
    BY DEF OtherCallsStay
  <2>3. Underway(q)'
    BY <1>1, <2>1, <2>2 DEF Underway, Ongoing, Calm
  <2>4. Answered(q)'
    BY <2>1, <2>2 DEF Answered, Calm
  <2>. QED
    BY <2>3, <2>4
<1>. QED
  BY <1>2, <1>3, <1>4 DEF ReadsInv

\* get_provenance, 1: the cell it finds is of the contents in force.
LEMMA KeepReadCell ==
    ASSUME ReadsInv, NEW r \in Readers, NEW e \in EpochIds, NEW c \in Cells,
           ReadCell(r, e, c)
    PROVE  ReadsInv'
<1>. DEFINE found == {l \in cells[e] : CellOf(l) = c}
<1>1. \/ Proceed(r, "cell_not_found", NoBundle)
      \/ \E l \in found :
            Proceed(r, "attestations", [NoBundle EXCEPT !.at = e, !.leaf = l])
  BY Zenon DEF ReadCell
<1>2. found \subseteq Leaf
  <2>1. cells[e] \subseteq Leaf
    BY DEF ReadsInv, IInv, TypeOK
  <2>. QED
    BY <2>1
<1>3. Begin(r)
  BY Zenon DEF ReadCell
<1>4. CASE Proceed(r, "cell_not_found", NoBundle)
  <2>1. NoBundle \in Bundle
    BY TablesAssumption DEF NoBundle, Bundle, EpochIds
  <2>2. "cell_not_found" \in Outcomes
    BY DEF Outcomes
  <2>3. /\ call'[r] = "cell_not_found" /\ OtherCallsStay(r) /\ ReadsType'
        /\ UNCHANGED <<vars, attested>>
    BY <1>3, <1>4, <2>1, <2>2, ReadEffect
  <2>4. Underway(r)' /\ Answered(r)'
    BY <2>3 DEF Underway, Answered, Ongoing, Outcomes
  <2>. QED
    BY <2>3, <2>4, ReadKeeps
<1>5. ASSUME NEW l \in found,
             Proceed(r, "attestations", [NoBundle EXCEPT !.at = e, !.leaf = l])
      PROVE  ReadsInv'
  <2>. DEFINE b == [NoBundle EXCEPT !.at = e, !.leaf = l]
  <2>1. b \in Bundle /\ b.at = e /\ b.leaf = l
    BY <1>2 DEF NoBundle, Bundle
  <2>2. "attestations" \in Statements
    BY DEF Statements
  <2>. HIDE DEF b
  <2>3. /\ call'[r] = "attestations" /\ got'[r] = b /\ during'[r] = Now
        /\ OtherCallsStay(r) /\ ReadsType' /\ UNCHANGED <<vars, attested>>
    BY <1>3, <1>5, <2>1, <2>2, ReadEffect DEF b
  <2>4. mixed' = mixed /\ cells' = cells /\ built' = built
    BY <2>3 DEF vars, tables, history
  <2>5. l \in Leaf /\ CellOf(l) \in CellsOf(cells[e])
    BY <1>2 DEF CellsOf
  <2>6. Calm(r)' => l \in Fixture[built]
    <3>1. Calm(r)' => ~mixed
      BY <2>3 DEF Calm, Now
    <3>. QED
      BY <3>1, StoredCells DEF ReadsInv
  <2>7. mixed => "mixed" \in during'[r]
    BY <2>3 DEF Now
  <2>8. Underway(r)'
    BY <2>1, <2>3, <2>4, <2>5, <2>6, <2>7 DEF Underway
  <2>9. Answered(r)'
    BY <2>3 DEF Answered
  <2>. QED
    BY <2>3, <2>8, <2>9, ReadKeeps
<1>. QED
  BY <1>1, <1>4, <1>5, Zenon

\* 2: the attestations it finds are of the stored leaf of that cell.
LEMMA KeepReadAttestations ==
    ASSUME ReadsInv, NEW r \in Readers, ReadAttestations(r) PROVE ReadsInv'
<1>. DEFINE rows == {a \in attested : a[1] = got[r].at
                                      /\ CellOf(a[2]) = CellOf(got[r].leaf)}
            b == [got[r] EXCEPT !.attestations = rows]
<1>1. call[r] = "attestations" /\ Continue(r, "attestations") /\ Proceed(r, "epoch", b)
  BY DEF ReadAttestations, Continue
<1>2. got[r] \in Bundle /\ rows \subseteq Attestation
  BY DEF ReadsInv, ReadsType
<1>3. b \in Bundle /\ b.at = got[r].at /\ b.leaf = got[r].leaf /\ b.attestations = rows
  BY <1>2 DEF Bundle
<1>4. "epoch" \in Statements /\ "attestations" \in Statements /\ ~Begin(r)
  BY <1>1 DEF Statements, Begin, Outcomes
<1>. HIDE DEF b
<1>5. /\ call'[r] = "epoch" /\ got'[r] = b /\ during'[r] = during[r]
      /\ OtherCallsStay(r) /\ ReadsType' /\ UNCHANGED <<vars, attested>>
  BY <1>1, <1>3, <1>4, ReadEffect
<1>6. mixed' = mixed /\ cells' = cells /\ built' = built
  BY <1>5 DEF vars, tables, history
<1>7. Underway(r)
  BY DEF ReadsInv
<1>8. ASSUME Calm(r), NEW a \in rows PROVE a[2] = got[r].leaf
  <2>1. ~mixed
    BY <1>1, <1>7, <1>8 DEF Underway, Calm, Ongoing, Outcomes
  <2>2. a[2] \in cells[got[r].at] /\ got[r].at \in EpochIds
    BY <1>2 DEF ReadsInv, Attested, Bundle
  <2>3. a[2] \in Fixture[built] /\ got[r].leaf \in Fixture[built]
    BY <1>1, <1>7, <1>8, <2>1, <2>2, StoredCells DEF Underway, ReadsInv
  <2>4. built \in Versions
    BY DEF ReadsInv, IInv, TypeOK
  <2>. QED
    BY <2>3, <2>4, OneLeaf
<1>9. Underway(r)'
  BY <1>1, <1>3, <1>5, <1>6, <1>7, <1>8 DEF Underway, Calm, Ongoing, Outcomes
<1>10. Answered(r)'
  BY <1>5 DEF Answered
<1>. QED
  BY <1>5, <1>9, <1>10, ReadKeeps

\* 3: the epoch's row is there unless the epoch was erased.
LEMMA KeepReadEpoch ==
    ASSUME ReadsInv, NEW r \in Readers, ReadEpoch(r) PROVE ReadsInv'
<1>. DEFINE row == epochs[got[r].at]
            next == IF row = None THEN "epoch_missing" ELSE "hashes"
            b == [got[r] EXCEPT !.row = row]
<1>1. call[r] = "epoch" /\ Continue(r, "epoch") /\ Proceed(r, next, b)
  BY DEF ReadEpoch, Continue
<1>2. got[r] \in Bundle /\ got[r].at \in EpochIds /\ row \in EpochRow \cup {None}
  BY DEF ReadsInv, ReadsType, Bundle, IInv, TypeOK
<1>3. /\ b \in Bundle /\ b.at = got[r].at /\ b.leaf = got[r].leaf
      /\ b.attestations = got[r].attestations /\ b.row = row
  BY <1>2 DEF Bundle
<1>4. next \in Outcomes \cup Statements /\ "epoch" \in Statements /\ ~Begin(r)
  BY <1>1 DEF Statements, Begin, Outcomes
<1>. HIDE DEF b, next
<1>5. /\ call'[r] = next /\ got'[r] = b /\ during'[r] = during[r]
      /\ OtherCallsStay(r) /\ ReadsType' /\ UNCHANGED <<vars, attested>>
  BY <1>1, <1>3, <1>4, ReadEffect
<1>6. mixed' = mixed /\ cells' = cells /\ built' = built
  BY <1>5 DEF vars, tables, history
<1>7. Underway(r)
  BY DEF ReadsInv
<1>8. CASE row = None
  <2>1. next = "epoch_missing"
    BY <1>8 DEF next
  <2>2. cells[got[r].at] = {}
    BY <1>2, <1>8, StoredCells DEF ReadsInv, Sealed
  <2>3. "erased" \in during[r]
    BY <1>1, <1>7, <2>2 DEF Underway, CellsOf
  <2>4. Underway(r)' /\ Answered(r)'
    BY <1>5, <2>1, <2>3 DEF Underway, Answered, Ongoing, Outcomes
  <2>. QED
    BY <1>5, <2>4, ReadKeeps
<1>9. CASE row # None
  <2>1. next = "hashes" /\ got[r].at \in Sealed
    BY <1>2, <1>9 DEF next, Sealed
  <2>2. Calm(r) => row.root = MerkleRoot(got[r].at, Fixture[built])
    <3>1. Calm(r) => ~mixed
      BY <1>1, <1>7 DEF Underway, Calm, Ongoing, Outcomes
    <3>. QED
      BY <2>1, <3>1, RowInForce DEF ReadsInv
  <2>3. Underway(r)'
    BY <1>1, <1>3, <1>5, <1>6, <1>7, <2>1, <2>2 DEF Underway, Calm, Ongoing, Outcomes
  <2>4. Answered(r)'
    BY <1>5, <2>1 DEF Answered
  <2>. QED
    BY <1>5, <2>3, <2>4, ReadKeeps
<1>. QED
  BY <1>8, <1>9

\* 4: the hashes contain the cell unless its epoch was erased, and with the
\* leaf that was read they are those of the root.
LEMMA KeepReadHashes ==
    ASSUME ReadsInv, NEW r \in Readers, ReadHashes(r) PROVE ReadsInv'
<1>. DEFINE hashes == cells[got[r].at]
            present == CellOf(got[r].leaf) \in CellsOf(hashes)
            next == IF present THEN "found" ELSE "no_proof"
            b == [got[r] EXCEPT !.hashes = hashes]
<1>1. call[r] = "hashes" /\ Continue(r, "hashes") /\ Proceed(r, next, b)
  BY DEF ReadHashes, Continue
<1>2. got[r] \in Bundle /\ got[r].at \in EpochIds /\ hashes \in SUBSET Leaf
  BY DEF ReadsInv, ReadsType, Bundle, IInv, TypeOK
<1>3. /\ b \in Bundle /\ b.at = got[r].at /\ b.leaf = got[r].leaf
      /\ b.attestations = got[r].attestations /\ b.row = got[r].row /\ b.hashes = hashes
  BY <1>2 DEF Bundle
<1>4. next \in Outcomes \cup Statements /\ "hashes" \in Statements /\ ~Begin(r)
  BY <1>1 DEF Statements, Begin, Outcomes
<1>. HIDE DEF b, next
<1>5. /\ call'[r] = next /\ got'[r] = b /\ during'[r] = during[r]
      /\ OtherCallsStay(r) /\ ReadsType' /\ UNCHANGED <<vars, attested>>
  BY <1>1, <1>3, <1>4, ReadEffect
<1>6. Underway(r)
  BY DEF ReadsInv
<1>7. next \in {"found", "no_proof"}
  BY DEF next
<1>8. Underway(r)'
  BY <1>5, <1>7 DEF Underway, Ongoing, Outcomes
<1>9. ~present => "erased" \in during[r]
  BY <1>1, <1>6 DEF Underway
<1>10. ASSUME present, Calm(r)
       PROVE  /\ Verifies(b)
              /\ \A a \in b.attestations : a[2] = b.leaf
  <2>1. ~mixed
    BY <1>1, <1>6, <1>10 DEF Underway, Calm, Ongoing, Outcomes
  <2>2. hashes = Fixture[built]
    BY <1>2, <1>10, <2>1, StoredCells DEF ReadsInv, CellsOf
  <2>3. got[r].leaf \in Fixture[built] /\ built \in Versions
    BY <1>1, <1>6, <1>10 DEF Underway, ReadsInv, IInv, TypeOK
  <2>4. {l \in hashes : CellOf(l) # CellOf(got[r].leaf)} \cup {got[r].leaf} = Fixture[built]
    BY <2>2, <2>3, OneLeaf
  <2>5. got[r].row.root = MerkleRoot(got[r].at, Fixture[built])
    BY <1>1, <1>6, <1>10 DEF Underway
  <2>6. Verifies(b)
    BY <1>3, <2>4, <2>5 DEF Verifies
  <2>7. \A a \in b.attestations : a[2] = b.leaf
    BY <1>1, <1>3, <1>6, <1>10 DEF Underway
  <2>. QED
    BY <2>6, <2>7
<1>11. Answered(r)'
  <2>1. CASE present
    <3>1. next = "found"
      BY <2>1 DEF next
    <3>2. Calm(r)' => Calm(r)
      BY <1>5 DEF Calm
    <3>3. Calm(r) => Verifies(got[r])'
      BY <1>5, <1>10, <2>1 DEF Verifies
    <3>. QED
      BY <1>5, <1>10, <2>1, <3>1, <3>2, <3>3 DEF Answered
  <2>2. CASE ~present
    <3>1. next = "no_proof"
      BY <2>2 DEF next
    <3>. QED
      BY <1>5, <1>9, <2>2, <3>1 DEF Answered
  <2>. QED
    BY <2>1, <2>2
<1>. QED
  BY <1>5, <1>8, <1>11, ReadKeeps

\* render_viewport, 1: every epoch it shows is there.
LEMMA KeepReadRegion ==
    ASSUME ReadsInv, NEW r \in Readers, ReadRegion(r) PROVE ReadsInv'
<1>. DEFINE holders(c) == {e \in EpochIds : c \in CellsOf(cells[e])}
            latest(c) == CHOOSE e \in EpochIds :
                            /\ c \in CellsOf(cells[e])
                            /\ \A f \in EpochIds : c \in CellsOf(cells[f]) => f <= e
            stored == UNION {CellsOf(cells[e]) : e \in EpochIds}
            region == {latest(c) : c \in stored}
            b == [NoBundle EXCEPT !.region = region]
<1>1. Begin(r) /\ Proceed(r, "latest", b)
  BY DEF ReadRegion
<1>2. ASSUME NEW c \in stored PROVE latest(c) \in Sealed
  <2>1. holders(c) \in SUBSET EpochIds /\ holders(c) # {}
    OBVIOUS
  <2>2. \E e \in EpochIds : /\ c \in CellsOf(cells[e])
                            /\ \A f \in EpochIds : c \in CellsOf(cells[f]) => f <= e
    BY <2>1, LatestExists
  <2>3. latest(c) \in EpochIds /\ c \in CellsOf(cells[latest(c)])
    BY <2>2
  <2>. QED
    BY <2>3, StoredCells DEF ReadsInv, CellsOf
<1>3. region \subseteq Sealed
  BY <1>2
<1>. HIDE DEF region
<1>4. b \in Bundle /\ b.region = region
  BY <1>3, SealedAreEpochs, TablesAssumption DEF NoBundle, Bundle, EpochIds
<1>5. "latest" \in Statements
  BY DEF Statements
<1>. HIDE DEF b
<1>6. /\ call'[r] = "latest" /\ got'[r] = b /\ during'[r] = Now
      /\ OtherCallsStay(r) /\ ReadsType' /\ UNCHANGED <<vars, attested>>
  BY <1>1, <1>4, <1>5, ReadEffect
<1>7. mixed' = mixed /\ Sealed' = Sealed
  BY <1>6 DEF vars, tables, history, Sealed
<1>8. mixed => "mixed" \in during'[r]
  BY <1>6 DEF Now
<1>9. Underway(r)'
  BY <1>3, <1>4, <1>6, <1>7, <1>8 DEF Underway
<1>10. Answered(r)'
  BY <1>6 DEF Answered
<1>. QED
  BY <1>6, <1>9, <1>10, ReadKeeps

\* 2: no epoch is later than the label.
LEMMA KeepReadLatest ==
    ASSUME ReadsInv, NEW r \in Readers, ReadLatest(r) PROVE ReadsInv'
<1>1. /\ call[r] = "latest" /\ Continue(r, "latest")
      /\ \/ Sealed = {} /\ Proceed(r, "no_epoch", got[r])
         \/ \E e \in Sealed :
               /\ \A f \in Sealed : f <= e
               /\ Proceed(r, "rendered", [got[r] EXCEPT !.at = e])
  BY Zenon DEF ReadLatest, Continue
<1>2. /\ got[r] \in Bundle /\ "latest" \in Statements /\ ~Begin(r)
      /\ {"no_epoch", "rendered"} \subseteq Outcomes
  BY <1>1 DEF ReadsInv, ReadsType, Statements, Begin, Outcomes
<1>3. "erased" \in during[r] \/ got[r].region \subseteq Sealed
  BY <1>1 DEF ReadsInv, Underway
<1>4. CASE Sealed = {} /\ Proceed(r, "no_epoch", got[r])
  <2>1. /\ call'[r] = "no_epoch" /\ got'[r] = got[r] /\ during'[r] = during[r]
        /\ OtherCallsStay(r) /\ ReadsType' /\ UNCHANGED <<vars, attested>>
    BY <1>1, <1>2, <1>4, ReadEffect
  <2>2. Underway(r)' /\ Answered(r)'
    BY <1>3, <1>4, <2>1 DEF Underway, Answered, Ongoing, Outcomes
  <2>. QED
    BY <2>1, <2>2, ReadKeeps
<1>5. ASSUME NEW e \in Sealed, \A f \in Sealed : f <= e,
             Proceed(r, "rendered", [got[r] EXCEPT !.at = e])
      PROVE  ReadsInv'
  <2>. DEFINE b == [got[r] EXCEPT !.at = e]
  <2>1. b \in Bundle /\ b.at = e /\ b.region = got[r].region
    BY <1>2, SealedAreEpochs DEF Bundle
  <2>. HIDE DEF b
  <2>2. /\ call'[r] = "rendered" /\ got'[r] = b /\ during'[r] = during[r]
        /\ OtherCallsStay(r) /\ ReadsType' /\ UNCHANGED <<vars, attested>>
    BY <1>1, <1>2, <1>5, <2>1, ReadEffect DEF b
  <2>3. Underway(r)' /\ Answered(r)'
    BY <1>3, <1>5, <2>1, <2>2 DEF Underway, Answered, Ongoing, Outcomes
  <2>. QED
    BY <2>2, <2>3, ReadKeeps
<1>. QED
  BY <1>1, <1>4, <1>5, Zenon

\* A step of anybody else but a reader: calls under way keep what they have
\* read, the others are forgotten.
LEMMA ForgetEffect ==
    ASSUME ReadsInv, Forget, NEW r \in Readers
    PROVE  /\ Ongoing(r) => call'[r] = call[r] /\ got'[r] = got[r]
           /\ ~Ongoing(r) => call'[r] = "idle"
           /\ call' \in [Readers -> Outcomes \cup Statements]
           /\ got' \in [Readers -> Bundle]
<1>1. NoBundle \in Bundle
  BY TablesAssumption DEF NoBundle, Bundle, EpochIds
<1>. QED
  BY <1>1 DEF Forget, ReadsInv, ReadsType, Outcomes

\* A third party attests a stored row.
LEMMA KeepAttest ==
    ASSUME ReadsInv, NEW e \in EpochIds, NEW l \in Leaf, Attest(e, l) PROVE ReadsInv'
<1>1. /\ l \in cells[e] /\ attested' = attested \cup {<<e, l>>} /\ Forget
      /\ UNCHANGED <<vars, during>>
  BY DEF Attest
<1>2. UNCHANGED <<epochs, cells, built, mixed, Sealed>>
  BY <1>1 DEF vars, tables, history, Sealed
<1>3. IInv'
  BY <1>1, InvStep DEF ReadsInv
<1>4. ReadsType'
  <2>1. attested' \in SUBSET Attestation
    BY <1>1 DEF ReadsInv, ReadsType, Attestation
  <2>2. during' \in [Readers -> SUBSET Marks]
    BY <1>1 DEF ReadsInv, ReadsType
  <2>3. call' \in [Readers -> Outcomes \cup Statements] /\ got' \in [Readers -> Bundle]
    <3>1. CASE Readers = {}
      BY <1>1, <3>1 DEF Forget
    <3>2. CASE Readers # {}
      BY <1>1, <3>2, ForgetEffect
    <3>. QED
      BY <3>1, <3>2
  <2>. QED
    BY <2>1, <2>2, <2>3 DEF ReadsType
<1>5. Attested'
  BY <1>1, <1>2 DEF ReadsInv, Attested
<1>6. ASSUME NEW r \in Readers PROVE Underway(r)' /\ Answered(r)'
  <2>1. Underway(r)
    BY DEF ReadsInv
  <2>2. CASE Ongoing(r)
    <3>1. call'[r] = call[r] /\ got'[r] = got[r] /\ during'[r] = during[r]
      BY <1>1, <2>2, ForgetEffect
    <3>2. Underway(r)'
      BY <1>2, <2>1, <3>1 DEF Underway, Ongoing, Calm
    <3>3. Answered(r)'
      BY <2>2, <3>1 DEF Answered, Ongoing, Outcomes
    <3>. QED
      BY <3>2, <3>3
  <2>3. CASE ~Ongoing(r)
    <3>1. call'[r] = "idle"
      BY <1>1, <2>3, ForgetEffect
    <3>. QED
      BY <3>1 DEF Underway, Answered, Ongoing, Outcomes
  <2>. QED
    BY <2>2, <2>3
<1>. QED
  BY <1>3, <1>4, <1>5, <1>6 DEF ReadsInv

\* A step of a writer: what a call has read stays true, or its history says
\* why not.
LEMMA KeepWrite ==
    ASSUME ReadsInv, WriteStep PROVE ReadsInv'
<1>. DEFINE erasure == {u \in {"erased"} : \E e \in Sealed : epochs'[e] = None}
            new == Now' \cup erasure \cup {u \in {"rebuilt"} : built' # built}
<1>1. /\ Next /\ Cascade /\ Forget
      /\ during' = [r \in Readers |-> IF Ongoing(r) THEN during[r] \cup new ELSE {}]
  BY DEF WriteStep
<1>2. IInv /\ IInv' /\ [Next]_vars
  BY <1>1, InvStep DEF ReadsInv
<1>3. new \in SUBSET Marks
  BY DEF Now, Marks
<1>4. /\ mixed' => "mixed" \in new
      /\ built' # built => "rebuilt" \in new
      /\ (\E e \in Sealed : epochs'[e] = None) => "erased" \in new
  BY DEF Now
<1>. HIDE DEF new
<1>5. Attested'
  <2>. SUFFICES ASSUME NEW a \in attested' PROVE a[2] \in cells'[a[1]]
    BY DEF Attested
  <2>1. a \in attested /\ CellOf(a[2]) \in CellsOf(cells'[a[1]])
    BY <1>1 DEF Cascade
  <2>2. a[1] \in EpochIds /\ a[2] \in cells[a[1]]
    BY <2>1 DEF ReadsInv, ReadsType, Attestation, Attested
  <2>3. PICK m \in cells'[a[1]] : CellOf(m) = CellOf(a[2])
    BY <2>1 DEF CellsOf
  <2>. QED
    BY <1>2, <2>2, <2>3, RowsKeepContents DEF IInv
<1>6. ReadsType'
  <2>1. attested' \in SUBSET Attestation
    BY <1>1 DEF ReadsInv, ReadsType, Cascade
  <2>2. during' \in [Readers -> SUBSET Marks]
    BY <1>1, <1>3 DEF ReadsInv, ReadsType
  <2>3. call' \in [Readers -> Outcomes \cup Statements] /\ got' \in [Readers -> Bundle]
    <3>1. CASE Readers = {}
      BY <1>1, <3>1 DEF Forget
    <3>2. CASE Readers # {}
      BY <1>1, <3>2, ForgetEffect
    <3>. QED
      BY <3>1, <3>2
  <2>. QED
    BY <2>1, <2>2, <2>3 DEF ReadsType
<1>7. ASSUME NEW r \in Readers PROVE Underway(r)' /\ Answered(r)'
  <2>1. Underway(r)
    BY DEF ReadsInv
  <2>2. CASE Ongoing(r)
    <3>1. /\ call'[r] = call[r] /\ got'[r] = got[r] /\ during'[r] = during[r] \cup new
          /\ call[r] \notin Outcomes
      BY <1>1, <2>2, ForgetEffect DEF Ongoing
    <3>2. Calm(r)' => Calm(r) /\ built' = built
      BY <1>4, <3>1 DEF Calm
    <3>3. ASSUME "erased" \notin during'[r]
          PROVE  /\ "erased" \notin during[r]
                 /\ \A e \in EpochIds : cells[e] \subseteq cells'[e]
                 /\ Sealed \subseteq Sealed'
      <4>1. "erased" \notin during[r] /\ ~\E e \in Sealed : epochs'[e] = None
        BY <1>4, <3>1, <3>3
      <4>2. \A e \in EpochIds : cells[e] \subseteq cells'[e]
        BY <1>2, <4>1, CellsStay
      <4>3. Sealed \subseteq Sealed'
        BY <4>1 DEF Sealed
      <4>. QED
        BY <4>1, <4>2, <4>3
    <3>4. got[r].at \in EpochIds
      BY DEF ReadsInv, ReadsType, Bundle
    <3>5. ASSUME call[r] \in {"attestations", "epoch", "hashes"},
                 "erased" \notin during'[r]
          PROVE  CellOf(got[r].leaf) \in CellsOf(cells'[got[r].at])
      <4>1. CellOf(got[r].leaf) \in CellsOf(cells[got[r].at])
        BY <2>1, <3>3, <3>5 DEF Underway
      <4>. QED
        BY <3>3, <3>4, <3>5, <4>1 DEF CellsOf
    <3>6. call[r] = "latest" =>
              "erased" \in during'[r] \/ got[r].region \subseteq Sealed'
      BY <2>1, <3>3 DEF Underway
    <3>7. mixed' => "mixed" \in during'[r]
      BY <1>4, <3>1
    <3>8. Underway(r)'
      BY <2>1, <3>1, <3>2, <3>5, <3>6, <3>7 DEF Underway
    <3>9. Answered(r)'
      BY <3>1 DEF Answered, Outcomes
    <3>. QED
      BY <3>8, <3>9
  <2>3. CASE ~Ongoing(r)
    <3>1. call'[r] = "idle"
      BY <1>1, <2>3, ForgetEffect
    <3>. QED
      BY <3>1 DEF Underway, Answered, Ongoing, Outcomes
  <2>. QED
    BY <2>2, <2>3
<1>. QED
  BY <1>2, <1>5, <1>6, <1>7 DEF ReadsInv

-----------------------------------------------------------------------------
(* The properties.                                                         *)

\* The invariant of readers and writers: what a call has read is what the
\* store holds, or the history of the call says why not.
THEOREM ReadsInvariance == ReadsSpec => []ReadsInv
<1>1. ReadsInit => ReadsInv
  <2>. SUFFICES ASSUME ReadsInit PROVE ReadsInv
    OBVIOUS
  <2>1. IInv
    BY InitInv DEF ReadsInit
  <2>2. NoBundle \in Bundle
    BY TablesAssumption DEF NoBundle, Bundle, EpochIds
  <2>3. ReadsType
    BY <2>2 DEF ReadsInit, ReadsType, Outcomes
  <2>4. Attested
    BY DEF ReadsInit, Attested
  <2>5. \A r \in Readers : Underway(r) /\ Answered(r)
    BY DEF ReadsInit, Underway, Answered, Ongoing, Outcomes
  <2>. QED
    BY <2>1, <2>3, <2>4, <2>5 DEF ReadsInv
<1>2. ReadsInv /\ [ReadsNext]_allVars => ReadsInv'
  <2>. SUFFICES ASSUME ReadsInv, [ReadsNext]_allVars PROVE ReadsInv'
    OBVIOUS
  <2>1. CASE WriteStep
    BY <2>1, KeepWrite
  <2>2. ASSUME NEW r \in Readers, ReadStep(r) PROVE ReadsInv'
    BY <2>2, KeepReadCell, KeepReadAttestations, KeepReadEpoch, KeepReadHashes,
       KeepReadRegion, KeepReadLatest DEF ReadStep
  <2>3. ASSUME NEW e \in EpochIds, NEW l \in Leaf, Attest(e, l) PROVE ReadsInv'
    BY <2>3, KeepAttest
  <2>4. CASE UNCHANGED allVars
    <3>1. UNCHANGED <<vars, attested, call, got, during>>
      BY <2>4 DEF allVars, readVars
    <3>2. UNCHANGED <<epochs, cells, built, mixed, Sealed>>
      BY <3>1 DEF vars, tables, history, Sealed
    <3>3. IInv'
      BY <3>1, InvStep DEF ReadsInv
    <3>4. ReadsType' /\ Attested'
      BY <3>1, <3>2 DEF ReadsInv, ReadsType, Attested
    <3>5. \A r \in Readers : Underway(r)' /\ Answered(r)'
      BY <3>1, <3>2 DEF ReadsInv, Underway, Answered, Ongoing, Calm
    <3>. QED
      BY <3>3, <3>4, <3>5 DEF ReadsInv
  <2>. QED
    BY <2>1, <2>2, <2>3, <2>4 DEF ReadsNext
<1>. QED
  BY <1>1, <1>2, PTL DEF ReadsSpec

\* Beside readers the writers do what they do without them: every theorem
\* about Spec is one about ReadsSpec.
THEOREM ReadersDisturbNobody == ReadsSpec => Spec
<1>1. ReadsInit => Init
  BY DEF ReadsInit
<1>2. [ReadsNext]_allVars => [Next]_vars
  <2>1. ASSUME NEW r \in Readers, ReadStep(r) PROVE UNCHANGED vars
    <3>1. \A next, b : Proceed(r, next, b) => UNCHANGED vars
      BY DEF Proceed
    <3>2. CASE ReadAttestations(r) \/ ReadEpoch(r) \/ ReadHashes(r) \/ ReadRegion(r)
      BY <3>1, <3>2, Zenon DEF ReadAttestations, ReadEpoch, ReadHashes, ReadRegion
    <3>3. CASE (\E e \in EpochIds, c \in Cells : ReadCell(r, e, c)) \/ ReadLatest(r)
      BY <3>1, <3>3, Zenon DEF ReadCell, ReadLatest
    <3>. QED
      BY <2>1, <3>2, <3>3 DEF ReadStep
  <2>2. ASSUME NEW e \in EpochIds, NEW l \in Leaf, Attest(e, l) PROVE UNCHANGED vars
    BY <2>2 DEF Attest
  <2>3. WriteStep => Next
    BY DEF WriteStep
  <2>. QED
    BY <2>1, <2>2, <2>3 DEF ReadsNext, allVars
<1>. QED
  BY <1>1, <1>2, PTL DEF ReadsSpec, Spec

\* A bundle that get_provenance returns verifies, though its four statements
\* straddle erasures and re-seedings of the same contents
\* (mobydb-client/src/postgres.rs:378-451, get_provenance).
THEOREM BundlesVerify == ReadsSpec => []BundleVerifies
<1>1. ReadsInv => BundleVerifies
  BY DEF ReadsInv, Answered, Calm, BundleVerifies
<1>. QED
  BY <1>1, ReadsInvariance, PTL

\* The attestations of a bundle are of its content, without a re-seeding during
\* the call (get_provenance, and ON DELETE CASCADE of attestations).
THEOREM AttestationsAreOfContent == ReadsSpec => []AttestationsFit
<1>1. ReadsInv => AttestationsFit
  BY DEF ReadsInv, Answered, Calm, AttestationsFit
<1>. QED
  BY <1>1, ReadsInvariance, PTL

\* A server error of get_provenance only comes of an erasure during the call.
THEOREM ErrorsAreErasures == ReadsSpec => []ErrorsComeOfErasure
<1>1. ReadsInv => ErrorsComeOfErasure
  BY DEF ReadsInv, Answered, ErrorsComeOfErasure
<1>. QED
  BY <1>1, ReadsInvariance, PTL

\* The label of a viewport is not older than what it shows, without an erasure
\* between the two transactions of render_viewport.
THEOREM LabelsCoverRegions == ReadsSpec => []LabelCoversRegion
<1>1. ReadsInv => LabelCoversRegion
  BY DEF ReadsInv, Answered, LabelCoversRegion
<1>. QED
  BY <1>1, ReadsInvariance, PTL
=============================================================================
