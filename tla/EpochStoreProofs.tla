-------------------------- MODULE EpochStoreProofs --------------------------
(***************************************************************************)
(* Proofs about EpochStore, for every set of operators, cells and fixture  *)
(* contents and every number of epochs.                                    *)
(*                                                                         *)
(* The safety properties are not inductive: that a committed epoch is      *)
(* whole follows from what the open transactions hold and from who waits   *)
(* for whom.  IInv states it in four parts: the shape an open transaction  *)
(* has at each label; what the keys and the row locks ensure of the tables *)
(* and of the open transactions (Schema); how far a seeder has come        *)
(* (NoneSkipped); and what the procedure of reseed_italy.sh ensures (Core).*)
(* Only Core is lost in a mixed store.                                     *)
(***************************************************************************)
EXTENDS EpochStore, FiniteSetTheorems, TLAPS

-----------------------------------------------------------------------------
\* What a transaction has not done yet, and what a rolled back one leaves;
\* a seeder is at one of the epochs it writes.
Shape ==
    \A p \in Operators :
        /\ pc[p] # "fill" => tx[p].fresh = FALSE /\ tx[p].added = {}
        /\ pc[p] \notin {"wipe_epochs", "wipe_commit"} => tx[p].wiped = NoWipe
        /\ pc[p] # "wipe_commit" => tx[p].dropped = {}
        /\ pc[p] \in Seeding => Cursor(p) \in EpochIds

\* The keys of the two tables: a cell needs its epoch's row, and an epoch has
\* one row for a cell.
KeysHold ==
    \A e \in EpochIds :
        /\ e \notin Sealed => cells[e] = {}
        /\ \A l, m \in cells[e] : CellOf(l) = CellOf(m) => l = m

\* An epoch is inserted by one open transaction, and is not there yet.
OneSealer ==
    \A p \in Operators : tx[p].fresh =>
        /\ Cursor(p) \notin Sealed
        /\ \A q \in Operators : tx[q].fresh /\ Cursor(p) = Cursor(q) => p = q

\* What a seeder has inserted and what it has left to insert is of the
\* contents it has loaded.  The cells it has inserted are in nobody else's
\* way, and if it found their epoch there it holds the epoch by the foreign
\* key: the row stays until it commits.
FillInv ==
    \A p \in Operators :
        /\ pc[p] \in {"seal", "fill"} => tx[p].todo \subseteq Fixture[run[p].version]
        /\ tx[p].added \subseteq Fixture[run[p].version]
        /\ tx[p].added # {} /\ ~tx[p].fresh =>
              /\ Cursor(p) \in Sealed
              /\ \A q \in Operators : Cursor(p) \notin tx[q].dropped
        /\ \A l \in tx[p].added :
              /\ \A m \in cells[Cursor(p)] : CellOf(l) # CellOf(m)
              /\ \A q \in Operators \ {p} : Cursor(q) = Cursor(p) =>
                    \A m \in tx[q].added : CellOf(l) # CellOf(m)

\* A clearing transaction has claimed stored cells that no other has
\* claimed, and drops an epoch only with all of its cells.
WipeInv ==
    \A p \in Operators : \A e \in EpochIds :
        /\ tx[p].wiped[e] \subseteq cells[e]
        /\ e \notin Scope(run[p].script) => tx[p].wiped[e] = {}
        /\ e \in tx[p].dropped => e \in Sealed /\ tx[p].wiped[e] = cells[e]
        /\ pc[p] = "wipe_commit" /\ e \notin tx[p].dropped => tx[p].wiped[e] = {}
        /\ \A q \in Operators \ {p} :
              /\ tx[p].wiped[e] \cap tx[q].wiped[e] = {}
              /\ e \in tx[q].dropped => tx[p].wiped[e] = {} /\ e \notin tx[p].dropped

\* What the constraints and the row locks ensure, in every store.
Schema == KeysHold /\ OneSealer /\ FillInv /\ WipeInv

\* A seeder has an epoch behind each step of its cursor, unless one was
\* erased since it started; nor can it lose the one it is filling.
NoneSkipped ==
    \A p \in Operators :
        /\ pc[p] \in Wiping => Cursor(p) = 0
        /\ pc[p] \in Seeding \cup {"done"} /\ ~disturbed[p] =>
              /\ \A e \in EpochIds : e < Cursor(p) => e \in Sealed
              /\ pc[p] = "fill" /\ ~tx[p].fresh => Cursor(p) \in Sealed

\* The committed tables are a log built from one content of the fixture.
LogWhole ==
    \A e \in Sealed : /\ epochs[e] = SealedRow(e, built)
                      /\ cells[e] = Fixture[built]

\* A running seeder works from the contents the store is built from, and
\* has in memory the root of the epoch before its cursor.
SeederInv ==
    \A p \in Operators :
        /\ pc[p] = "launch" => built = fixture
        /\ pc[p] \in Seeding =>
              /\ built = fixture
              /\ run[p].version = fixture
              /\ run[p].parent = ParentRoot(Cursor(p), Fixture[fixture])

\* What a seeder has inserted in a new epoch and what is left to insert make
\* up the fixture.  A seeder that found the epoch there has nothing to insert.
InsertInv ==
    \A p \in Operators :
        /\ tx[p].fresh => tx[p].added \cup tx[p].todo = Fixture[built]
        /\ ~tx[p].fresh => tx[p].added = {}
        /\ pc[p] = "seal" => tx[p].todo = Fixture[built]

\* A clear that will change the contents the store is built from takes all
\* the epochs there are.
ReseedInv ==
    \A p \in Operators :
        pc[p] = "wipe_commit" /\ run[p].script = "reseed" /\ Stale =>
            Sealed \subseteq tx[p].dropped

\* What the procedure of reseed_italy.sh ensures, while it is followed.
Core == LogWhole /\ SeederInv /\ InsertInv /\ ReseedInv

IInv == TypeOK /\ Shape /\ Schema /\ NoneSkipped /\ (~mixed => Core)
-----------------------------------------------------------------------------
(* Types.                                                                  *)

\* A batch is taken from the rows still to insert.
LEMMA FirstBatchSubset ==
    ASSUME NEW todo PROVE FirstBatch(todo) \subseteq todo
BY DEF FirstBatch

\* The values the seeder computes are rows and roots of the schema.
LEMMA RowTypes ==
    ASSUME NEW e \in EpochIds, NEW v \in Versions,
           NEW parent \in Root \cup {None}
    PROVE  /\ MerkleRoot(e, Fixture[v]) \in Root
           /\ NewRow(e, parent, Fixture[v]) \in EpochRow
           /\ NewRow(e, parent, Fixture[v]) # None
<1>1. Cardinality(Fixture[v]) \in Nat
  BY TablesAssumption, FS_CardinalityType
<1>2. MerkleRoot(e, Fixture[v]) \in Root
  BY TablesAssumption DEF MerkleRoot, Root
<1>3. NewRow(e, parent, Fixture[v]) \in EpochRow
  BY <1>1, <1>2 DEF NewRow, EpochRow
<1>. QED
  BY <1>2, <1>3, NoneAssumption

\* The parent a run holds is a root or NULL.
LEMMA ParentRootType ==
    ASSUME NEW e \in 0 .. EpochCount, NEW v \in Versions
    PROVE  ParentRoot(e, Fixture[v]) \in Root \cup {None}
<1>1. CASE e = 0
  BY <1>1 DEF ParentRoot
<1>2. CASE e # 0
  <2>1. e - 1 \in EpochIds
    BY <1>2, TablesAssumption DEF EpochIds
  <2>2. MerkleRoot(e - 1, Fixture[v]) \in Root
    BY <2>1, TablesAssumption DEF MerkleRoot, Root
  <2>. QED
    BY <1>2, <2>2 DEF ParentRoot
<1>. QED
  BY <1>1, <1>2

\* A transaction that has done nothing is a transaction.
LEMMA NoTxType == NoTx \in Tx
BY DEF NoTx, NoWipe, Tx

\* Each statement changes one or two fields of the open transaction.
LEMMA TxUpdates ==
    ASSUME NEW t \in Tx, NEW x \in SUBSET Leaf, NEW y \in SUBSET Leaf,
           NEW w \in [EpochIds -> SUBSET Leaf], NEW d \in SUBSET EpochIds
    PROVE  /\ [t EXCEPT !.todo = x] \in Tx
           /\ [t EXCEPT !.fresh = TRUE] \in Tx
           /\ [t EXCEPT !.added = y, !.todo = x] \in Tx
           /\ [t EXCEPT !.wiped = w] \in Tx
           /\ [t EXCEPT !.dropped = d] \in Tx
BY DEF Tx

\* A run that starts has the type of a run.
LEMMA NewRunType ==
    ASSUME TypeOK, NEW script \in Scripts PROVE NewRun(script) \in Run
BY TablesAssumption DEF TypeOK, NewRun, Run

\* The types and shapes hold of the empty store.
LEMMA InitType == Init => TypeOK /\ Shape
<1>. SUFFICES ASSUME Init PROVE TypeOK /\ Shape
  OBVIOUS
<1>1. run \in [Operators -> Run]
  BY TablesAssumption DEF Init, NewRun, Run, Scripts
<1>. QED
  BY <1>1, NoTxType DEF Init, TypeOK, Shape, NoTx, Labels, Resting, Seeding

\* The typing of one step, action by action.
LEMMA TypeStep == TypeOK /\ Shape /\ [Next]_vars => TypeOK' /\ Shape'
<1>. SUFFICES ASSUME TypeOK, Shape, [Next]_vars PROVE TypeOK' /\ Shape'
  OBVIOUS
<1>. USE DEF TypeOK, Shape, Labels, Resting, Seeding, Wiping, tables, history,
             Cursor
<1>fail. ASSUME NEW p \in Operators, Fail(p) PROVE TypeOK' /\ Shape'
  <2>1. tx' \in [Operators -> Tx]
    BY <1>fail, NoTxType DEF Fail
  <2>. QED
    BY <1>fail, <2>1 DEF Fail, NoTx
<1>begin. ASSUME NEW p \in Operators, NEW script \in Scripts,
                 BeginSeeding(p, script), mixed' \in BOOLEAN,
                 pc[p] \in Resting \cup {"launch"}
          PROVE  TypeOK' /\ Shape'
  <2>1. 0 \in EpochIds /\ NewRun(script).cursor = 0
    BY TablesAssumption DEF EpochIds, NewRun
  <2>. QED
    BY <1>begin, <2>1, NewRunType DEF BeginSeeding
<1>1. ASSUME NEW p \in Operators, StartSeed(p) PROVE TypeOK' /\ Shape'
  BY <1>1, <1>begin DEF StartSeed, Stale, Scripts
<1>2. ASSUME NEW p \in Operators, Launch(p) PROVE TypeOK' /\ Shape'
  BY <1>2, <1>begin DEF Launch, Scripts
<1>3. ASSUME NEW p \in Operators, Check(p) PROVE TypeOK' /\ Shape'
  <2>1. Fixture[run[p].version] \in SUBSET Leaf
    BY TablesAssumption DEF Run
  <2>2. tx' \in [Operators -> Tx]
    <3>1. tx[p] \in Tx
      OBVIOUS
    <3>2. [tx[p] EXCEPT !.todo = Fixture[run[p].version]] \in Tx
      BY <2>1, <3>1, TxUpdates
    <3>. QED
      BY <1>3, <3>2 DEF Check
  <2>. QED
    BY <1>3, <2>2 DEF Check, Tx
<1>4. ASSUME NEW p \in Operators, Seal(p) PROVE TypeOK' /\ Shape'
  <2>1. CASE Fail(p)
    BY <2>1, <1>fail
  <2>2. CASE ~Fail(p)
    <3>1. /\ pc[p] = "seal"
          /\ tx' = [tx EXCEPT ![p].fresh = TRUE]
          /\ pc' = [pc EXCEPT ![p] = "fill"]
          /\ UNCHANGED <<fixture, epochs, cells, run, built, mixed, disturbed>>
      BY <1>4, <2>2 DEF Seal, Runs
    <3>2. [tx[p] EXCEPT !.fresh = TRUE] \in Tx
      BY TxUpdates
    <3>3. tx' \in [Operators -> Tx]
      BY <3>1, <3>2
    <3>. QED
      BY <3>1, <3>3 DEF Tx
  <2>. QED
    BY <2>1, <2>2
<1>5. ASSUME NEW p \in Operators, Fill(p) PROVE TypeOK' /\ Shape'
  <2>1. CASE Fail(p)
    BY <2>1, <1>fail
  <2>2. CASE ~Fail(p)
    <3>1. NewCells(p) \subseteq FirstBatch(tx[p].todo)
      BY DEF NewCells
    <3>2. NewCells(p) \subseteq Leaf
      BY <3>1, FirstBatchSubset DEF Tx
    <3>3. /\ pc[p] = "fill"
          /\ tx' = [tx EXCEPT ![p].added = tx[p].added \cup NewCells(p),
                              ![p].todo = tx[p].todo \ FirstBatch(tx[p].todo)]
          /\ UNCHANGED <<fixture, epochs, cells, pc, run, built, mixed, disturbed>>
      BY <1>5, <2>2 DEF Fill, Runs
    <3>4. tx' \in [Operators -> Tx]
      <4>1. tx[p].added \cup NewCells(p) \in SUBSET Leaf
            /\ tx[p].todo \ FirstBatch(tx[p].todo) \in SUBSET Leaf
        BY <3>2 DEF Tx
      <4>2. [tx[p] EXCEPT !.added = tx[p].added \cup NewCells(p),
                          !.todo = tx[p].todo \ FirstBatch(tx[p].todo)] \in Tx
        BY <4>1, TxUpdates
      <4>. QED
        BY <3>3, <4>2
    <3>. QED
      BY <3>3, <3>4 DEF Tx
  <2>. QED
    BY <2>1, <2>2
<1>6. ASSUME NEW p \in Operators, Commit(p) PROVE TypeOK' /\ Shape'
  <2>1. run[p].version \in Versions /\ run[p].parent \in Root \cup {None}
    BY DEF Run
  <2>2. Cursor(p) \in EpochIds
    BY <1>6 DEF Commit, Publish, NextLabel
  <2>3. /\ NewRow(Cursor(p), run[p].parent, Fixture[run[p].version]) \in EpochRow
        /\ MerkleRoot(Cursor(p), Fixture[run[p].version]) \in Root
    BY <2>1, <2>2, RowTypes
  <2>4. Cursor(p) + 1 \in 0 .. EpochCount
    BY <2>2, TablesAssumption DEF EpochIds
  <2>5. epochs' \in [EpochIds -> EpochRow \cup {None}]
    BY <1>6, <2>2, <2>3 DEF Commit, Publish, NextLabel
  <2>6. cells' \in [EpochIds -> SUBSET Leaf]
    BY <1>6, <2>2 DEF Commit, Publish, NextLabel, Tx
  <2>7. run' \in [Operators -> Run]
    BY <1>6, <2>3, <2>4 DEF Commit, Publish, NextLabel, Run
  <2>8. tx' \in [Operators -> Tx]
    BY <1>6, NoTxType DEF Commit, Publish, NextLabel
  <2>9. TypeOK'
    BY <1>6, <2>5, <2>6, <2>7, <2>8 DEF Commit, Publish, NextLabel
  <2>10. \A q \in Operators : pc'[q] \in Seeding => Cursor(q)' \in EpochIds
    BY <1>6, <2>2, <2>4, TablesAssumption DEF Commit, Publish, NextLabel, Cursor, EpochIds, Run
  <2>. QED
    BY <1>6, <2>9, <2>10 DEF Commit, Publish, NextLabel, NoTx
<1>7. ASSUME NEW p \in Operators, NEW script \in {"reseed", "hotfix"},
             StartWipe(p, script)
      PROVE  TypeOK' /\ Shape'
  BY <1>7, NewRunType DEF StartWipe, Scripts
<1>8. ASSUME NEW p \in Operators, WipeCells(p) PROVE TypeOK' /\ Shape'
  <2>1. tx' \in [Operators -> Tx]
    <3>1. [e \in EpochIds |-> IF e \in Scope(run[p].script) THEN cells[e] ELSE {}]
             \in [EpochIds -> SUBSET Leaf]
      OBVIOUS
    <3>2. [tx[p] EXCEPT !.wiped =
              [e \in EpochIds |->
                  IF e \in Scope(run[p].script) THEN cells[e] ELSE {}]] \in Tx
      BY <3>1, TxUpdates
    <3>. QED
      BY <1>8, <3>2 DEF WipeCells
  <2>. QED
    BY <1>8, <2>1 DEF WipeCells, Runs, Tx
<1>9. ASSUME NEW p \in Operators, WipeEpochs(p) PROVE TypeOK' /\ Shape'
  <2>1. CASE Fail(p)
    BY <2>1, <1>fail
  <2>2. CASE ~Fail(p)
    <3>1. /\ pc[p] = "wipe_epochs"
          /\ tx' = [tx EXCEPT ![p].dropped = Scope(run[p].script) \cap Sealed]
          /\ pc' = [pc EXCEPT ![p] = "wipe_commit"]
          /\ UNCHANGED <<fixture, epochs, cells, run, built, mixed, disturbed>>
      BY <1>9, <2>2 DEF WipeEpochs, Runs
    <3>2. Scope(run[p].script) \cap Sealed \subseteq EpochIds
      BY DEF Sealed
    <3>3. tx' \in [Operators -> Tx]
      <4>1. [tx[p] EXCEPT !.dropped = Scope(run[p].script) \cap Sealed] \in Tx
        BY <3>2, TxUpdates
      <4>. QED
        BY <3>1, <4>1
    <3>. QED
      BY <3>1, <3>3 DEF Tx
  <2>. QED
    BY <2>1, <2>2
<1>10. ASSUME NEW p \in Operators, WipeCommit(p) PROVE TypeOK' /\ Shape'
  <2>1. tx' \in [Operators -> Tx]
    BY <1>10, NoTxType DEF WipeCommit
  <2>2. cells' \in [EpochIds -> SUBSET Leaf]
    BY <1>10 DEF WipeCommit
  <2>3. epochs' \in [EpochIds -> EpochRow \cup {None}]
    BY <1>10 DEF WipeCommit
  <2>4. disturbed' \in [Operators -> BOOLEAN] /\ mixed' \in BOOLEAN
    BY <1>10, Zenon DEF WipeCommit
  <2>. QED
    BY <1>10, <2>1, <2>2, <2>3, <2>4 DEF WipeCommit, NoTx
<1>11. ASSUME NEW v \in Versions, RefreshFixture(v) PROVE TypeOK' /\ Shape'
  BY <1>11 DEF RefreshFixture
<1>12. CASE UNCHANGED vars
  BY <1>12 DEF vars
<1>. QED
  BY <1>fail, <1>1, <1>2, <1>3, <1>4, <1>5, <1>6, <1>7, <1>8, <1>9, <1>10,
     <1>11, <1>12 DEF Next, Step, Crash, DeadlockVictim

\* Every variable always has its type, mixed store or not.
THEOREM TypeCorrect == Spec => []TypeOK
<1>1. Init => TypeOK /\ Shape
  BY InitType
<1>2. TypeOK /\ Shape /\ [Next]_vars => TypeOK' /\ Shape'
  BY TypeStep
<1>. QED
  BY <1>1, <1>2, PTL DEF Spec

-----------------------------------------------------------------------------
(* What each statement does, field by field: the form in which the proofs  *)
(* below use the actions.                                                  *)

\* No operator but p has done anything.
OthersStay(p) ==
    \A q \in Operators \ {p} : /\ pc'[q] = pc[q] /\ tx'[q] = tx[q]
                               /\ run'[q] = run[q] /\ Cursor(q)' = Cursor(q)

\* A transaction that holds nothing.
Cleared(t) ==
    /\ ~t.fresh /\ t.added = {} /\ t.dropped = {}
    /\ \A e \in EpochIds : t.wiped[e] = {}

TablesStay == UNCHANGED <<epochs, cells, Sealed>>

\* Sealed epochs are epochs.
LEMMA SealedAreEpochs == Sealed \subseteq EpochIds
BY DEF Sealed

\* A transaction outside its statements holds nothing.
LEMMA RestCleared ==
    ASSUME Shape, NEW p \in Operators,
           pc[p] \notin {"fill", "wipe_epochs", "wipe_commit"}
    PROVE  Cleared(tx[p])
BY DEF Shape, Cleared, NoWipe

\* A rollback.
LEMMA FailEffect ==
    ASSUME TypeOK, NEW p \in Operators, Fail(p)
    PROVE  /\ pc'[p] = "idle" /\ Cleared(tx'[p]) /\ UNCHANGED <<run, Cursor(p)>>
           /\ OthersStay(p) /\ TablesStay /\ UNCHANGED <<fixture, built, mixed, disturbed>>
BY DEF TypeOK, Fail, NoTx, NoWipe, tables, history, Sealed, OthersStay, Cleared,
       TablesStay, Cursor

\* The start of the seeder's loop.
LEMMA BeginEffect ==
    ASSUME TypeOK, Shape, NEW p \in Operators, NEW script,
           pc[p] \in Resting \cup {"launch"}, BeginSeeding(p, script)
    PROVE  /\ pc'[p] = "check" /\ Cleared(tx'[p]) /\ tx' = tx
           /\ run'[p].version = fixture /\ run'[p].parent = None
           /\ Cursor(p)' = 0 /\ disturbed'[p] = FALSE
           /\ \A q \in Operators \ {p} : disturbed'[q] = disturbed[q]
           /\ OthersStay(p) /\ TablesStay /\ UNCHANGED <<fixture, built>>
<1>1. Cleared(tx[p])
  BY RestCleared DEF Resting
<1>. QED
  BY <1>1 DEF TypeOK, BeginSeeding, NewRun, tables, Sealed, OthersStay, Cleared,
              TablesStay, Cursor

\* SELECT EXISTS.
LEMMA CheckEffect ==
    ASSUME TypeOK, Shape, NEW p \in Operators, Check(p)
    PROVE  /\ pc[p] = "check"
           /\ pc'[p] = IF Cursor(p) \in Sealed THEN "fill" ELSE "seal"
           /\ Cleared(tx'[p]) /\ tx'[p].todo = Fixture[run[p].version]
           /\ UNCHANGED <<run, Cursor(p)>>
           /\ OthersStay(p) /\ TablesStay /\ UNCHANGED <<fixture, built, mixed, disturbed>>
<1>1. pc[p] = "check" /\ Cleared(tx[p])
  BY RestCleared DEF Check
<1>. QED
  BY <1>1 DEF TypeOK, Tx, Check, tables, history, Sealed, OthersStay, Cleared,
              TablesStay, Cursor

\* INSERT INTO epochs, if it succeeds.
LEMMA SealEffect ==
    ASSUME TypeOK, Shape, NEW p \in Operators, Seal(p), ~Fail(p)
    PROVE  /\ pc[p] = "seal" /\ pc'[p] = "fill" /\ Cursor(p) \notin Sealed
           /\ \A q \in Operators \ {p} :
                 /\ tx[q].fresh => Cursor(q) # Cursor(p)
                 /\ Cursor(p) \notin tx[q].dropped
           /\ tx'[p].fresh /\ tx'[p].todo = tx[p].todo
           /\ tx'[p].added = {} /\ tx'[p].dropped = {}
           /\ \A e \in EpochIds : tx'[p].wiped[e] = {}
           /\ UNCHANGED <<run, Cursor(p)>>
           /\ OthersStay(p) /\ TablesStay /\ UNCHANGED <<fixture, built, mixed, disturbed>>
<1>1. pc[p] = "seal" /\ Cleared(tx[p])
  BY RestCleared DEF Seal, Runs
<1>2. \A q \in Operators \ {p} : ~WaitsToSeal(p, q)
  BY <1>1 DEF Seal, Runs, WaitsFor
<1>3. /\ Cursor(p) \notin Sealed
      /\ tx' = [tx EXCEPT ![p] = [tx[p] EXCEPT !.fresh = TRUE]]
      /\ pc' = [pc EXCEPT ![p] = "fill"]
      /\ UNCHANGED <<fixture, tables, run, history>>
  BY DEF Seal
<1>4. tx[p] \in Tx
  BY DEF TypeOK
<1>5. tx'[p] = [tx[p] EXCEPT !.fresh = TRUE]
  BY <1>3 DEF TypeOK
<1>6. OthersStay(p) /\ TablesStay /\ UNCHANGED <<run, Cursor(p), fixture, built, mixed, disturbed>>
  BY <1>3 DEF TypeOK, tables, history, Sealed, OthersStay, TablesStay, Cursor
<1>. QED
  BY <1>1, <1>2, <1>3, <1>4, <1>5, <1>6 DEF TypeOK, Tx, Cleared, WaitsToSeal

\* One INSERT INTO cell_states, if it succeeds: the rows are new, of cells
\* that nobody else is inserting, and of an epoch that nobody is deleting.
LEMMA FillEffect ==
    ASSUME TypeOK, Shape, NEW p \in Operators, Fill(p), ~Fail(p)
    PROVE  /\ pc[p] = "fill" /\ pc'[p] = "fill" /\ Cursor(p) \in EpochIds
           /\ NewCells(p) # {} /\ ~tx[p].fresh => Cursor(p) \in Sealed
           /\ NewCells(p) \subseteq tx[p].todo
           /\ \A l \in NewCells(p) :
                 /\ \A m \in cells[Cursor(p)] : CellOf(l) # CellOf(m)
                 /\ \A q \in Operators \ {p} : Cursor(q) = Cursor(p) =>
                       \A m \in tx[q].added : CellOf(l) # CellOf(m)
           /\ NewCells(p) # {} /\ ~tx[p].fresh =>
                 \A q \in Operators : Cursor(p) \notin tx[q].dropped
           /\ tx'[p].fresh = tx[p].fresh
           /\ tx'[p].added = tx[p].added \cup NewCells(p)
           /\ tx'[p].todo = tx[p].todo \ FirstBatch(tx[p].todo)
           /\ tx'[p].dropped = {}
           /\ \A e \in EpochIds : tx'[p].wiped[e] = {}
           /\ UNCHANGED <<run, Cursor(p)>>
           /\ OthersStay(p) /\ TablesStay /\ UNCHANGED <<fixture, built, mixed, disturbed>>
<1>. DEFINE batch == FirstBatch(tx[p].todo)
<1>1. /\ pc[p] = "fill"
      /\ \A q \in Operators \ {p} : ~WaitsToFill(p, q)
      /\ ~(NewCells(p) # {} /\ ~tx[p].fresh /\ Cursor(p) \notin Sealed)
      /\ tx' = [tx EXCEPT ![p] = [tx[p] EXCEPT !.added = tx[p].added \cup NewCells(p),
                                              !.todo = tx[p].todo \ batch]]
      /\ UNCHANGED <<fixture, epochs, cells, pc, run, built, mixed, disturbed>>
  BY DEF Fill, Runs, WaitsFor, tables, history
<1>2. /\ Cursor(p) \in EpochIds /\ tx[p].dropped = {}
      /\ \A e \in EpochIds : tx[p].wiped[e] = {}
  BY <1>1 DEF Shape, Seeding, NoWipe
<1>3. NewCells(p) \subseteq batch /\ batch \subseteq tx[p].todo
  BY FirstBatchSubset DEF NewCells
<1>4. \A l \in NewCells(p) : \A m \in cells[Cursor(p)] : CellOf(l) # CellOf(m)
  BY DEF NewCells, CellsOf
<1>5. ASSUME NEW q \in Operators \ {p}, Cursor(q) = Cursor(p),
             NEW l \in NewCells(p), NEW m \in tx[q].added
      PROVE  CellOf(l) # CellOf(m)
  <2>1. CellsOf(tx[q].added) \cap CellsOf(batch) = {}
    BY <1>1, <1>5 DEF WaitsToFill
  <2>2. CellOf(m) \in CellsOf(tx[q].added) /\ CellOf(l) \in CellsOf(batch)
    BY <1>3, <1>5 DEF CellsOf
  <2>. QED
    BY <2>1, <2>2
<1>6. NewCells(p) # {} /\ ~tx[p].fresh =>
          \A q \in Operators : Cursor(p) \notin tx[q].dropped
  BY <1>1, <1>2 DEF WaitsToFill
<1>7. OthersStay(p) /\ TablesStay /\ UNCHANGED <<run, pc, Cursor(p), fixture, built, mixed, disturbed>>
  BY <1>1 DEF TypeOK, Sealed, OthersStay, TablesStay, Cursor
<1>8. /\ tx'[p].fresh = tx[p].fresh
      /\ tx'[p].added = tx[p].added \cup NewCells(p)
      /\ tx'[p].todo = tx[p].todo \ batch
      /\ tx'[p].wiped = tx[p].wiped
      /\ tx'[p].dropped = tx[p].dropped
  BY <1>1 DEF TypeOK, Tx
<1>. QED
  BY <1>1, <1>2, <1>3, <1>4, <1>5, <1>6, <1>7, <1>8

\* The COMMIT of one epoch.
LEMMA CommitEffect ==
    ASSUME TypeOK, Shape, NEW p \in Operators, Commit(p)
    PROVE  /\ pc[p] = "fill" /\ tx[p].todo = {} /\ Cursor(p) \in EpochIds
           /\ pc'[p] = IF Cursor(p) + 1 < EpochCount THEN "check" ELSE "done"
           /\ Cursor(p)' = Cursor(p) + 1
           /\ run'[p].parent = MerkleRoot(Cursor(p), Fixture[run[p].version])
           /\ run'[p].version = run[p].version /\ run'[p].script = run[p].script
           /\ Cleared(tx'[p])
           /\ tx[p].fresh => epochs'[Cursor(p)] =
                 NewRow(Cursor(p), run[p].parent, Fixture[run[p].version])
           /\ ~tx[p].fresh => epochs' = epochs
           /\ cells'[Cursor(p)] = cells[Cursor(p)] \cup tx[p].added
           /\ \A e \in EpochIds :
                 /\ e # Cursor(p) => epochs'[e] = epochs[e] /\ cells'[e] = cells[e]
                 /\ e \in Sealed' <=> e \in Sealed \/ (e = Cursor(p) /\ tx[p].fresh)
           /\ OthersStay(p) /\ UNCHANGED <<fixture, built, mixed, disturbed>>
<1>. DEFINE row == NewRow(Cursor(p), run[p].parent, Fixture[run[p].version])
<1>1. /\ pc[p] = "fill" /\ tx[p].todo = {}
      /\ epochs' = IF tx[p].fresh THEN [epochs EXCEPT ![Cursor(p)] = row] ELSE epochs
      /\ cells' = [cells EXCEPT ![Cursor(p)] = cells[Cursor(p)] \cup tx[p].added]
      /\ tx' = [tx EXCEPT ![p] = NoTx]
      /\ run' = [run EXCEPT ![p] = [run[p] EXCEPT
                    !.cursor = run[p].cursor + 1,
                    !.parent = MerkleRoot(Cursor(p), Fixture[run[p].version])]]
      /\ pc' = [pc EXCEPT ![p] =
                   IF Cursor(p) + 1 < EpochCount THEN "check" ELSE "done"]
      /\ UNCHANGED <<fixture, built, mixed, disturbed>>
  BY DEF Commit, Publish, NextLabel, history
<1>2. Cursor(p) \in EpochIds
  BY <1>1 DEF Shape, Seeding
<1>3. row # None
  BY <1>2, RowTypes DEF TypeOK, Run
<1>4. OthersStay(p) /\ Cleared(tx'[p])
  BY <1>1 DEF TypeOK, OthersStay, Cleared, NoTx, NoWipe, Cursor
<1>5. /\ pc'[p] = IF Cursor(p) + 1 < EpochCount THEN "check" ELSE "done"
      /\ Cursor(p)' = Cursor(p) + 1
      /\ run'[p].parent = MerkleRoot(Cursor(p), Fixture[run[p].version])
      /\ run'[p].version = run[p].version /\ run'[p].script = run[p].script
  BY <1>1 DEF TypeOK, Run, Cursor
<1>6. /\ tx[p].fresh => epochs'[Cursor(p)] = row
      /\ ~tx[p].fresh => epochs' = epochs
      /\ cells'[Cursor(p)] = cells[Cursor(p)] \cup tx[p].added
      /\ \A e \in EpochIds :
            e # Cursor(p) => epochs'[e] = epochs[e] /\ cells'[e] = cells[e]
  BY <1>1, <1>2 DEF TypeOK
<1>7. ASSUME NEW e \in EpochIds
      PROVE  e \in Sealed' <=> e \in Sealed \/ (e = Cursor(p) /\ tx[p].fresh)
  <2>. HIDE DEF row
  <2>. QED
    BY <1>3, <1>6 DEF Sealed
<1>. QED
  BY <1>1, <1>2, <1>4, <1>5, <1>6, <1>7

\* A clearing transaction that begins.
LEMMA StartWipeEffect ==
    ASSUME TypeOK, Shape, NEW p \in Operators, NEW script, StartWipe(p, script)
    PROVE  /\ pc'[p] = "wipe_cells" /\ Cleared(tx'[p]) /\ tx' = tx /\ Cursor(p)' = 0
           /\ OthersStay(p) /\ TablesStay /\ UNCHANGED <<fixture, built, mixed, disturbed>>
<1>1. Cleared(tx[p])
  BY RestCleared DEF StartWipe, Resting
<1>. QED
  BY <1>1 DEF TypeOK, StartWipe, NewRun, tables, history, Sealed, OthersStay,
              TablesStay, Cursor

\* DELETE FROM cell_states: of the epochs in scope all committed cells, none
\* of which another transaction is deleting.
LEMMA WipeCellsEffect ==
    ASSUME TypeOK, Shape, NEW p \in Operators, WipeCells(p)
    PROVE  /\ pc[p] = "wipe_cells" /\ pc'[p] = "wipe_epochs"
           /\ ~tx'[p].fresh /\ tx'[p].added = {} /\ tx'[p].dropped = {}
           /\ \A e \in EpochIds :
                 /\ tx'[p].wiped[e] \in {cells[e], {}}
                 /\ e \notin Scope(run[p].script) => tx'[p].wiped[e] = {}
                 /\ \A q \in Operators \ {p} : tx'[p].wiped[e] \cap tx[q].wiped[e] = {}
           /\ UNCHANGED <<run, Cursor(p)>>
           /\ OthersStay(p) /\ TablesStay /\ UNCHANGED <<fixture, built, mixed, disturbed>>
<1>. DEFINE claim == [e \in EpochIds |->
                         IF e \in Scope(run[p].script) THEN cells[e] ELSE {}]
<1>1. /\ pc[p] = "wipe_cells"
      /\ \A q \in Operators \ {p} : ~WaitsToWipeCells(p, q)
      /\ pc' = [pc EXCEPT ![p] = "wipe_epochs"]
      /\ tx' = [tx EXCEPT ![p] = [tx[p] EXCEPT !.wiped = claim]]
      /\ UNCHANGED <<fixture, epochs, cells, run, built, mixed, disturbed>>
  BY DEF WipeCells, Runs, WaitsFor, tables, history
<1>2. Cleared(tx[p])
  BY <1>1, RestCleared
<1>3. ASSUME NEW q \in Operators \ {p}, NEW e \in EpochIds
      PROVE  claim[e] \cap tx[q].wiped[e] = {}
  BY <1>1 DEF WaitsToWipeCells
<1>4. \A e \in EpochIds : /\ claim[e] \in {cells[e], {}}
                          /\ e \notin Scope(run[p].script) => claim[e] = {}
  OBVIOUS
<1>5. OthersStay(p) /\ TablesStay /\ UNCHANGED <<run, Cursor(p), fixture, built, mixed, disturbed>>
  BY <1>1 DEF TypeOK, Sealed, OthersStay, TablesStay, Cursor
<1>6. /\ pc'[p] = "wipe_epochs"
      /\ ~tx'[p].fresh /\ tx'[p].added = {} /\ tx'[p].dropped = {}
      /\ tx'[p].wiped = claim
  BY <1>1, <1>2 DEF TypeOK, Tx, Cleared
<1>. HIDE DEF claim
<1>. QED
  BY <1>1, <1>3, <1>4, <1>5, <1>6

\* DELETE FROM epochs, if it succeeds: of the epochs in scope those that have
\* no cell left, and whose row nobody else is deleting or refers to.
LEMMA WipeEpochsEffect ==
    ASSUME TypeOK, Shape, NEW p \in Operators, WipeEpochs(p), ~Fail(p)
    PROVE  /\ pc[p] = "wipe_epochs" /\ pc'[p] = "wipe_commit"
           /\ tx'[p].dropped = Scope(run[p].script) \cap Sealed
           /\ \A e \in tx'[p].dropped : cells[e] \subseteq tx[p].wiped[e]
           /\ \A q \in Operators \ {p} : \A e \in tx'[p].dropped :
                 /\ e \notin tx[q].dropped
                 /\ tx[q].added # {} /\ ~tx[q].fresh => Cursor(q) # e
           /\ ~tx'[p].fresh /\ tx'[p].added = {}
           /\ tx'[p].wiped = tx[p].wiped
           /\ UNCHANGED <<run, Cursor(p)>>
           /\ OthersStay(p) /\ TablesStay /\ UNCHANGED <<fixture, built, mixed, disturbed>>
<1>. DEFINE doomed == Scope(run[p].script) \cap Sealed
<1>1. /\ pc[p] = "wipe_epochs"
      /\ \A q \in Operators \ {p} : ~WaitsToWipeEpochs(p, q)
      /\ \A e \in doomed : cells[e] \ tx[p].wiped[e] = {}
      /\ pc' = [pc EXCEPT ![p] = "wipe_commit"]
      /\ tx' = [tx EXCEPT ![p] = [tx[p] EXCEPT !.dropped = doomed]]
      /\ UNCHANGED <<fixture, epochs, cells, run, built, mixed, disturbed>>
  BY DEF WipeEpochs, Runs, WaitsFor, tables, history
<1>2. ~tx[p].fresh /\ tx[p].added = {}
  BY <1>1 DEF Shape
<1>3. \A q \in Operators \ {p} : \A e \in doomed :
         /\ e \notin tx[q].dropped
         /\ tx[q].added # {} /\ ~tx[q].fresh => Cursor(q) # e
  BY <1>1 DEF WaitsToWipeEpochs
<1>4. OthersStay(p) /\ TablesStay /\ UNCHANGED <<run, Cursor(p), fixture, built, mixed, disturbed>>
  BY <1>1 DEF TypeOK, Sealed, OthersStay, TablesStay, Cursor
<1>5. /\ pc'[p] = "wipe_commit"
      /\ ~tx'[p].fresh /\ tx'[p].added = {} /\ tx'[p].dropped = doomed
      /\ tx'[p].wiped = tx[p].wiped
  BY <1>1, <1>2 DEF TypeOK, Tx
<1>. HIDE DEF doomed
<1>6. \A e \in doomed : cells[e] \subseteq tx[p].wiped[e]
  BY <1>1
<1>. QED
  BY <1>1, <1>3, <1>4, <1>5, <1>6 DEF doomed

\* The COMMIT of a clearing transaction.
LEMMA WipeCommitEffect ==
    ASSUME TypeOK, NEW p \in Operators, WipeCommit(p)
    PROVE  /\ pc[p] = "wipe_commit" /\ pc'[p] \in {"launch", "done"}
           /\ pc'[p] = "launch" => built' = fixture
           /\ built' = fixture \/ built' = built
           /\ built' # built => run[p].script = "reseed" /\ Stale
           /\ \A e \in EpochIds :
                 /\ epochs'[e] = IF e \in tx[p].dropped THEN None ELSE epochs[e]
                 /\ cells'[e] = cells[e] \ tx[p].wiped[e]
                 /\ e \in Sealed' <=> e \in Sealed /\ e \notin tx[p].dropped
           /\ tx[p].dropped # {} => \A q \in Operators : disturbed'[q]
           /\ tx[p].dropped = {} => disturbed' = disturbed
           /\ Cleared(tx'[p]) /\ UNCHANGED <<run, Cursor(p)>>
           /\ OthersStay(p) /\ UNCHANGED fixture
<1>1. /\ pc[p] = "wipe_commit" /\ pc'[p] \in {"launch", "done"}
      /\ pc'[p] = "launch" => built' = fixture
      /\ built' = fixture \/ built' = built
      /\ built' # built => run[p].script = "reseed" /\ Stale
  BY DEF TypeOK, WipeCommit, Stale
<1>2. \A e \in EpochIds :
         /\ epochs'[e] = IF e \in tx[p].dropped THEN None ELSE epochs[e]
         /\ cells'[e] = cells[e] \ tx[p].wiped[e]
  BY DEF WipeCommit
<1>3. \A e \in EpochIds : e \in Sealed' <=> e \in Sealed /\ e \notin tx[p].dropped
  BY <1>2 DEF Sealed
<1>4. disturbed' = [q \in Operators |-> disturbed[q] \/ tx[p].dropped # {}]
  BY DEF WipeCommit
<1>5. tx[p].dropped # {} => \A q \in Operators : disturbed'[q]
  BY <1>4, Zenon
<1>6. tx[p].dropped = {} => disturbed' = disturbed
  <2>1. disturbed \in [Operators -> BOOLEAN]
    BY DEF TypeOK
  <2>2. ASSUME tx[p].dropped = {}, NEW q \in Operators PROVE disturbed'[q] = disturbed[q]
    BY <1>4, <2>1, <2>2
  <2>. QED
    BY <1>4, <2>1, <2>2
<1>7. Cleared(tx'[p]) /\ UNCHANGED <<run, Cursor(p), fixture>> /\ OthersStay(p)
  BY DEF TypeOK, WipeCommit, NoTx, NoWipe, Cleared, OthersStay, Cursor
<1>. QED
  BY <1>1, <1>2, <1>3, <1>5, <1>6, <1>7

-----------------------------------------------------------------------------
(* Preservation of Schema, in every store: it is what the keys and the row *)
(* locks are for.                                                          *)

\* A step after which p holds nothing and the tables are as they were.
LEMMA SchemaCleared ==
    ASSUME Schema, NEW p \in Operators, Cleared(tx'[p]), OthersStay(p), TablesStay,
           pc'[p] \in {"seal", "fill"} =>
               tx'[p].todo \subseteq Fixture[run'[p].version]
    PROVE  Schema'
<1>1. KeysHold'
  BY DEF Schema, KeysHold, TablesStay
<1>2. OneSealer'
  BY DEF Schema, OneSealer, OthersStay, Cleared, TablesStay
<1>3. FillInv'
  BY DEF Schema, FillInv, OthersStay, Cleared, TablesStay
<1>4. WipeInv'
  BY DEF Schema, WipeInv, OthersStay, Cleared, TablesStay
<1>. QED
  BY <1>1, <1>2, <1>3, <1>4 DEF Schema

\* A rollback.
LEMMA SchemaFail ==
    ASSUME TypeOK, Schema, NEW p \in Operators, Fail(p) PROVE Schema'
BY FailEffect, SchemaCleared

\* INSERT INTO epochs: the primary key lets one transaction in.
LEMMA SchemaSeal ==
    ASSUME TypeOK, Shape, Schema, NEW p \in Operators, Seal(p) PROVE Schema'
<1>1. CASE Fail(p)
  BY <1>1, SchemaFail
<1>2. CASE ~Fail(p)
  <2>1. KeysHold'
    BY <1>2, SealEffect DEF Schema, KeysHold, TablesStay
  <2>2. OneSealer'
    BY <1>2, SealEffect DEF Schema, OneSealer, OthersStay, TablesStay
  <2>3. FillInv'
    BY <1>2, SealEffect DEF Schema, FillInv, OthersStay, TablesStay
  <2>4. WipeInv'
    BY <1>2, SealEffect DEF Schema, WipeInv, OthersStay, TablesStay
  <2>. QED
    BY <2>1, <2>2, <2>3, <2>4 DEF Schema
<1>. QED
  BY <1>1, <1>2

\* INSERT INTO cell_states: no two transactions insert the same cell, and the
\* foreign key keeps the epoch.
LEMMA SchemaFill ==
    ASSUME TypeOK, Shape, Schema, NEW p \in Operators, Fill(p) PROVE Schema'
<1>1. CASE Fail(p)
  BY <1>1, SchemaFail
<1>2. CASE ~Fail(p)
  <2>1. KeysHold'
    BY <1>2, FillEffect DEF Schema, KeysHold, TablesStay
  <2>2. OneSealer'
    BY <1>2, FillEffect DEF Schema, OneSealer, OthersStay, TablesStay
  <2>3. FillInv'
    <3>. DEFINE Kept(q) ==
             /\ pc'[q] \in {"seal", "fill"} =>
                   tx'[q].todo \subseteq Fixture[run'[q].version]
             /\ tx'[q].added \subseteq Fixture[run'[q].version]
             /\ tx'[q].added # {} /\ ~tx'[q].fresh =>
                   /\ Cursor(q)' \in Sealed'
                   /\ \A o \in Operators : Cursor(q)' \notin tx'[o].dropped
             /\ \A l \in tx'[q].added :
                   /\ \A m \in cells'[Cursor(q)'] : CellOf(l) # CellOf(m)
                   /\ \A o \in Operators \ {q} : Cursor(o)' = Cursor(q)' =>
                         \A m \in tx'[o].added : CellOf(l) # CellOf(m)
    <3>1. tx[p].todo \subseteq Fixture[run[p].version]
      BY <1>2, FillEffect DEF Schema, FillInv
    <3>2. tx[p].added # {} /\ ~tx[p].fresh =>
              /\ Cursor(p) \in Sealed
              /\ \A q \in Operators : Cursor(p) \notin tx[q].dropped
      BY DEF Schema, FillInv
    <3>3. Kept(p)
      <4>1. tx'[p].todo \subseteq Fixture[run'[p].version]
            /\ tx'[p].added \subseteq Fixture[run'[p].version]
        BY <1>2, <3>1, FillEffect DEF Schema, FillInv
      <4>2. tx'[p].added # {} /\ ~tx'[p].fresh =>
                /\ Cursor(p)' \in Sealed'
                /\ \A o \in Operators : Cursor(p)' \notin tx'[o].dropped
        BY <1>2, <3>2, FillEffect DEF OthersStay, TablesStay
      <4>3. ASSUME NEW l \in tx'[p].added
            PROVE  /\ \A m \in cells'[Cursor(p)'] : CellOf(l) # CellOf(m)
                   /\ \A o \in Operators \ {p} : Cursor(o)' = Cursor(p)' =>
                         \A m \in tx'[o].added : CellOf(l) # CellOf(m)
        <5>1. l \in tx[p].added \/ l \in NewCells(p)
          BY <1>2, FillEffect
        <5>2. CASE l \in tx[p].added
          BY <1>2, <5>2, FillEffect DEF Schema, FillInv, OthersStay, TablesStay
        <5>3. CASE l \in NewCells(p)
          BY <1>2, <5>3, FillEffect DEF OthersStay, TablesStay
        <5>. QED
          BY <5>1, <5>2, <5>3
      <4>. QED
        BY <4>1, <4>2, <4>3
    <3>4. ASSUME NEW q \in Operators \ {p} PROVE Kept(q)
      <4>1. /\ pc'[q] \in {"seal", "fill"} =>
                  tx'[q].todo \subseteq Fixture[run'[q].version]
            /\ tx'[q].added \subseteq Fixture[run'[q].version]
            /\ \A l \in tx'[q].added : \A m \in cells'[Cursor(q)'] : CellOf(l) # CellOf(m)
        BY <1>2, FillEffect DEF Schema, FillInv, OthersStay, TablesStay
      <4>2. tx'[q].added # {} /\ ~tx'[q].fresh =>
                /\ Cursor(q)' \in Sealed'
                /\ \A o \in Operators : Cursor(q)' \notin tx'[o].dropped
        BY <1>2, FillEffect DEF Schema, FillInv, OthersStay, TablesStay
      <4>3. ASSUME NEW l \in tx[q].added, NEW o \in Operators \ {q},
                   Cursor(o)' = Cursor(q)', NEW m \in tx'[o].added
            PROVE  CellOf(l) # CellOf(m)
        <5>1. CASE m \in tx[o].added
          BY <1>2, <4>3, <5>1, FillEffect DEF Schema, FillInv, OthersStay
        <5>2. CASE m \notin tx[o].added
          <6>1. o = p /\ m \in NewCells(p)
            BY <1>2, <4>3, <5>2, FillEffect DEF OthersStay
          <6>2. Cursor(q) = Cursor(p)
            BY <1>2, <4>3, <6>1, FillEffect DEF OthersStay
          <6>. QED
            BY <1>2, <6>1, <6>2, FillEffect
        <5>. QED
          BY <5>1, <5>2
      <4>4. tx'[q] = tx[q]
        BY <1>2, FillEffect DEF OthersStay
      <4>. QED
        BY <4>1, <4>2, <4>3, <4>4
    <3>. QED
      BY <3>3, <3>4 DEF FillInv
  <2>4. WipeInv'
    BY <1>2, FillEffect DEF Schema, WipeInv, OthersStay, TablesStay
  <2>. QED
    BY <2>1, <2>2, <2>3, <2>4 DEF Schema
<1>. QED
  BY <1>1, <1>2

\* A commit of the seeder: no row of a cell that was there is rewritten, and
\* no cell has two.
LEMMA SchemaCommit ==
    ASSUME TypeOK, Shape, Schema, NEW p \in Operators, Commit(p) PROVE Schema'
<1>. DEFINE c == Cursor(p)
<1>1. tx[p].fresh => c \notin Sealed /\ cells[c] = {}
  BY CommitEffect DEF Schema, OneSealer, KeysHold
<1>2. tx[p].added # {} => c \in Sealed'
  BY CommitEffect DEF Schema, FillInv
<1>3. \A e \in EpochIds : \A l \in cells'[e] :
         l \in cells[e] \/ (e = c /\ l \in tx[p].added)
  BY CommitEffect
<1>4. KeysHold'
  <2>1. ASSUME NEW e \in EpochIds, e \notin Sealed' PROVE cells'[e] = {}
    BY <1>2, <2>1, CommitEffect DEF Schema, KeysHold
  <2>2. ASSUME NEW l \in tx[p].added, NEW m \in tx[p].added, CellOf(l) = CellOf(m)
        PROVE  l = m
    <3>1. l \in Fixture[run[p].version] /\ m \in Fixture[run[p].version]
      BY DEF Schema, FillInv
    <3>2. run[p].version \in Versions
      BY DEF TypeOK, Run
    <3>. QED
      BY <2>2, <3>1, <3>2, TablesAssumption DEF CellOf
  <2>3. ASSUME NEW l \in tx[p].added, NEW m \in cells[c] PROVE CellOf(l) # CellOf(m)
    BY DEF Schema, FillInv
  <2>4. ASSUME NEW e \in EpochIds, NEW l \in cells'[e], NEW m \in cells'[e],
               CellOf(l) = CellOf(m)
        PROVE  l = m
    <3>1. CASE l \in cells[e] /\ m \in cells[e]
      BY <2>4, <3>1 DEF Schema, KeysHold
    <3>2. CASE ~(l \in cells[e] /\ m \in cells[e])
      BY <1>3, <2>2, <2>3, <2>4, <3>2
    <3>. QED
      BY <3>1, <3>2
  <2>. QED
    BY <2>1, <2>4 DEF KeysHold
<1>5. OneSealer'
  <2>1. ASSUME NEW q \in Operators \ {p}, tx[q].fresh PROVE Cursor(q) \notin Sealed'
    <3>1. Cursor(q) \notin Sealed /\ ~(Cursor(q) = c /\ tx[p].fresh)
      BY <2>1 DEF Schema, OneSealer
    <3>2. Cursor(q) \in EpochIds
      BY <2>1 DEF Shape, Seeding
    <3>. QED
      BY <3>1, <3>2, CommitEffect
  <2>. QED
    BY <2>1, CommitEffect DEF Schema, OneSealer, OthersStay, Cleared
<1>6. FillInv'
  <2>1. ASSUME NEW q \in Operators \ {p}, NEW l \in tx[q].added,
               NEW m \in cells'[Cursor(q)]
        PROVE  CellOf(l) # CellOf(m)
    <3>1. Cursor(q) \in EpochIds
      BY <2>1 DEF Shape, Seeding
    <3>2. CASE m \in cells[Cursor(q)]
      BY <3>2 DEF Schema, FillInv
    <3>3. CASE m \notin cells[Cursor(q)]
      <4>1. Cursor(q) = c /\ m \in tx[p].added
        BY <1>3, <2>1, <3>1, <3>3
      <4>. QED
        BY <4>1 DEF Schema, FillInv
    <3>. QED
      BY <3>2, <3>3
  <2>2. ASSUME NEW q \in Operators \ {p}, tx[q].added # {}, ~tx[q].fresh
        PROVE  Cursor(q) \in Sealed'
    <3>1. Cursor(q) \in Sealed
      BY <2>2 DEF Schema, FillInv
    <3>2. Cursor(q) \in EpochIds
      BY <3>1 DEF Sealed
    <3>. QED
      BY <3>1, <3>2, CommitEffect
  <2>. QED
    BY <2>1, <2>2, CommitEffect DEF Schema, FillInv, OthersStay, Cleared
<1>7. WipeInv'
  \* What a clear has claimed of epoch c cannot be all that is stored, so it
  \* does not drop c.
  <2>1. ASSUME NEW q \in Operators, NEW e \in EpochIds
        PROVE  /\ cells[e] \subseteq cells'[e]
               /\ e \in tx[q].dropped => e \in Sealed' /\ cells'[e] = cells[e]
    <3>1. cells[e] \subseteq cells'[e]
      BY CommitEffect
    <3>2. ASSUME e \in tx[q].dropped PROVE cells'[e] = cells[e]
      <4>1. e \in Sealed
        BY <3>2 DEF Schema, WipeInv
      <4>2. e = c => tx[p].added = {}
        BY <1>1, <3>2, <4>1 DEF Schema, FillInv
      <4>. QED
        <5>1. /\ e = c => cells'[e] = cells[e] \cup tx[p].added
              /\ e # c => cells'[e] = cells[e]
          BY CommitEffect
        <5>. QED
          BY <4>2, <5>1
    <3>3. ASSUME e \in tx[q].dropped PROVE e \in Sealed'
      BY <3>3, CommitEffect DEF Schema, WipeInv
    <3>. QED
      BY <3>1, <3>2, <3>3
  <2>. QED
    BY <2>1, CommitEffect DEF Schema, WipeInv, OthersStay, Cleared
<1>. QED
  BY <1>4, <1>5, <1>6, <1>7 DEF Schema

\* DELETE FROM cell_states: it claims what nobody else has claimed.
LEMMA SchemaWipeCells ==
    ASSUME TypeOK, Shape, Schema, NEW p \in Operators, WipeCells(p) PROVE Schema'
<1>1. KeysHold'
  BY WipeCellsEffect DEF Schema, KeysHold, TablesStay
<1>2. OneSealer'
  BY WipeCellsEffect DEF Schema, OneSealer, OthersStay, TablesStay
<1>3. FillInv'
  BY WipeCellsEffect DEF Schema, FillInv, OthersStay, TablesStay
<1>4. WipeInv'
  <2>1. ASSUME NEW q \in Operators \ {p}, NEW e \in EpochIds, e \in tx[q].dropped
        PROVE  tx'[p].wiped[e] = {}
    BY <2>1, WipeCellsEffect DEF Schema, WipeInv
  <2>2. \A e \in EpochIds : tx'[p].wiped[e] \subseteq cells[e]
    BY WipeCellsEffect
  <2>. QED
    BY <2>1, <2>2, WipeCellsEffect DEF Schema, WipeInv, OthersStay, TablesStay
<1>. QED
  BY <1>1, <1>2, <1>3, <1>4 DEF Schema

\* DELETE FROM epochs: RESTRICT has seen to the cells, the row locks to the
\* cells that others are inserting.
LEMMA SchemaWipeEpochs ==
    ASSUME TypeOK, Shape, Schema, NEW p \in Operators, WipeEpochs(p) PROVE Schema'
<1>1. CASE Fail(p)
  BY <1>1, SchemaFail
<1>2. CASE ~Fail(p)
  <2>1. KeysHold'
    BY <1>2, WipeEpochsEffect DEF Schema, KeysHold, TablesStay
  <2>2. OneSealer'
    BY <1>2, WipeEpochsEffect DEF Schema, OneSealer, OthersStay, TablesStay
  <2>3. FillInv'
    BY <1>2, WipeEpochsEffect DEF Schema, FillInv, OthersStay, TablesStay
  <2>4. WipeInv'
    <3>1. \A e \in EpochIds : e \in tx'[p].dropped =>
             e \in Sealed /\ tx[p].wiped[e] = cells[e]
      <4>1. \A e \in tx'[p].dropped : e \in Sealed /\ cells[e] \subseteq tx[p].wiped[e]
        BY <1>2, WipeEpochsEffect
      <4>2. \A e \in EpochIds : tx[p].wiped[e] \subseteq cells[e]
        BY DEF Schema, WipeInv
      <4>. QED
        BY <4>1, <4>2
    \* p's claim is of stored cells in its scope, so of the epochs it drops.
    <3>2. \A e \in EpochIds : e \notin tx'[p].dropped => tx[p].wiped[e] = {}
      BY <1>2, WipeEpochsEffect DEF Schema, WipeInv, KeysHold
    \* What p has claimed, nobody else has.
    <3>3. ASSUME NEW q \in Operators \ {p}, NEW e \in EpochIds, e \in tx'[p].dropped
          PROVE  tx[q].wiped[e] = {} /\ e \notin tx[q].dropped
      <4>1. tx[q].wiped[e] \subseteq cells[e] /\ tx[p].wiped[e] \cap tx[q].wiped[e] = {}
        BY DEF Schema, WipeInv
      <4>. QED
        BY <1>2, <3>1, <3>3, <4>1, WipeEpochsEffect
    <3>. QED
      BY <1>2, <3>1, <3>2, <3>3, WipeEpochsEffect DEF Schema, WipeInv, OthersStay, TablesStay
  <2>. QED
    BY <2>1, <2>2, <2>3, <2>4 DEF Schema
<1>. QED
  BY <1>1, <1>2

\* The clear that commits takes the epochs it drops away whole, and nothing
\* of the others.
LEMMA WipeIsWhole ==
    ASSUME TypeOK, Schema, NEW p \in Operators, WipeCommit(p), NEW e \in EpochIds
    PROVE  /\ e \in tx[p].dropped => cells'[e] = {}
           /\ e \notin tx[p].dropped => cells'[e] = cells[e]
<1>1. pc[p] = "wipe_commit" /\ cells'[e] = cells[e] \ tx[p].wiped[e]
  BY WipeCommitEffect
<1>2. /\ e \in tx[p].dropped => tx[p].wiped[e] = cells[e]
      /\ e \notin tx[p].dropped => tx[p].wiped[e] = {}
  BY <1>1 DEF Schema, WipeInv
<1>. QED
  BY <1>1, <1>2

\* COMMIT of a clearing transaction: nobody else has a claim on these epochs.
LEMMA SchemaWipeCommit ==
    ASSUME TypeOK, Shape, Schema, NEW p \in Operators, WipeCommit(p) PROVE Schema'
<1>1. KeysHold'
  BY WipeCommitEffect, WipeIsWhole DEF Schema, KeysHold
<1>2. OneSealer'
  <2>1. ASSUME NEW q \in Operators \ {p}, tx[q].fresh PROVE Cursor(q) \notin Sealed'
    <3>1. Cursor(q) \in EpochIds /\ Cursor(q) \notin Sealed
      BY <2>1 DEF Shape, Seeding, Schema, OneSealer
    <3>. QED
      BY <3>1, WipeCommitEffect
  <2>. QED
    BY <2>1, WipeCommitEffect DEF Schema, OneSealer, OthersStay, Cleared
<1>3. FillInv'
  <2>1. ASSUME NEW q \in Operators \ {p}, NEW l \in tx[q].added
        PROVE  \A m \in cells'[Cursor(q)] : CellOf(l) # CellOf(m)
    <3>1. Cursor(q) \in EpochIds
      BY <2>1 DEF Shape, Seeding
    <3>2. cells'[Cursor(q)] \subseteq cells[Cursor(q)]
      BY <3>1, WipeCommitEffect
    <3>. QED
      BY <3>2 DEF Schema, FillInv
  <2>2. ASSUME NEW q \in Operators \ {p}, tx[q].added # {}, ~tx[q].fresh
        PROVE  Cursor(q) \in Sealed'
    <3>1. Cursor(q) \in Sealed /\ Cursor(q) \notin tx[p].dropped
      BY <2>2 DEF Schema, FillInv
    <3>2. Cursor(q) \in EpochIds
      BY <3>1 DEF Sealed
    <3>. QED
      BY <3>1, <3>2, WipeCommitEffect
  <2>. QED
    BY <2>1, <2>2, WipeCommitEffect DEF Schema, FillInv, OthersStay, Cleared
<1>4. WipeInv'
  <2>1. ASSUME NEW q \in Operators \ {p}, NEW e \in EpochIds
        PROVE  /\ tx[q].wiped[e] \subseteq cells'[e]
               /\ e \in tx[q].dropped => e \in Sealed' /\ tx[q].wiped[e] = cells'[e]
    <3>1. tx[p].wiped[e] \cap tx[q].wiped[e] = {}
      BY DEF Schema, WipeInv
    <3>2. e \in tx[q].dropped => tx[p].wiped[e] = {} /\ e \notin tx[p].dropped
      BY DEF Schema, WipeInv
    <3>. QED
      <4>1. cells'[e] = cells[e] \ tx[p].wiped[e]
            /\ (e \in Sealed' <=> e \in Sealed /\ e \notin tx[p].dropped)
        BY WipeCommitEffect
      <4>2. tx[q].wiped[e] \subseteq cells[e]
            /\ (e \in tx[q].dropped => e \in Sealed /\ tx[q].wiped[e] = cells[e])
        BY DEF Schema, WipeInv
      <4>. QED
        BY <3>1, <3>2, <4>1, <4>2
  <2>. QED
    BY <2>1, WipeCommitEffect DEF Schema, WipeInv, OthersStay, Cleared
<1>. QED
  BY <1>1, <1>2, <1>3, <1>4 DEF Schema

\* Every step.
LEMMA SchemaStep ==
    ASSUME TypeOK, Shape, Schema, [Next]_vars PROVE Schema'
<1>1. ASSUME NEW p \in Operators, Step(p) \/ StartSeed(p) \/ Crash(p)
      PROVE  Schema'
  <2>1. CASE Check(p)
    <3>1. tx'[p].todo \subseteq Fixture[run'[p].version]
      BY <2>1, CheckEffect
    <3>. QED
      BY <2>1, <3>1, CheckEffect, SchemaCleared
  <2>2. CASE Launch(p) \/ StartSeed(p)
    BY <2>2, BeginEffect, SchemaCleared DEF Launch, StartSeed
  <2>3. CASE DeadlockVictim(p) \/ Crash(p)
    BY <2>3, SchemaFail DEF DeadlockVictim, Crash
  <2>. QED
    BY <1>1, <2>1, <2>2, <2>3, SchemaSeal, SchemaFill, SchemaCommit, SchemaWipeCells,
       SchemaWipeEpochs, SchemaWipeCommit DEF Step
<1>2. ASSUME NEW p \in Operators, NEW script \in {"reseed", "hotfix"}, StartWipe(p, script)
      PROVE  Schema'
  BY <1>2, StartWipeEffect, SchemaCleared
<1>3. ASSUME UNCHANGED <<epochs, cells, pc, run, tx>> PROVE Schema'
  BY <1>3 DEF Schema, KeysHold, OneSealer, FillInv, WipeInv, Sealed, Cursor
<1>. QED
  BY <1>1, <1>2, <1>3 DEF Next, RefreshFixture, vars, tables

\* A row of a cell is never rewritten: a commit adds the cells that have no
\* row in the epoch, and a clear takes rows away.
LEMMA RowsKeepContents ==
    ASSUME TypeOK, Shape, Schema, [Next]_vars, NEW e \in EpochIds,
           NEW l \in cells[e], NEW m \in cells'[e], CellOf(l) = CellOf(m)
    PROVE  l = m
<1>1. CASE m \in cells[e]
  BY <1>1 DEF Schema, KeysHold
<1>2. CASE m \notin cells[e]
  <2>1. PICK p \in Operators : Commit(p)
    <3>1. cells' # cells
      BY <1>2
    <3>2. ASSUME NEW p \in Operators, WipeCommit(p) PROVE FALSE
      BY <1>2, <3>2, WipeCommitEffect
    <3>. QED
      BY <3>1, <3>2 DEF Next, Step, Check, Seal, Fill, WipeCells, WipeEpochs, Launch,
         DeadlockVictim, Fail, StartSeed, BeginSeeding, StartWipe, Crash,
         RefreshFixture, vars, tables
  <2>2. e = Cursor(p) /\ m \in tx[p].added
    BY <1>2, <2>1, CommitEffect
  <2>. QED
    BY <2>2 DEF Schema, FillInv
<1>. QED
  BY <1>1, <1>2

-----------------------------------------------------------------------------
\* The cursor of a seeder leaves no hole behind: a commit steps over an epoch
\* that is there, and whatever takes one away is remembered.
LEMMA NoneSkippedStep ==
    ASSUME TypeOK, Shape, NoneSkipped, [Next]_vars PROVE NoneSkipped'
<1>. DEFINE Behind(q) ==
         /\ pc[q] \in Wiping => Cursor(q) = 0
         /\ pc[q] \in Seeding \cup {"done"} /\ ~disturbed[q] =>
               /\ \A e \in EpochIds : e < Cursor(q) => e \in Sealed
               /\ pc[q] = "fill" /\ ~tx[q].fresh => Cursor(q) \in Sealed
<1>1. ASSUME NEW p \in Operators, OthersStay(p), TablesStay, UNCHANGED disturbed,
             Behind(p)'
      PROVE  NoneSkipped'
  BY <1>1 DEF NoneSkipped, OthersStay, TablesStay
<1>2. ASSUME NEW p \in Operators, Fail(p) PROVE NoneSkipped'
  <2>1. Behind(p)'
    BY <1>2, FailEffect DEF Wiping, Seeding
  <2>. QED
    BY <1>1, <1>2, <2>1, FailEffect
<1>3. ASSUME NEW p \in Operators, Launch(p) \/ StartSeed(p) PROVE NoneSkipped'
  <2>1. \A q \in Operators \ {p} : Behind(q)'
    BY <1>3, BeginEffect DEF Launch, StartSeed, NoneSkipped, OthersStay, TablesStay
  <2>2. pc'[p] = "check" /\ Cursor(p)' = 0
    BY <1>3, BeginEffect DEF Launch, StartSeed
  <2>3. \A e \in EpochIds : ~(e < 0)
    BY TablesAssumption DEF EpochIds
  <2>. QED
    BY <2>1, <2>2, <2>3 DEF NoneSkipped, Wiping, Seeding
<1>4. ASSUME NEW p \in Operators, Check(p) \/ Seal(p) \/ Fill(p), ~Fail(p)
      PROVE  NoneSkipped'
  <2>1. /\ OthersStay(p) /\ TablesStay /\ UNCHANGED <<disturbed, Cursor(p)>>
        /\ pc[p] \in Seeding /\ pc'[p] \in Seeding
        /\ pc'[p] = "fill" /\ ~tx'[p].fresh =>
              Cursor(p) \in Sealed \/ (pc[p] = "fill" /\ ~tx[p].fresh)
    BY <1>4, CheckEffect, SealEffect, FillEffect DEF Seeding
  <2>2. Behind(p)'
    BY <2>1 DEF NoneSkipped, TablesStay, Seeding, Wiping
  <2>. QED
    BY <1>1, <2>1, <2>2
<1>5. ASSUME NEW p \in Operators, Commit(p) PROVE NoneSkipped'
  <2>1. \A e \in EpochIds : e \in Sealed => e \in Sealed'
    BY <1>5, CommitEffect
  <2>2. Sealed \subseteq EpochIds
    BY DEF Sealed
  <2>3. \A q \in Operators \ {p} : Behind(q)'
    BY <1>5, <2>1, <2>2, CommitEffect DEF NoneSkipped, OthersStay
  <2>4. ~disturbed[p] => Cursor(p) \in Sealed'
    <3>1. pc[p] = "fill" /\ Cursor(p) \in EpochIds
      BY <1>5, CommitEffect
    <3>2. CASE tx[p].fresh
      BY <1>5, <3>1, <3>2, CommitEffect
    <3>3. CASE ~tx[p].fresh
      BY <2>1, <3>1, <3>3 DEF NoneSkipped, Seeding
    <3>. QED
      BY <3>2, <3>3
  <2>5. /\ pc[p] = "fill" /\ Cursor(p) \in EpochIds /\ Cursor(p)' = Cursor(p) + 1
        /\ pc'[p] \in {"check", "done"} /\ UNCHANGED disturbed
    BY <1>5, CommitEffect
  <2>6. ASSUME ~disturbed[p], NEW e \in EpochIds, e < Cursor(p) + 1
        PROVE  e \in Sealed'
    <3>1. e < Cursor(p) \/ e = Cursor(p)
      BY <2>5, <2>6, TablesAssumption DEF EpochIds
    <3>. QED
      BY <2>1, <2>4, <2>5, <2>6, <3>1 DEF NoneSkipped, Seeding
  <2>7. Behind(p)'
    BY <2>5, <2>6 DEF Seeding, Wiping
  <2>. QED
    BY <2>3, <2>7 DEF NoneSkipped
<1>6. ASSUME NEW p \in Operators, NEW script \in {"reseed", "hotfix"}, StartWipe(p, script)
      PROVE  NoneSkipped'
  <2>1. Behind(p)'
    BY <1>6, StartWipeEffect DEF Seeding
  <2>. QED
    BY <1>1, <1>6, <2>1, StartWipeEffect
<1>7. ASSUME NEW p \in Operators, WipeCells(p) \/ WipeEpochs(p), ~Fail(p)
      PROVE  NoneSkipped'
  <2>1. /\ OthersStay(p) /\ TablesStay /\ UNCHANGED <<disturbed, Cursor(p)>>
        /\ pc[p] \in Wiping /\ pc'[p] \in Wiping /\ pc'[p] \notin Seeding \cup {"done"}
    BY <1>7, WipeCellsEffect, WipeEpochsEffect DEF Seeding, Wiping
  <2>2. Behind(p)'
    BY <2>1 DEF NoneSkipped
  <2>. QED
    BY <1>1, <2>1, <2>2
<1>8. ASSUME NEW p \in Operators, WipeCommit(p) PROVE NoneSkipped'
  <2>1. /\ OthersStay(p) /\ Cursor(p)' = Cursor(p) /\ pc'[p] \in {"launch", "done"}
        /\ pc[p] \in Wiping
    BY <1>8, WipeCommitEffect DEF Wiping
  <2>2. Cursor(p)' = 0 /\ \A e \in EpochIds : ~(e < 0)
    BY <2>1, TablesAssumption DEF NoneSkipped, EpochIds
  <2>3. Behind(p)'
    BY <2>1, <2>2 DEF Wiping
  <2>4. CASE tx[p].dropped = {}
    <3>1. UNCHANGED disturbed /\ Sealed' = Sealed
      BY <1>8, <2>4, WipeCommitEffect DEF Sealed
    <3>. QED
      BY <2>1, <2>3, <3>1 DEF NoneSkipped, OthersStay
  <2>5. CASE tx[p].dropped # {}
    <3>1. \A q \in Operators : disturbed'[q]
      BY <1>8, <2>5, WipeCommitEffect
    <3>. QED
      BY <2>1, <2>3, <3>1 DEF NoneSkipped, OthersStay
  <2>. QED
    BY <2>4, <2>5
<1>9. ASSUME UNCHANGED <<epochs, pc, run, tx, disturbed>> PROVE NoneSkipped'
  BY <1>9 DEF NoneSkipped, Sealed, Cursor
<1>. QED
  BY <1>2, <1>3, <1>4, <1>5, <1>6, <1>7, <1>8, <1>9
     DEF Next, Step, DeadlockVictim, Crash, RefreshFixture, vars, tables, history

-----------------------------------------------------------------------------
(* Preservation of Core, while the store is not mixed.                     *)

\* An empty store, with nothing running: the start, and the end of a clear
\* that mends a mixed store.
EmptyStore ==
    /\ Shape
    /\ \A e \in EpochIds : epochs[e] = None /\ cells[e] = {}
    /\ \A p \in Operators : pc[p] \in Resting \cup {"launch"}
    /\ \A p \in Operators : pc[p] = "launch" => built = fixture

\* Nothing is open, and nothing is stored that could be wrong.
LEMMA CoreEmpty == EmptyStore => Core
<1>. SUFFICES ASSUME EmptyStore PROVE Core
  OBVIOUS
<1>1. \A p \in Operators : /\ pc[p] \notin Seeding \cup Wiping
                           /\ ~tx[p].fresh /\ tx[p].added = {}
  BY DEF EmptyStore, Shape, Resting, Seeding, Wiping
<1>2. Sealed = {}
  BY DEF EmptyStore, Sealed
<1>. QED
  BY <1>1, <1>2 DEF EmptyStore, Core, LogWhole, SeederInv, InsertInv, ReseedInv,
                    Seeding, Wiping

\* A step after which p holds nothing, the tables and the contents they are
\* built from are as they were, and p is where a seeder may be.
LEMMA CoreCleared ==
    ASSUME Core, NEW p \in Operators, Cleared(tx'[p]), OthersStay(p), TablesStay,
           UNCHANGED <<fixture, built>>,
           pc'[p] \notin {"launch", "wipe_commit"},
           pc'[p] \in Seeding =>
               /\ built = fixture
               /\ run'[p].version = fixture
               /\ run'[p].parent = ParentRoot(Cursor(p)', Fixture[fixture]),
           pc'[p] = "seal" => tx'[p].todo = Fixture[built]
    PROVE  Core'
<1>1. LogWhole'
  BY DEF Core, LogWhole, TablesStay
<1>2. SeederInv'
  BY DEF Core, SeederInv, OthersStay
<1>3. InsertInv'
  BY DEF Core, InsertInv, OthersStay, Cleared
<1>4. ReseedInv'
  BY DEF Core, ReseedInv, OthersStay, TablesStay, Stale
<1>. QED
  BY <1>1, <1>2, <1>3, <1>4 DEF Core

\* A rollback.
LEMMA CoreFail ==
    ASSUME TypeOK, Core, NEW p \in Operators, Fail(p) PROVE Core'
BY FailEffect, CoreCleared DEF Seeding

\* A seeder that starts on the fixture the store is built from.
LEMMA CoreBegin ==
    ASSUME TypeOK, Shape, Core, NEW p \in Operators, NEW script,
           pc[p] \in Resting \cup {"launch"}, ~Stale, BeginSeeding(p, script)
    PROVE  Core'
<1>1. run'[p].parent = ParentRoot(Cursor(p)', Fixture[fixture])
  BY BeginEffect DEF ParentRoot
<1>. QED
  BY <1>1, BeginEffect, CoreCleared DEF Stale

\* SELECT EXISTS.
LEMMA CoreCheck ==
    ASSUME TypeOK, Shape, Core, NEW p \in Operators, Check(p) PROVE Core'
<1>1. /\ built = fixture /\ run[p].version = fixture
      /\ run[p].parent = ParentRoot(Cursor(p), Fixture[fixture])
  BY CheckEffect DEF Core, SeederInv, Seeding
<1>2. tx'[p].todo = Fixture[built] /\ run' = run /\ Cursor(p)' = Cursor(p)
  BY <1>1, CheckEffect
<1>. QED
  BY <1>1, <1>2, CheckEffect, CoreCleared

\* INSERT INTO epochs.
LEMMA CoreSeal ==
    ASSUME TypeOK, Shape, Core, NEW p \in Operators, Seal(p) PROVE Core'
<1>1. CASE Fail(p)
  BY <1>1, CoreFail
<1>2. CASE ~Fail(p)
  <2>1. LogWhole'
    BY <1>2, SealEffect DEF Core, LogWhole, TablesStay
  <2>2. SeederInv'
    BY <1>2, SealEffect DEF Core, SeederInv, Seeding, OthersStay
  <2>3. InsertInv'
    BY <1>2, SealEffect DEF Core, InsertInv, OthersStay
  <2>4. ReseedInv'
    BY <1>2, SealEffect DEF Core, ReseedInv, OthersStay, TablesStay, Stale
  <2>. QED
    BY <2>1, <2>2, <2>3, <2>4 DEF Core
<1>. QED
  BY <1>1, <1>2

\* A batch of cells: rows that are there are the rows it brings.
LEMMA CoreFill ==
    ASSUME TypeOK, Shape, Schema, Core, NEW p \in Operators, Fill(p) PROVE Core'
<1>1. CASE Fail(p)
  BY <1>1, CoreFail
<1>2. CASE ~Fail(p)
  <2>. DEFINE batch == FirstBatch(tx[p].todo)
  <2>1. /\ pc[p] = "fill" /\ Cursor(p) \in EpochIds
        /\ NewCells(p) # {} /\ ~tx[p].fresh => Cursor(p) \in Sealed
        /\ tx'[p].fresh = tx[p].fresh
        /\ tx'[p].added = tx[p].added \cup NewCells(p)
        /\ tx'[p].todo = tx[p].todo \ batch
    BY <1>2, FillEffect
  <2>2. batch \subseteq tx[p].todo /\ tx[p].todo \subseteq Fixture[built]
    <3>1. run[p].version = built
      BY <2>1 DEF Core, SeederInv, Seeding
    <3>. QED
      BY <2>1, <3>1, FirstBatchSubset DEF Schema, FillInv
  \* A new epoch has no cells yet, so the whole batch is new.
  <2>3. ASSUME tx[p].fresh
        PROVE  tx'[p].added \cup tx'[p].todo = Fixture[built]
    <3>1. cells[Cursor(p)] = {}
      BY <2>1, <2>3 DEF Schema, OneSealer, KeysHold
    <3>2. NewCells(p) = batch
      BY <3>1 DEF NewCells, CellsOf
    <3>. QED
      BY <2>1, <2>2, <2>3, <3>2 DEF Core, InsertInv
  \* An epoch that is there has all of its cells: nothing is new.
  <2>4. ASSUME ~tx[p].fresh PROVE tx'[p].added = {}
    <3>1. ASSUME NewCells(p) # {} PROVE FALSE
      <4>1. cells[Cursor(p)] = Fixture[built]
        BY <2>1, <2>4, <3>1 DEF Core, LogWhole
      <4>2. \A l \in batch : CellOf(l) \in CellsOf(cells[Cursor(p)])
        BY <2>2, <4>1 DEF CellsOf
      <4>. QED
        BY <3>1, <4>2 DEF NewCells
    <3>. QED
      BY <2>1, <2>4, <3>1 DEF Core, InsertInv
  <2>5. LogWhole'
    BY <1>2, FillEffect DEF Core, LogWhole, TablesStay
  <2>6. SeederInv'
    BY <1>2, FillEffect DEF Core, SeederInv, Seeding, OthersStay
  <2>7. InsertInv'
    <3>1. /\ pc'[p] = "fill" /\ built' = built /\ tx'[p].fresh = tx[p].fresh
          /\ OthersStay(p)
      BY <1>2, FillEffect
    <3>. QED
      BY <2>3, <2>4, <3>1 DEF Core, InsertInv, OthersStay
  <2>8. ReseedInv'
    BY <1>2, FillEffect DEF Core, ReseedInv, OthersStay, TablesStay, Stale
  <2>. QED
    BY <2>5, <2>6, <2>7, <2>8 DEF Core
<1>. QED
  BY <1>1, <1>2

\* The committed step: a new epoch appears whole, an old one is unchanged.
LEMMA CommitIsWhole ==
    ASSUME TypeOK, Shape, Schema, Core, NEW p \in Operators, Commit(p)
    PROVE  /\ built = fixture /\ run[p].version = built
           /\ Cursor(p) \in EpochIds
           /\ tx[p].fresh =>
                 /\ Cursor(p) \notin Sealed
                 /\ epochs' = [epochs EXCEPT ![Cursor(p)] = SealedRow(Cursor(p), built)]
                 /\ cells' = [cells EXCEPT ![Cursor(p)] = Fixture[built]]
           /\ ~tx[p].fresh => UNCHANGED <<epochs, cells>>
<1>1. pc[p] = "fill" /\ tx[p].todo = {} /\ Cursor(p) \in EpochIds
  BY CommitEffect
<1>2. /\ built = fixture /\ run[p].version = built
      /\ run[p].parent = ParentRoot(Cursor(p), Fixture[built])
  BY <1>1 DEF Core, SeederInv, Seeding
<1>3. CASE tx[p].fresh
  <2>1. Cursor(p) \notin Sealed /\ tx[p].added = Fixture[built]
    BY <1>1, <1>3 DEF Core, InsertInv, Schema, OneSealer
  <2>2. cells[Cursor(p)] = {}
    BY <1>1, <2>1 DEF Schema, KeysHold
  <2>. QED
    BY <1>1, <1>2, <1>3, <2>1, <2>2 DEF Commit, Publish, NextLabel, SealedRow, TypeOK
<1>4. CASE ~tx[p].fresh
  <2>1. tx[p].added = {}
    BY <1>4 DEF Core, InsertInv
  <2>. QED
    BY <1>1, <1>2, <1>4, <2>1 DEF Commit, Publish, NextLabel, TypeOK
<1>. QED
  BY <1>1, <1>2, <1>3, <1>4

\* A commit: the log grows by one whole epoch, or not at all.
LEMMA CoreCommit ==
    ASSUME TypeOK, Shape, Schema, Core, NEW p \in Operators, Commit(p) PROVE Core'
<1>. DEFINE e == Cursor(p)
<1>1. built = fixture /\ run[p].version = built /\ e \in EpochIds
  BY CommitIsWhole
<1>2. LogWhole'
  <2>1. CASE tx[p].fresh
    <3>1. /\ epochs'[e] = SealedRow(e, built) /\ cells'[e] = Fixture[built]
          /\ e \notin Sealed
      BY <2>1, <1>1, CommitIsWhole DEF TypeOK
    <3>2. \A f \in Sealed' : f = e \/ (f \in Sealed /\ f # e)
      BY CommitEffect DEF Sealed
    <3>3. \A f \in Sealed : f # e => epochs'[f] = epochs[f] /\ cells'[f] = cells[f]
      BY CommitEffect, SealedAreEpochs
    <3>4. built' = built
      BY CommitEffect
    <3>. QED
      BY <3>1, <3>2, <3>3, <3>4 DEF Core, LogWhole
  <2>2. CASE ~tx[p].fresh
    <3>1. UNCHANGED <<epochs, cells, built>>
      BY <2>2, CommitIsWhole, CommitEffect
    <3>. QED
      BY <3>1 DEF Core, LogWhole, Sealed
  <2>. QED
    BY <2>1, <2>2
<1>3. SeederInv'
  <2>1. /\ Cursor(p)' = e + 1 /\ pc'[p] \in {"check", "done"}
        /\ run'[p].parent = MerkleRoot(e, Fixture[fixture])
        /\ run'[p].version = fixture
        /\ OthersStay(p) /\ UNCHANGED <<fixture, built>>
    BY <1>1, CommitEffect
  <2>2. run'[p].parent = ParentRoot(Cursor(p)', Fixture[fixture])
    BY <1>1, <2>1, TablesAssumption DEF ParentRoot, EpochIds
  <2>. QED
    BY <1>1, <2>1, <2>2 DEF Core, SeederInv, Seeding, OthersStay
<1>4. InsertInv'
  BY CommitEffect DEF Core, InsertInv, OthersStay, Cleared
<1>5. ReseedInv'
  BY <1>1, CommitEffect DEF Core, ReseedInv, Stale
<1>. QED
  BY <1>2, <1>3, <1>4, <1>5 DEF Core

\* DELETE FROM cell_states.
LEMMA CoreWipeCells ==
    ASSUME TypeOK, Shape, Core, NEW p \in Operators, WipeCells(p) PROVE Core'
<1>1. LogWhole'
  BY WipeCellsEffect DEF Core, LogWhole, TablesStay
<1>2. SeederInv'
  BY WipeCellsEffect DEF Core, SeederInv, Seeding, OthersStay
<1>3. InsertInv'
  BY WipeCellsEffect DEF Core, InsertInv, OthersStay
<1>4. ReseedInv'
  BY WipeCellsEffect DEF Core, ReseedInv, OthersStay, TablesStay, Stale
<1>. QED
  BY <1>1, <1>2, <1>3, <1>4 DEF Core

\* DELETE FROM epochs: reseed_italy.sh names every epoch.
LEMMA CoreWipeEpochs ==
    ASSUME TypeOK, Shape, Core, NEW p \in Operators, WipeEpochs(p) PROVE Core'
<1>1. CASE Fail(p)
  BY <1>1, CoreFail
<1>2. CASE ~Fail(p)
  <2>1. LogWhole'
    BY <1>2, WipeEpochsEffect DEF Core, LogWhole, TablesStay
  <2>2. SeederInv'
    BY <1>2, WipeEpochsEffect DEF Core, SeederInv, Seeding, OthersStay
  <2>3. InsertInv'
    BY <1>2, WipeEpochsEffect DEF Core, InsertInv, OthersStay
  <2>4. run[p].script = "reseed" => Sealed \subseteq tx'[p].dropped
    <3>1. tx'[p].dropped = Scope(run[p].script) \cap Sealed
      BY <1>2, WipeEpochsEffect
    <3>. QED
      BY <3>1, SealedAreEpochs DEF Scope
  <2>5. ReseedInv'
    BY <1>2, <2>4, WipeEpochsEffect DEF Core, ReseedInv, OthersStay, TablesStay, Stale
  <2>. QED
    BY <2>1, <2>2, <2>3, <2>5 DEF Core
<1>. QED
  BY <1>1, <1>2

\* A clear that commits: the epochs it leaves are whole, and the contents
\* change only when nothing is left.
LEMMA CoreWipeCommit ==
    ASSUME TypeOK, Shape, Schema, Core, NEW p \in Operators, WipeCommit(p) PROVE Core'
<1>1. ASSUME NEW e \in Sealed'
      PROVE  e \in Sealed /\ epochs'[e] = epochs[e] /\ cells'[e] = cells[e]
  <2>1. e \in EpochIds
    BY DEF Sealed
  <2>. QED
    BY <2>1, WipeCommitEffect, WipeIsWhole
<1>2. ASSUME built' # built PROVE Sealed' = {}
  <2>1. Sealed \subseteq tx[p].dropped
    BY <1>2, WipeCommitEffect DEF Core, ReseedInv
  <2>. QED
    BY <1>1, <2>1, WipeCommitEffect DEF Sealed
<1>3. LogWhole'
  BY <1>1, <1>2 DEF Core, LogWhole
<1>4. \A q \in Operators : pc'[q] \in Seeding \cup {"launch"} => built' = fixture
  <2>1. \A q \in Operators \ {p} : pc[q] \in Seeding \cup {"launch"} => built = fixture
    BY DEF Core, SeederInv
  <2>. QED
    BY <2>1, WipeCommitEffect DEF OthersStay, Seeding
<1>5. SeederInv'
  BY <1>4, WipeCommitEffect DEF Core, SeederInv, Seeding, OthersStay
<1>6. InsertInv'
  <2>1. ASSUME NEW q \in Operators \ {p}, pc[q] \in {"seal", "fill"} PROVE built' = built
    BY <2>1, <1>4, WipeCommitEffect DEF Core, SeederInv, OthersStay, Seeding
  <2>2. \A q \in Operators : tx[q].fresh => pc[q] = "fill"
    BY DEF Shape
  <2>. QED
    BY <2>1, <2>2, WipeCommitEffect DEF Core, InsertInv, OthersStay, Cleared
<1>7. ReseedInv'
  <2>1. Stale' => Stale
    BY WipeCommitEffect DEF Stale
  <2>. QED
    BY <1>1, <2>1, WipeCommitEffect DEF Core, ReseedInv, OthersStay
<1>. QED
  BY <1>3, <1>5, <1>6, <1>7 DEF Core

\* A clear that mends a mixed store: it is empty and p is alone.
LEMMA CoreReset ==
    ASSUME TypeOK, Shape', NEW p \in Operators, mixed, WipeCommit(p), ~mixed'
    PROVE  Core'
<1>1. /\ run[p].script = "reseed"
      /\ \A e \in EpochIds : epochs'[e] = None /\ cells'[e] = {}
      /\ Quiet(Operators \ {p})
  BY DEF WipeCommit
<1>2. built' = fixture'
  BY <1>1 DEF WipeCommit
<1>3. \A q \in Operators : pc'[q] \in Resting \cup {"launch"}
  BY <1>1 DEF WipeCommit, Quiet, TypeOK
<1>4. EmptyStore'
  BY <1>1, <1>2, <1>3 DEF EmptyStore, Resting
<1>. QED
  BY <1>4, CoreEmpty, PTL

\* New contents of the fixture, while nothing runs.
LEMMA CoreRefresh ==
    ASSUME TypeOK, Core, NEW v \in Versions, RefreshFixture(v), ~mixed'
    PROVE  Core'
<1>1. /\ \A p \in Operators : pc[p] \in Resting
      /\ UNCHANGED <<epochs, cells, pc, run, tx, built>>
      /\ Sealed' = Sealed
  BY DEF RefreshFixture, Quiet, tables, Sealed
<1>. QED
  BY <1>1 DEF Core, LogWhole, SeederInv, InsertInv, ReseedInv, Resting, Seeding

\* Every step that does not lead to a mixed store.
LEMMA CoreStep ==
    ASSUME IInv, Shape', [Next]_vars, ~mixed' PROVE Core'
<1>. USE DEF IInv
<1>1. ASSUME NEW p \in Operators,
             \/ Step(p) \/ StartSeed(p) \/ Crash(p)
             \/ \E script \in {"reseed", "hotfix"} : StartWipe(p, script)
      PROVE  Core'
  <2>1. CASE mixed
    <3>1. WipeCommit(p)
      BY <1>1, <2>1 DEF Step, StartSeed, Crash, StartWipe, Check, Seal, Fill,
         Commit, Publish, NextLabel, WipeCells, WipeEpochs, Launch, DeadlockVictim, Fail,
         history
    <3>. QED
      BY <2>1, <3>1, CoreReset
  <2>2. CASE ~mixed /\ (Check(p) \/ Seal(p) \/ Fill(p) \/ Commit(p))
    BY <2>2, CoreCheck, CoreSeal, CoreFill, CoreCommit
  <2>3. CASE ~mixed /\ (WipeCells(p) \/ WipeEpochs(p) \/ WipeCommit(p))
    BY <2>3, CoreWipeCells, CoreWipeEpochs, CoreWipeCommit
  <2>4. CASE ~mixed /\ (Launch(p) \/ StartSeed(p))
    <3>1. ~Stale
      BY <2>4 DEF Launch, StartSeed, Core, SeederInv, Stale
    <3>. QED
      BY <2>4, <3>1, CoreBegin DEF Launch, StartSeed
  <2>5. CASE ~mixed /\ (Crash(p) \/ DeadlockVictim(p))
    BY <2>5, CoreFail DEF Crash, DeadlockVictim
  <2>6. CASE ~mixed /\ \E script \in {"reseed", "hotfix"} : StartWipe(p, script)
    BY <2>6, StartWipeEffect, CoreCleared DEF Seeding
  <2>. QED
    BY <1>1, <2>1, <2>2, <2>3, <2>4, <2>5, <2>6 DEF Step
<1>2. ASSUME NEW v \in Versions, RefreshFixture(v) PROVE Core'
  <2>1. ~mixed
    BY <1>2 DEF RefreshFixture
  <2>. QED
    BY <1>2, <2>1, CoreRefresh
<1>3. CASE UNCHANGED vars
  <2>1. UNCHANGED <<fixture, epochs, cells, pc, run, tx, built, mixed>> /\ Core
    BY <1>3 DEF vars, tables, history
  <2>. QED
    BY <2>1 DEF Core, LogWhole, SeederInv, InsertInv, ReseedInv, Sealed, Cursor, Stale
<1>. QED
  BY <1>1, <1>2, <1>3 DEF Next

\* Every step preserves the inductive invariant.
LEMMA InvStep == IInv /\ [Next]_vars => IInv'
<1>. SUFFICES ASSUME IInv, [Next]_vars PROVE IInv'
  OBVIOUS
<1>1. TypeOK' /\ Shape'
  BY TypeStep DEF IInv
<1>2. Schema' /\ NoneSkipped'
  BY SchemaStep, NoneSkippedStep DEF IInv
<1>3. ~mixed' => Core'
  BY <1>1, CoreStep
<1>. QED
  BY <1>1, <1>2, <1>3 DEF IInv

\* The invariant holds of the empty store.
LEMMA InitInv == Init => IInv
<1>. SUFFICES ASSUME Init PROVE IInv
  OBVIOUS
<1>1. TypeOK /\ Shape
  BY InitType
<1>2. EmptyStore
  BY <1>1 DEF Init, EmptyStore, Resting
<1>3. \A p \in Operators : Cleared(tx[p]) /\ pc[p] = "idle"
  BY DEF Init, NoTx, NoWipe, Cleared
<1>4. Schema
  BY <1>2, <1>3 DEF EmptyStore, Schema, KeysHold, OneSealer, FillInv, WipeInv, Cleared
<1>5. NoneSkipped
  BY <1>3 DEF NoneSkipped, Wiping, Seeding
<1>. QED
  BY <1>1, <1>2, <1>4, <1>5, CoreEmpty DEF IInv

\* The inductive invariant: types, the shape of a transaction, what keys and
\* locks ensure and, unless the store is mixed, what the procedure ensures.
THEOREM Invariance == Spec => []IInv
BY InitInv, InvStep, PTL DEF Spec

-----------------------------------------------------------------------------
(* The properties.                                                         *)

\* The row of a sealed epoch, field by field.
LEMMA SealedRows ==
    ASSUME IInv, ~mixed, NEW e \in Sealed
    PROVE  /\ epochs[e].root = MerkleRoot(e, Fixture[built])
           /\ epochs[e].parent = ParentRoot(e, Fixture[built])
           /\ epochs[e].count = Cardinality(Fixture[built])
           /\ cells[e] = Fixture[built]
<1>1. epochs[e] = SealedRow(e, built) /\ cells[e] = Fixture[built]
  BY DEF IInv, Core, LogWhole
<1>. QED
  BY <1>1 DEF SealedRow, NewRow

\* Every root is the root of the cells stored under it.
THEOREM RootsCoverCells == Spec => []SealedRootCoversCells
<1>1. IInv => SealedRootCoversCells
  BY SealedRows DEF SealedRootCoversCells
<1>. QED
  BY <1>1, Invariance, PTL

\* Each epoch names the root of the one before it, whatever interleaving of
\* scripts wrote the two.
THEOREM ChainIsLinked == Spec => []ChainLinked
<1>1. IInv => ChainLinked
  <2>. SUFFICES ASSUME IInv, ~mixed, NEW e \in Sealed
                PROVE  IF e = 0 THEN epochs[e].parent = None
                       ELSE e - 1 \in Sealed =>
                               epochs[e].parent = epochs[e - 1].root
    BY DEF ChainLinked
  <2>1. epochs[e].parent = ParentRoot(e, Fixture[built])
    BY SealedRows
  <2>2. CASE e = 0
    BY <2>1, <2>2 DEF ParentRoot
  <2>3. CASE e # 0
    <3>1. e - 1 \in Sealed => epochs[e - 1].root = MerkleRoot(e - 1, Fixture[built])
      BY SealedRows
    <3>. QED
      BY <2>1, <2>3, <3>1 DEF ParentRoot
  <2>. QED
    BY <2>2, <2>3
<1>. QED
  BY <1>1, Invariance, PTL

\* A seeder that has finished leaves all the epochs, mixed store or not,
\* unless one was erased behind it (main.rs:400-508).
THEOREM FinishedLogIsComplete == Spec => []FinishedLogComplete
<1>1. IInv => FinishedLogComplete
  <2>. SUFFICES ASSUME IInv, NEW p \in Operators, pc[p] = "done",
                       Cursor(p) = EpochCount, ~disturbed[p]
                PROVE  Sealed = EpochIds
    BY DEF FinishedLogComplete, Cursor
  <2>1. \A e \in EpochIds : e < EpochCount
    BY TablesAssumption DEF EpochIds
  <2>2. \A e \in EpochIds : e \in Sealed
    BY <2>1 DEF IInv, NoneSkipped
  <2>. QED
    BY <2>2, SealedAreEpochs
<1>. QED
  BY <1>1, Invariance, PTL

-----------------------------------------------------------------------------
(* The log of EpochLog.  While the procedure is followed, a commit of a    *)
(* seeder seals an epoch and one of a clear erases epochs; in a mixed      *)
(* store no row is rewritten; and nothing else shows.                      *)

LogPart == <<built, mixed, epochs, cells>>

\* The rows of the log are those of the store.
LEMMA LogRows ==
    /\ Log!EpochIds = EpochIds
    /\ \A e, v : Log!SealedRow(e, v) = SealedRow(e, v)
    /\ \A l : Log!CellOf(l) = CellOf(l)
<1>1. Log!EpochIds = EpochIds /\ \A l : Log!CellOf(l) = CellOf(l)
  BY DEF Log!EpochIds, EpochIds, Log!CellOf, CellOf
<1>2. ASSUME NEW e, NEW v PROVE Log!SealedRow(e, v) = SealedRow(e, v)
  <2>1. Log!ParentRoot(e, Fixture[v]) = ParentRoot(e, Fixture[v])
    BY DEF Log!ParentRoot, ParentRoot, Log!MerkleRoot, MerkleRoot
  <2>2. Log!Cardinality(Fixture[v]) = Cardinality(Fixture[v])
    BY DEF Log!Cardinality, Cardinality
  <2>. QED
    BY <2>1, <2>2 DEF Log!SealedRow, Log!NewRow, Log!MerkleRoot, SealedRow, NewRow, MerkleRoot
<1>. QED
  BY <1>1, <1>2

\* Only the two commits write the tables, and only a clear's ends a mixture.
LEMMA OnlyCommitsWrite ==
    ASSUME TypeOK, [Next]_vars
    PROVE  \/ \E p \in Operators : Commit(p) \/ WipeCommit(p)
           \/ UNCHANGED <<epochs, cells, built>> /\ (mixed => mixed')
<1>1. ASSUME NEW p \in Operators,
             \/ Check(p) \/ Seal(p) \/ Fill(p) \/ WipeCells(p) \/ WipeEpochs(p)
             \/ Launch(p) \/ DeadlockVictim(p) \/ StartSeed(p) \/ Crash(p)
             \/ \E script \in {"reseed", "hotfix"} : StartWipe(p, script)
      PROVE  UNCHANGED <<epochs, cells, built>> /\ (mixed => mixed')
  <2>1. CASE Check(p) \/ Seal(p) \/ Fill(p) \/ DeadlockVictim(p) \/ Crash(p)
    BY <2>1 DEF Check, Seal, Fill, DeadlockVictim, Crash, Fail, tables, history
  <2>2. CASE WipeCells(p) \/ WipeEpochs(p)
    BY <2>2 DEF WipeCells, WipeEpochs, Fail, tables, history
  <2>3. CASE Launch(p) \/ StartSeed(p)
    <3>1. UNCHANGED <<epochs, cells, built>>
      BY <2>3 DEF Launch, StartSeed, BeginSeeding, tables
    <3>2. mixed' = mixed \/ mixed' = (mixed \/ Stale)
      BY <2>3, Zenon DEF Launch, StartSeed
    <3>3. mixed => mixed'
      BY <3>2, Zenon DEF TypeOK
    <3>. QED
      BY <3>1, <3>3
  <2>4. CASE \E script \in {"reseed", "hotfix"} : StartWipe(p, script)
    BY <2>4 DEF StartWipe, tables, history
  <2>. QED
    BY <1>1, <2>1, <2>2, <2>3, <2>4
<1>2. ASSUME NEW v \in Versions, RefreshFixture(v)
      PROVE  UNCHANGED <<epochs, cells, built>> /\ (mixed => mixed')
  BY <1>2 DEF RefreshFixture, tables
<1>3. CASE UNCHANGED vars
  BY <1>3 DEF vars, tables, history
<1>. QED
  BY <1>1, <1>2, <1>3 DEF Next, Step

\* A commit of the seeder seals the epoch, or changes nothing.
LEMMA CommitIsSeal ==
    ASSUME IInv, ~mixed, NEW p \in Operators, Commit(p)
    PROVE  Log!LogNext \/ UNCHANGED LogPart
<1>1. UNCHANGED <<built, mixed>>
  BY DEF Commit, Publish, history
<1>2. CASE tx[p].fresh
  <2>1. Log!LogSeal(Cursor(p))
    BY <1>1, <1>2, CommitIsWhole, LogRows DEF IInv, Log!LogSeal, Sealed
  <2>2. Cursor(p) \in EpochIds
    BY CommitIsWhole DEF IInv
  <2>. QED
    BY <1>1, <2>1, <2>2, LogRows DEF Log!LogNext
<1>3. CASE ~tx[p].fresh
  BY <1>1, <1>3, CommitIsWhole DEF IInv, LogPart
<1>. QED
  BY <1>2, <1>3

\* A commit of a clear erases the epochs whose rows it deleted.
LEMMA WipeCommitIsErase ==
    ASSUME IInv, TypeOK', ~mixed, NEW p \in Operators, WipeCommit(p), ~mixed'
    PROVE  Log!LogNext
<1>1. tx[p].dropped \in SUBSET EpochIds /\ built' \in Versions
  BY DEF IInv, TypeOK, Tx
<1>2. built' # built => Log!Sealed \subseteq tx[p].dropped
  BY WipeCommitEffect, LogRows DEF IInv, Core, ReseedInv, Log!Sealed, Sealed
<1>3. epochs' = [e \in EpochIds |-> IF e \in tx[p].dropped THEN None ELSE epochs[e]]
  BY DEF WipeCommit
<1>4. cells' = [e \in EpochIds |-> IF e \in tx[p].dropped THEN {} ELSE cells[e]]
  <2>1. \A e \in EpochIds : cells'[e] = IF e \in tx[p].dropped THEN {} ELSE cells[e]
    BY WipeIsWhole DEF IInv
  <2>. QED
    BY <2>1 DEF WipeCommit
<1>5. Log!LogErase(tx[p].dropped, built')
  BY <1>2, <1>3, <1>4, LogRows DEF Log!LogErase
<1>. QED
  BY <1>1, <1>5, LogRows DEF Log!LogNext

\* A clear that ends a mixture leaves an empty log.
LEMMA MendingIsRestart ==
    ASSUME TypeOK', NEW p \in Operators, mixed, WipeCommit(p), ~mixed'
    PROVE  Log!LogNext
<1>1. \A e \in EpochIds : epochs'[e] = None /\ cells'[e] = {}
  BY DEF WipeCommit
<1>2. epochs' = [e \in EpochIds |-> None] /\ cells' = [e \in EpochIds |-> {}]
  BY <1>1 DEF TypeOK
<1>3. built' \in Versions
  BY DEF TypeOK
<1>. QED
  BY <1>2, <1>3, LogRows DEF Log!LogNext, Log!LogRestart

\* A step that leaves the store mixed rewrites no row: the primary keys of
\* the two tables are enough for that.
LEMMA MixedStepIsOfLog ==
    ASSUME IInv, [Next]_vars, mixed' PROVE Log!LogNext
<1>1. \A e \in EpochIds : \A l \in cells[e], m \in cells'[e] :
         CellOf(l) = CellOf(m) => l = m
  BY RowsKeepContents DEF IInv
<1>2. ASSUME NEW e \in EpochIds, epochs'[e] # epochs[e]
      PROVE  epochs[e] = None \/ epochs'[e] = None
  <2>1. ASSUME NEW p \in Operators, Commit(p) PROVE epochs[e] = None
    <3>1. e = Cursor(p) /\ tx[p].fresh
      BY <1>2, <2>1, CommitEffect DEF IInv
    <3>. QED
      BY <3>1 DEF IInv, Schema, OneSealer, Sealed
  <2>2. ASSUME NEW p \in Operators, WipeCommit(p) PROVE epochs'[e] = None
    BY <1>2, <2>2, WipeCommitEffect DEF IInv
  <2>. QED
    BY <1>2, <2>1, <2>2, OnlyCommitsWrite DEF IInv
<1>3. Log!LogMixed
  BY <1>1, <1>2, LogRows DEF Log!LogMixed
<1>. QED
  BY <1>3 DEF Log!LogNext

\* Every step of the store is one of the log.
LEMMA StepIsOfLog ==
    ASSUME IInv, [Next]_vars PROVE Log!LogNext \/ UNCHANGED LogPart
<1>1. TypeOK /\ TypeOK'
  BY TypeStep DEF IInv
<1>2. CASE mixed'
  BY <1>2, MixedStepIsOfLog
<1>3. CASE ~mixed'
  <2>1. ASSUME NEW p \in Operators, Commit(p) PROVE Log!LogNext \/ UNCHANGED LogPart
    <3>1. ~mixed
      BY <1>3, <2>1 DEF Commit, Publish, history
    <3>. QED
      BY <2>1, <3>1, CommitIsSeal
  <2>2. ASSUME NEW p \in Operators, WipeCommit(p) PROVE Log!LogNext
    BY <1>1, <1>3, <2>2, WipeCommitIsErase, MendingIsRestart
  <2>3. ASSUME UNCHANGED <<epochs, cells, built>>, mixed => mixed'
        PROVE  UNCHANGED LogPart
    BY <1>1, <1>3, <2>3 DEF LogPart, TypeOK
  <2>. QED
    BY <1>1, <2>1, <2>2, <2>3, OnlyCommitsWrite
<1>. QED
  BY <1>2, <1>3

\* The epoch tables implement the abstract log: while the procedure of
\* reseed_italy.sh is followed, and again once it is, epochs appear and vanish
\* whole; and whatever is interleaved, killed or mistaken, no row is rewritten
\* (main.rs:444-502, reseed_italy.sh:51-75).
THEOREM LogIsImplemented == Spec => ImplementsLog
<1>1. Init => Log!LogInit
  BY LogRows DEF Init, Log!LogInit
<1>2. IInv /\ [Next]_vars => [Log!LogNext]_(Log!logVars)
  BY StepIsOfLog DEF LogPart, Log!logVars
<1>. QED
  BY <1>1, <1>2, Invariance, PTL DEF Spec, ImplementsLog, Log!LogSpec
=============================================================================
