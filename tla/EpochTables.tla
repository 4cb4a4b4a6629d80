---------------------------- MODULE EpochTables ----------------------------
(***************************************************************************)
(* The rows of the two tables a sealed history is made of, and the values  *)
(* the seeder computes for them (crates/seed-data, migrations/0001).       *)
(*                                                                         *)
(* One tenant's rows are modelled: every statement of the programs below   *)
(* carries the same tenant_id, and row-level security hides the others.    *)
(*                                                                         *)
(* BLAKE3 is taken collision free.  A content hash is the pair of a cell   *)
(* and the revision of the OSM record behind it; the payload also holds    *)
(* the epoch number, so a root is a value of its epoch and its leaves.     *)
(***************************************************************************)
EXTENDS Integers, FiniteSets

CONSTANTS
    Cells,       \* H3 indexes, as the signed integers the table orders by
    Revs,        \* revisions an OSM record can go through
    Versions,    \* contents the fixture file can have
    Fixture,     \* Fixture[v]: the leaves the seeder makes of contents v
    EpochCount,  \* EPOCH_COUNT, the epochs one seeder run writes
    BatchSize,   \* BATCH_SIZE, the rows of one INSERT statement
    None         \* SQL NULL, and the absence of a row

Leaf == Cells \X Revs
EpochIds == 0 .. EpochCount - 1

\* build_substations keeps one feature per H3 cell (dedup_by_key), so a
\* fixture has at most one leaf per cell.
ASSUME TablesAssumption ==
    /\ Cells \subseteq Int
    /\ Fixture \in [Versions -> SUBSET Leaf]
    /\ \A v \in Versions : IsFiniteSet(Fixture[v])
    /\ \A v \in Versions : \A l, m \in Fixture[v] : l[1] = m[1] => l = m
    /\ EpochCount \in Nat \ {0}
    /\ BatchSize \in Nat \ {0}

CellOf(l) == l[1]
CellsOf(leaves) == {CellOf(l) : l \in leaves}

-----------------------------------------------------------------------------
\* merkle_root over the content hashes of an epoch in h3_cell order.
MerkleRoot(e, leaves) == [epoch |-> e, leaves |-> leaves]
Root == [epoch : EpochIds, leaves : SUBSET Leaf]

EpochRow == [root : Root, parent : Root \cup {None}, count : Nat]

\* The row write_epoch inserts when it is given `parent` as parent_root.
NewRow(e, parent, leaves) ==
    [root |-> MerkleRoot(e, leaves), parent |-> parent,
     count |-> Cardinality(leaves)]

\* The parent_root a run holds in memory when it reaches epoch e.
ParentRoot(e, leaves) == IF e = 0 THEN None ELSE MerkleRoot(e - 1, leaves)

\* The one row that epoch e has in a history built from contents v.
SealedRow(e, v) == NewRow(e, ParentRoot(e, Fixture[v]), Fixture[v])

\* The rows of the next INSERT statement: rows are pushed in h3_cell order.
FirstBatch(todo) ==
    {l \in todo : Cardinality({m \in todo : CellOf(m) < CellOf(l)}) < BatchSize}

ASSUME NoneAssumption == None \notin Root /\ None \notin EpochRow
=============================================================================
