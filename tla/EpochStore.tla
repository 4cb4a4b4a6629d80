----------------------------- MODULE EpochStore -----------------------------
(***************************************************************************)
(* The programs that write the epoch tables, statement by statement:       *)
(*   - the seeder (crates/seed-data): one transaction per epoch, carrying  *)
(*     the parent root from one transaction to the next in memory;         *)
(*   - reseed_italy.sh: one transaction that clears every epoch, then the  *)
(*     seeder;                                                             *)
(*   - hotfix_epoch0.sql: one transaction that clears epoch 0.             *)
(*                                                                         *)
(* Several operators may run them at once, a run may die between any two   *)
(* statements, and the fixture file may be refreshed at any time.          *)
(*                                                                         *)
(* Transactions are READ COMMITTED.  A transaction's own writes stay in    *)
(* tx[p] until it commits; a statement that needs a row another open       *)
(* transaction has inserted, deleted or referenced waits for it (WaitsFor) *)
(* and is evaluated against the tables as they then are.                   *)
(***************************************************************************)
EXTENDS EpochTables

CONSTANT Operators  \* processes that run the scripts

VARIABLES
    fixture,    \* contents of fixtures/osm/substations.geojson
    epochs,     \* committed rows of table epochs
    cells,      \* committed rows of table cell_states
    pc,         \* pc[p]: the next statement of operator p
    run,        \* run[p]: local variables of the script p runs
    tx,         \* tx[p]: what the open transaction of p has done
    built,      \* history: contents the store is built from
    mixed,      \* history: the store may hold two contents of the fixture
    disturbed   \* history: an epoch was erased since p's seeder started

tables == <<epochs, cells>>
history == <<built, mixed, disturbed>>
vars == <<fixture, tables, pc, run, tx, history>>

Resting == {"idle", "done"}
Seeding == {"check", "seal", "fill"}
Wiping  == {"wipe_cells", "wipe_epochs", "wipe_commit"}
Labels  == Resting \cup Seeding \cup Wiping \cup {"launch"}

Scripts == {"seed", "reseed", "hotfix"}
Scope(script) == IF script = "hotfix" THEN {0} ELSE EpochIds

Run == [script : Scripts, cursor : 0 .. EpochCount,
        parent : Root \cup {None}, version : Versions]
Tx == [fresh : BOOLEAN, added : SUBSET Leaf, todo : SUBSET Leaf,
       wiped : [EpochIds -> SUBSET Leaf], dropped : SUBSET EpochIds]

NoWipe == [e \in EpochIds |-> {}]
NoTx == [fresh |-> FALSE, added |-> {}, todo |-> {},
         wiped |-> NoWipe, dropped |-> {}]

Sealed == {e \in EpochIds : epochs[e] # None}

\* Mutant: a run resumes at the number of epochs it finds.
NewRunResuming(script) ==
    [script |-> script, parent |-> None, version |-> fixture,
     cursor |-> IF Sealed = EpochIds THEN 0 ELSE Cardinality(Sealed)]

NewRun(script) ==
    [script |-> script, cursor |-> 0, parent |-> None, version |-> fixture]

Stale == built # fixture
Quiet(S) == \A q \in S : pc[q] \in Resting

TypeOK ==
    /\ fixture \in Versions
    /\ epochs \in [EpochIds -> EpochRow \cup {None}]
    /\ cells \in [EpochIds -> SUBSET Leaf]
    /\ pc \in [Operators -> Labels]
    /\ run \in [Operators -> Run]
    /\ tx \in [Operators -> Tx]
    /\ built \in Versions
    /\ mixed \in BOOLEAN
    /\ disturbed \in [Operators -> BOOLEAN]

Init ==
    /\ fixture \in Versions
    /\ epochs = [e \in EpochIds |-> None]
    /\ cells = [e \in EpochIds |-> {}]
    /\ pc = [p \in Operators |-> "idle"]
    /\ run = [p \in Operators |-> NewRun("seed")]
    /\ tx = [p \in Operators |-> NoTx]
    /\ built = fixture
    /\ mixed = FALSE
    /\ disturbed = [p \in Operators |-> FALSE]

-----------------------------------------------------------------------------
(* Row locks.                                                              *)

Cursor(p) == run[p].cursor

\* The rows of the next batch that ON CONFLICT DO NOTHING will not skip.
NewCells(p) ==
    LET stored == CellsOf(cells[Cursor(p)])
    IN  {l \in FirstBatch(tx[p].todo) : CellOf(l) \notin stored}

\* A unique index entry: the holder has inserted it, or deletes it.
WaitsToSeal(p, q) ==
    \/ tx[q].fresh /\ Cursor(q) = Cursor(p)
    \/ Cursor(p) \in tx[q].dropped

\* The same for the rows of one batch; and the foreign key of a new cell
\* needs the epoch row, which the holder may be deleting.
WaitsToFill(p, q) ==
    LET batch == CellsOf(FirstBatch(tx[p].todo))
    IN  \/ Cursor(q) = Cursor(p) /\ CellsOf(tx[q].added) \cap batch # {}
        \/ CellsOf(tx[q].wiped[Cursor(p)]) \cap batch # {}
        \/ /\ NewCells(p) # {}
           /\ ~tx[p].fresh
           /\ Cursor(p) \in tx[q].dropped

WaitsToWipeCells(p, q) ==
    \E e \in Scope(run[p].script) : tx[q].wiped[e] \cap cells[e] # {}

\* The epoch row is being deleted, or is locked by the foreign key of an
\* uncommitted cell; or RESTRICT looks at a cell the holder is deleting.
WaitsToWipeEpochs(p, q) ==
    \E e \in Scope(run[p].script) \cap Sealed :
        \/ e \in tx[q].dropped
        \/ Cursor(q) = e /\ tx[q].added # {} /\ ~tx[q].fresh
        \/ tx[q].wiped[e] \cap (cells[e] \ tx[p].wiped[e]) # {}

WaitsFor(p) ==
    {q \in Operators \ {p} :
        \/ pc[p] = "seal" /\ WaitsToSeal(p, q)
        \/ pc[p] = "fill" /\ WaitsToFill(p, q)
        \/ pc[p] = "wipe_cells" /\ WaitsToWipeCells(p, q)
        \/ pc[p] = "wipe_epochs" /\ WaitsToWipeEpochs(p, q)}

Runs(p, label) == pc[p] = label /\ WaitsFor(p) = {}

-----------------------------------------------------------------------------
(* The end of a transaction that does not commit: nothing of it remains,   *)
(* and the script stops (`?` in the seeder, ON_ERROR_STOP and set -e).     *)

Fail(p) ==
    /\ pc' = [pc EXCEPT ![p] = "idle"]
    /\ tx' = [tx EXCEPT ![p] = NoTx]
    /\ UNCHANGED <<fixture, tables, run, history>>

\* The process is killed, or loses its connection.
Crash(p) == pc[p] \notin Resting /\ Fail(p)

\* Mutant: deadlocks are not detected.
NoDeadlockVictim(p) == p \notin Operators /\ Fail(p)

\* Two transactions wait for each other: Postgres aborts one of them.
DeadlockVictim(p) ==
    /\ \E q \in WaitsFor(p) : p \in WaitsFor(q)
    /\ Fail(p)

-----------------------------------------------------------------------------
(* The seeder.                                                             *)

\* The binary starts, loads the fixture and enters the loop with no parent.
BeginSeeding(p, script) ==
    /\ pc' = [pc EXCEPT ![p] = "check"]
    /\ run' = [run EXCEPT ![p] = NewRun(script)]
    /\ disturbed' = [disturbed EXCEPT ![p] = FALSE]
    /\ UNCHANGED <<fixture, tables, tx, built>>

StartSeed(p) ==
    /\ pc[p] \in Resting
    /\ mixed' = (mixed \/ Stale)
    /\ BeginSeeding(p, "seed")

\* reseed_italy.sh: the seeder starts after the clearing transaction.
Launch(p) ==
    /\ pc[p] = "launch"
    /\ BeginSeeding(p, "reseed")
    /\ UNCHANGED mixed

\* SELECT EXISTS: an epoch that is there keeps its row.
Check(p) ==
    /\ pc[p] = "check"
    /\ tx' = [tx EXCEPT ![p].todo = Fixture[run[p].version]]
    /\ pc' = [pc EXCEPT ![p] = IF Cursor(p) \in Sealed THEN "fill" ELSE "seal"]
    /\ UNCHANGED <<fixture, tables, run, history>>

\* INSERT INTO epochs: fails on the primary key if the row appeared since.
Seal(p) ==
    /\ Runs(p, "seal")
    /\ \/ Cursor(p) \in Sealed /\ Fail(p)
       \/ /\ Cursor(p) \notin Sealed
          /\ tx' = [tx EXCEPT ![p].fresh = TRUE]
          /\ pc' = [pc EXCEPT ![p] = "fill"]
          /\ UNCHANGED <<fixture, tables, run, history>>

\* Mutant: the cells are inserted outside the transaction.
FillOutsideTransaction(p) ==
    /\ tx[p].todo # {}
    /\ Runs(p, "fill")
    /\ cells' = [cells EXCEPT ![Cursor(p)] = @ \cup NewCells(p)]
    /\ tx' = [tx EXCEPT ![p].todo = @ \ FirstBatch(@)]
    /\ UNCHANGED <<fixture, epochs, pc, run, history>>

\* INSERT INTO cell_states ... ON CONFLICT DO NOTHING: fails on the foreign
\* key if there is a new row and the epoch row is gone.
Fill(p) ==
    /\ tx[p].todo # {}
    /\ Runs(p, "fill")
    /\ LET orphan == NewCells(p) # {} /\ ~tx[p].fresh /\ Cursor(p) \notin Sealed
       IN  \/ orphan /\ Fail(p)
           \/ /\ ~orphan
              /\ tx' = [tx EXCEPT ![p].added = @ \cup NewCells(p),
                                  ![p].todo = @ \ FirstBatch(@)]
              /\ UNCHANGED <<fixture, tables, pc, run, history>>

\* What a commit of p makes of the tables and of its transaction.
Publish(p) ==
    LET e == Cursor(p)
        row == NewRow(e, run[p].parent, Fixture[run[p].version])
    IN  /\ epochs' = IF tx[p].fresh THEN [epochs EXCEPT ![e] = row] ELSE epochs
        /\ cells' = [cells EXCEPT ![e] = @ \cup tx[p].added]
        /\ tx' = [tx EXCEPT ![p] = NoTx]
        /\ UNCHANGED <<fixture, history>>

NextLabel(p) == IF Cursor(p) + 1 < EpochCount THEN "check" ELSE "done"

\* Mutant: the transaction ends with the first batch.
CommitFirstBatch(p) ==
    /\ pc[p] = "fill"
    /\ Publish(p)
    /\ run' = [run EXCEPT ![p].cursor = @ + 1,
                          ![p].parent = MerkleRoot(Cursor(p), Fixture[run[p].version])]
    /\ pc' = [pc EXCEPT ![p] = NextLabel(p)]

\* Mutant: an epoch that was there gives no parent to the next.
CommitForgettingParent(p) ==
    /\ pc[p] = "fill"
    /\ tx[p].todo = {}
    /\ Publish(p)
    /\ run' = [run EXCEPT ![p].cursor = @ + 1,
                          ![p].parent = IF tx[p].fresh
                              THEN MerkleRoot(Cursor(p), Fixture[run[p].version])
                              ELSE None]
    /\ pc' = [pc EXCEPT ![p] = NextLabel(p)]

\* Mutant: the next parent is the row, not its root.
CommitPassingRow(p) ==
    /\ pc[p] = "fill"
    /\ tx[p].todo = {}
    /\ Publish(p)
    /\ run' = [run EXCEPT ![p].cursor = @ + 1,
                          ![p].parent = NewRow(Cursor(p), run[p].parent,
                                               Fixture[run[p].version])]
    /\ pc' = [pc EXCEPT ![p] = NextLabel(p)]

\* COMMIT; the loop goes on with the root it computed as the next parent,
\* whichever row the epoch has.
Commit(p) ==
    /\ pc[p] = "fill"
    /\ tx[p].todo = {}
    /\ Publish(p)
    /\ run' = [run EXCEPT ![p].cursor = @ + 1,
                          ![p].parent = MerkleRoot(Cursor(p), Fixture[run[p].version])]
    /\ pc' = [pc EXCEPT ![p] = NextLabel(p)]

-----------------------------------------------------------------------------
(* The clearing transaction of reseed_italy.sh and of hotfix_epoch0.sql.   *)

StartWipe(p, script) ==
    /\ pc[p] \in Resting
    /\ pc' = [pc EXCEPT ![p] = "wipe_cells"]
    /\ run' = [run EXCEPT ![p] = NewRun(script)]
    /\ UNCHANGED <<fixture, tables, tx, history>>

\* Mutant: the cells are deleted outside the transaction.
WipeCellsAtOnce(p) ==
    /\ Runs(p, "wipe_cells")
    /\ cells' = [e \in EpochIds |->
                    IF e \in Scope(run[p].script) THEN {} ELSE cells[e]]
    /\ pc' = [pc EXCEPT ![p] = "wipe_epochs"]
    /\ UNCHANGED <<fixture, epochs, run, tx, history>>

\* DELETE FROM cell_states.
WipeCells(p) ==
    /\ Runs(p, "wipe_cells")
    /\ tx' = [tx EXCEPT ![p].wiped =
                 [e \in EpochIds |->
                     IF e \in Scope(run[p].script) THEN cells[e] ELSE {}]]
    /\ pc' = [pc EXCEPT ![p] = "wipe_epochs"]
    /\ UNCHANGED <<fixture, tables, run, history>>

\* DELETE FROM epochs: refused by ON DELETE RESTRICT if a cell was committed
\* into one of these epochs since the first statement.
WipeEpochs(p) ==
    LET doomed == Scope(run[p].script) \cap Sealed
        restricted == \E e \in doomed : cells[e] \ tx[p].wiped[e] # {}
    IN  /\ Runs(p, "wipe_epochs")
        /\ \/ restricted /\ Fail(p)
           \/ /\ ~restricted
              /\ tx' = [tx EXCEPT ![p].dropped = doomed]
              /\ pc' = [pc EXCEPT ![p] = "wipe_commit"]
              /\ UNCHANGED <<fixture, tables, run, history>>

\* COMMIT.  After the clear of reseed_italy.sh the store is built from the
\* fixture in force; a clear that leaves nothing, while nothing else runs,
\* ends the mixture of an earlier mistake.
WipeCommit(p) ==
    LET reseed == run[p].script = "reseed"
        empty == \A e \in EpochIds : epochs'[e] = None /\ cells'[e] = {}
    IN  /\ pc[p] = "wipe_commit"
        /\ epochs' = [e \in EpochIds |->
                         IF e \in tx[p].dropped THEN None ELSE epochs[e]]
        /\ cells' = [e \in EpochIds |-> cells[e] \ tx[p].wiped[e]]
        /\ pc' = [pc EXCEPT ![p] = IF reseed THEN "launch" ELSE "done"]
        /\ tx' = [tx EXCEPT ![p] = NoTx]
        /\ built' = IF reseed THEN fixture ELSE built
        /\ mixed' = (mixed /\ ~(reseed /\ empty /\ Quiet(Operators \ {p})))
        /\ disturbed' = [q \in Operators |->
                            disturbed[q] \/ tx[p].dropped # {}]
        /\ UNCHANGED <<fixture, run>>

-----------------------------------------------------------------------------
\* fixtures/osm/fetch.py writes new contents.  Doing so under a running
\* script is a mistake; it shows once somebody seeds.
RefreshFixture(v) ==
    /\ v # fixture
    /\ fixture' = v
    /\ mixed' = (mixed \/ ~Quiet(Operators))
    /\ UNCHANGED <<tables, pc, run, tx, built, disturbed>>

\* What p does by itself once it is started.
Step(p) ==
    \/ Check(p) \/ Seal(p) \/ Fill(p) \/ Commit(p)
    \/ WipeCells(p) \/ WipeEpochs(p) \/ WipeCommit(p) \/ Launch(p)
    \/ DeadlockVictim(p)

Next ==
    \/ \E p \in Operators :
          \/ Step(p)
          \/ StartSeed(p)
          \/ \E script \in {"reseed", "hotfix"} : StartWipe(p, script)
          \/ Crash(p)
    \/ \E v \in Versions : RefreshFixture(v)

\* A started script is executed, and a statement that waits for a row lock
\* is woken up each time the lock is released.
Fairness == \A p \in Operators : SF_vars(Step(p))

Spec == Init /\ [][Next]_vars
FairSpec == Spec /\ Fairness

-----------------------------------------------------------------------------
(* Properties.                                                             *)

\* Every root is the root of the cells stored under it, and cell_count
\* counts them: what makes a proof built from the cells verify.
SealedRootCoversCells ==
    ~mixed => \A e \in Sealed :
        /\ epochs[e].root = MerkleRoot(e, cells[e])
        /\ epochs[e].count = Cardinality(cells[e])

\* docs/ARCHITECTURE.md: an epoch's merkle_root is the hash over every cell
\* written at that epoch; the seeder calls itself idempotent.  (Violated: a
\* seeder run over the epochs of an earlier fixture adds cells to them.)
EveryRootCoversCells ==
    \A e \in Sealed : epochs[e].root = MerkleRoot(e, cells[e])

\* Each epoch's parent_root is the merkle_root of the epoch before it, for
\* any interleaving of seeders, clears, hotfixes and crashes: a seeder that
\* resumes over existing epochs, or over a hole, still links to them.
ChainLinked ==
    ~mixed => \A e \in Sealed :
        IF e = 0 THEN epochs[e].parent = None
        ELSE e - 1 \in Sealed => epochs[e].parent = epochs[e - 1].root

\* A seeder that finishes leaves a complete log, unless an epoch was erased
\* behind it: no interleaving makes it skip one.
FinishedLogComplete ==
    \A p \in Operators :
        pc[p] = "done" /\ run[p].cursor = EpochCount
            => disturbed[p] \/ Sealed = EpochIds

\* A started script ends, however the scripts wait for each other's locks.
ScriptsEnd ==
    \A p \in Operators : pc[p] \notin Resting ~> pc[p] \in Resting

\* To a reader the tables are the log of module EpochLog.
Log == INSTANCE EpochLog WITH built <- built, mixed <- mixed, epochs <- epochs, cells <- cells
ImplementsLog == Log!LogSpec
=============================================================================
