------------------------------ MODULE EpochLog ------------------------------
(***************************************************************************)
(* What the epoch tables promise a reader, whatever the seeder and the     *)
(* operators' scripts do to maintain them: a log of epochs, each appearing *)
(* whole or not at all, each the one row and the one set of cells that the *)
(* fixture in force determines.                                            *)
(*                                                                         *)
(* The promise lasts as long as the procedure of reseed_italy.sh is        *)
(* followed.  Once the store has been written from two contents of the     *)
(* fixture (mixed), only the promises of the schema remain: a row is       *)
(* inserted or deleted, never rewritten.                                   *)
(***************************************************************************)
EXTENDS EpochTables

VARIABLES
    built,   \* the fixture contents the log is built from
    mixed,   \* the procedure has been broken
    epochs,  \* the row of each epoch, or None
    cells    \* the leaves of each epoch

logVars == <<built, mixed, epochs, cells>>

Sealed == {e \in EpochIds : epochs[e] # None}

LogInit ==
    /\ built \in Versions
    /\ mixed = FALSE
    /\ epochs = [e \in EpochIds |-> None]
    /\ cells = [e \in EpochIds |-> {}]

\* An epoch is sealed: its row and all of its cells appear in one step.
LogSeal(e) ==
    /\ epochs[e] = None
    /\ epochs' = [epochs EXCEPT ![e] = SealedRow(e, built)]
    /\ cells' = [cells EXCEPT ![e] = Fixture[built]]
    /\ UNCHANGED built

\* Epochs are erased whole, for a log built from other contents when none
\* of the old one is left.
LogErase(S, v) ==
    /\ v # built => Sealed \subseteq S
    /\ epochs' = [e \in EpochIds |-> IF e \in S THEN None ELSE epochs[e]]
    /\ cells' = [e \in EpochIds |-> IF e \in S THEN {} ELSE cells[e]]
    /\ built' = v

\* What a mixed log still promises: no row of it is rewritten.
LogMixed ==
    /\ \A e \in EpochIds :
          epochs'[e] # epochs[e] => epochs[e] = None \/ epochs'[e] = None
    /\ \A e \in EpochIds :
          \A l \in cells[e], m \in cells'[e] : CellOf(l) = CellOf(m) => l = m

\* A mixed log is mended by erasing it: it starts again, empty.
LogRestart(v) ==
    /\ epochs' = [e \in EpochIds |-> None]
    /\ cells' = [e \in EpochIds |-> {}]
    /\ built' = v

LogNext ==
    \/ /\ ~mixed
       /\ ~mixed'
       /\ \/ \E e \in EpochIds : LogSeal(e)
          \/ \E S \in SUBSET EpochIds, v \in Versions : LogErase(S, v)
    \/ mixed /\ ~mixed' /\ \E v \in Versions : LogRestart(v)
    \/ mixed' /\ LogMixed

LogSpec == LogInit /\ [][LogNext]_logVars
=============================================================================
