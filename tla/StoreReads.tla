----------------------------- MODULE StoreReads -----------------------------
(***************************************************************************)
(* The reads of PostgresMobyDb that take more than one statement, beside   *)
(* the writers of EpochStore: get_provenance, four statements of one READ  *)
(* COMMITTED transaction, each with a snapshot of its own; and the tool    *)
(* render_viewport, two transactions.  A reader takes no lock and waits    *)
(* for nobody.                                                             *)
(*                                                                         *)
(* An attestation is written by a third party, outside this repository;    *)
(* its row names a cell and an epoch, and here also remembers the content  *)
(* the third party saw.                                                    *)
(***************************************************************************)
EXTENDS EpochStore

CONSTANTS
    Readers,     \* concurrent tool calls
    MaxAttested  \* bound: attestations stored at a time

VARIABLES
    attested,  \* rows of table attestations: an epoch and the leaf attested
    call,      \* call[r]: the next statement of a read, or its outcome
    got,       \* got[r]: what its statements have returned
    during     \* history: what the writers did to the store during the call

readVars == <<attested, call, got, during>>
allVars == <<vars, readVars>>

Outcomes == {"idle", "found", "cell_not_found", "epoch_missing", "no_proof",
             "rendered", "no_epoch"}

\* What the writers do: an epoch is erased, the store is built anew, or it holds
\* a mixture: "erased", "rebuilt", "mixed".
Now == IF mixed THEN {"mixed"} ELSE {}

\* What a call has gathered: the cell's epoch and leaf, the attestations of
\* both, the epoch's row, the content hashes; a region's latest epochs.
NoBundle == [at |-> 0, leaf |-> None, attestations |-> {}, row |-> None,
             hashes |-> {}, region |-> {}]

ReadsInit ==
    /\ Init
    /\ attested = {}
    /\ call = [r \in Readers |-> "idle"]
    /\ got = [r \in Readers |-> NoBundle]
    /\ during = [r \in Readers |-> {}]

-----------------------------------------------------------------------------
\* r's call has ended with this outcome, or goes on with this statement.
Proceed(r, next, bundle) ==
    /\ call' = [call EXCEPT ![r] = next]
    /\ got' = [got EXCEPT ![r] = bundle]
    /\ UNCHANGED <<vars, attested>>

\* The history starts over with the call.
Begin(r) ==
    /\ call[r] \in Outcomes
    /\ during' = [during EXCEPT ![r] = Now]

Continue(r, statement) ==
    /\ call[r] = statement
    /\ UNCHANGED during

\* get_provenance, 1: the cell, which ends the call if it is not there.
ReadCell(r, e, c) ==
    LET found == {l \in cells[e] : CellOf(l) = c}
    IN  /\ Begin(r)
        /\ \/ found = {} /\ Proceed(r, "cell_not_found", NoBundle)
           \/ \E l \in found :
                 Proceed(r, "attestations", [NoBundle EXCEPT !.at = e, !.leaf = l])

\* 2: the attestations of that cell and epoch.
ReadAttestations(r) ==
    LET rows == {a \in attested : a[1] = got[r].at
                                  /\ CellOf(a[2]) = CellOf(got[r].leaf)}
    IN  /\ Continue(r, "attestations")
        /\ Proceed(r, "epoch", [got[r] EXCEPT !.attestations = rows])

\* Mutant: the row of the latest epoch.
ReadLatestEpoch(r) ==
    /\ Continue(r, "epoch")
    /\ \/ Sealed = {} /\ Proceed(r, "epoch_missing", got[r])
       \/ \E e \in Sealed :
             /\ \A f \in Sealed : f <= e
             /\ Proceed(r, "hashes", [got[r] EXCEPT !.row = epochs[e]])

\* 3: the epoch row; fetch_one turns its absence into a Database error.
ReadEpoch(r) ==
    LET row == epochs[got[r].at]
    IN  /\ Continue(r, "epoch")
        /\ Proceed(r, IF row = None THEN "epoch_missing" ELSE "hashes",
                      [got[r] EXCEPT !.row = row])

\* 4: the content hashes of the epoch, in which proof_for and leaf_index
\* look up the cell.
ReadHashes(r) ==
    LET hashes == cells[got[r].at]
        present == CellOf(got[r].leaf) \in CellsOf(hashes)
    IN  /\ Continue(r, "hashes")
        /\ Proceed(r, IF present THEN "found" ELSE "no_proof",
                      [got[r] EXCEPT !.hashes = hashes])

\* render_viewport without an epoch, 1: of each cell the latest state; what
\* is kept of the answer is the set of epochs it shows.
ReadRegion(r) ==
    LET latest == {CHOOSE e \in EpochIds :
                      /\ c \in CellsOf(cells[e])
                      /\ \A f \in EpochIds : c \in CellsOf(cells[f]) => f <= e :
                   c \in UNION {CellsOf(cells[e]) : e \in EpochIds}}
    IN  /\ Begin(r)
        /\ Proceed(r, "latest", [NoBundle EXCEPT !.region = latest])

\* Mutant: no ORDER BY epoch DESC.
ReadSomeEpoch(r) ==
    /\ Continue(r, "latest")
    /\ \/ Sealed = {} /\ Proceed(r, "no_epoch", got[r])
       \/ \E e \in Sealed : Proceed(r, "rendered", [got[r] EXCEPT !.at = e])

\* 2, in another transaction: the latest epoch, which labels the answer.
ReadLatest(r) ==
    /\ Continue(r, "latest")
    /\ \/ Sealed = {} /\ Proceed(r, "no_epoch", got[r])
       \/ \E e \in Sealed :
             /\ \A f \in Sealed : f <= e
             /\ Proceed(r, "rendered", [got[r] EXCEPT !.at = e])

ReadStep(r) ==
    \/ \E e \in EpochIds, c \in Cells : ReadCell(r, e, c)
    \/ ReadAttestations(r) \/ ReadEpoch(r) \/ ReadHashes(r)
    \/ ReadRegion(r) \/ ReadLatest(r)

-----------------------------------------------------------------------------
\* A call that has returned leaves nothing in the server.
Ongoing(r) == call[r] \notin Outcomes

Forget ==
    /\ call' = [r \in Readers |-> IF Ongoing(r) THEN call[r] ELSE "idle"]
    /\ got' = [r \in Readers |-> IF Ongoing(r) THEN got[r] ELSE NoBundle]

\* A third party attests a stored cell (the foreign key wants it stored).
Attest(e, l) ==
    /\ l \in cells[e]
    /\ Cardinality(attested) < MaxAttested
    /\ attested' = attested \cup {<<e, l>>}
    /\ Forget
    /\ UNCHANGED <<vars, during>>

\* Mutant: no foreign key from attestations to cells.
NoCascade == attested' = attested

\* A step of a writer.  Deleting a cell deletes its attestations.
Cascade ==
    attested' = {a \in attested : CellOf(a[2]) \in CellsOf(cells'[a[1]])}

WriteStep ==
    /\ Next
    /\ Cascade
    /\ Forget
    /\ LET new == Now'
                  \cup {u \in {"erased"} : \E e \in Sealed : epochs'[e] = None}
                  \cup {u \in {"rebuilt"} : built' # built}
       IN  during' = [r \in Readers |->
                         IF Ongoing(r) THEN during[r] \cup new ELSE {}]

ReadsNext ==
    \/ WriteStep
    \/ \E r \in Readers : ReadStep(r)
    \/ \E e \in EpochIds, l \in Leaf : Attest(e, l)

ReadsSpec == ReadsInit /\ [][ReadsNext]_allVars

-----------------------------------------------------------------------------
(* Properties.                                                             *)

\* What an offline verifier does with the bundle: put the returned content
\* at leaf_index, hash along the proof, compare with the returned root.
Verifies(b) ==
    LET others == {l \in b.hashes : CellOf(l) # CellOf(b.leaf)}
    IN  b.row.root = MerkleRoot(b.at, others \cup {b.leaf})

\* A bundle verifies even when its four statements straddle an erasure and
\* the re-seeding of the same contents; only other contents can break it.
BundleVerifies ==
    \A r \in Readers :
        call[r] = "found" /\ during[r] \cap {"rebuilt", "mixed"} = {}
            => Verifies(got[r])

\* The attestations of a bundle were made of the content in the bundle,
\* unless the store was rebuilt between the statements.
AttestationsFit ==
    \A r \in Readers :
        call[r] = "found" /\ during[r] \cap {"rebuilt", "mixed"} = {} =>
            \A a \in got[r].attestations : a[2] = got[r].leaf

\* The server-error outcomes of get_provenance only come of an erasure
\* during the call: the foreign key makes fetch_one and proof_for safe.
ErrorsComeOfErasure ==
    \A r \in Readers :
        call[r] \in {"epoch_missing", "no_proof"} => "erased" \in during[r]

\* The epoch a viewport is labelled with is not older than any of its
\* cells, and exists when there are cells, unless an epoch was erased
\* between the two transactions.
LabelCoversRegion ==
    \A r \in Readers :
        /\ call[r] = "rendered" =>
              "erased" \in during[r] \/ \A e \in got[r].region : e <= got[r].at
        /\ call[r] = "no_epoch" => "erased" \in during[r] \/ got[r].region = {}

\* docs/INTEGRATION.md: every read comes with a Merkle proof that lets the
\* caller verify the record was part of a sealed epoch.  (Violated: a reseed
\* with refreshed contents between two statements of one call.)
EveryProofVerifies ==
    \A r \in Readers : call[r] = "found" /\ "mixed" \notin during[r] => Verifies(got[r])
=============================================================================
