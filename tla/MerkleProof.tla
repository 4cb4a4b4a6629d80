---------------------------- MODULE MerkleProof ----------------------------
(***************************************************************************)
(* The Merkle tree of one epoch, level by level, in the three programs     *)
(* that must agree on it:                                                  *)
(*   - merkle_root of the seeder, which stores the root;                   *)
(*   - proof_for of the server, which rebuilds the levels from the stored  *)
(*     hashes and picks the siblings of one cell;                          *)
(*   - verify_proof, and reconstructRoot of the TypeScript and browser     *)
(*     clients, which fold a claimed content hash with the siblings.       *)
(*                                                                         *)
(* A hash of two nodes is their pair: BLAKE3 is taken collision free.  A   *)
(* list is a record of its length and its elements, counted from 0 as the  *)
(* programs do.                                                            *)
(***************************************************************************)
EXTENDS Integers

CONSTANTS
    Lists,   \* content-hash columns an epoch can have, in h3_cell order
    Claims,  \* content hashes somebody may claim for a cell
    Zero     \* [0u8; 32], the root of an epoch without cells

VARIABLES
    leaves,   \* the content hashes of the epoch
    target,   \* rank of the requested cell; leaves.len if it is not there
    stage,    \* the program that runs: sealing, proving, verifying
    layer,    \* `layer` of the first two
    idx,      \* `idx` of the last two
    root,     \* merkle_root of the epoch row
    proof,    \* the sibling hashes, leaf to root
    claim,    \* the content hash the verifier is given
    current,  \* `current` of verify_proof
    step,     \* siblings it has folded
    tree,     \* history: the layers merkle_root went through
    path      \* history: the values of idx in proof_for

vars == <<leaves, target, stage, layer, idx, root, proof, claim, current, step,
          tree, path>>

Stages == {"seal", "prove", "verify", "done", "error"}

Empty == [len |-> 0, at |-> [i \in {} |-> Zero]]
Push(list, x) ==
    [len |-> list.len + 1,
     at |-> [i \in 0 .. list.len |-> IF i < list.len THEN list.at[i] ELSE x]]

ASSUME ListsAssumption ==
    /\ \A list \in Lists : list.len \in Nat

-----------------------------------------------------------------------------
Hash(left, right) == <<left, right>>

\* An odd layer is padded with a copy of its last node.
Padded(list) ==
    IF list.len % 2 = 1 THEN Push(list, list.at[list.len - 1]) ELSE list

\* chunks(2), hashed.
Paired(list) ==
    [len |-> list.len \div 2,
     at |-> [i \in 0 .. list.len \div 2 - 1 |->
                Hash(list.at[2 * i], list.at[2 * i + 1])]]

Sibling(i) == IF i % 2 = 0 THEN i + 1 ELSE i - 1

\* Mutant: the node is always taken for the left one.
JoinLeft(i, node, sibling) == Hash(node, sibling)

Join(i, node, sibling) ==
    IF i % 2 = 0 THEN Hash(node, sibling) ELSE Hash(sibling, node)

-----------------------------------------------------------------------------
Init ==
    /\ leaves \in Lists
    /\ target \in 0 .. leaves.len
    /\ stage = "seal"
    /\ layer = leaves
    /\ idx = 0
    /\ root = Zero
    /\ proof = Empty
    /\ claim = Zero
    /\ current = Zero
    /\ step = 0
    /\ tree = Push(Empty, leaves)
    /\ path = Empty

\* merkle_root: one turn of its loop, and its result.
SealLayer ==
    /\ stage = "seal"
    /\ layer.len > 1
    /\ layer' = Paired(Padded(layer))
    /\ tree' = Push(tree, layer')
    /\ UNCHANGED <<leaves, target, stage, idx, root, proof, claim, current, step, path>>

SealRoot ==
    /\ stage = "seal"
    /\ layer.len <= 1
    /\ root' = IF layer.len = 0 THEN Zero ELSE layer.at[0]
    /\ stage' = IF target < leaves.len THEN "prove" ELSE "error"
    /\ layer' = leaves
    /\ idx' = target
    /\ path' = Push(Empty, target)
    /\ UNCHANGED <<leaves, target, proof, claim, current, step, tree>>

\* Mutant: the index is halved after the last layer only.
ProveLayerLate ==
    LET padded == Padded(layer)
    IN  /\ stage = "prove"
        /\ layer.len > 1
        /\ proof' = Push(proof, padded.at[Sibling(idx)])
        /\ layer' = Paired(padded)
        /\ idx' = IF layer'.len > 1 THEN idx ELSE idx \div 2
        /\ path' = Push(path, idx')
        /\ UNCHANGED <<leaves, target, stage, root, claim, current, step, tree>>

\* proof_for: one turn of its loop.
ProveLayer ==
    LET padded == Padded(layer)
    IN  /\ stage = "prove"
        /\ layer.len > 1
        /\ proof' = Push(proof, padded.at[Sibling(idx)])
        /\ layer' = Paired(padded)
        /\ idx' = idx \div 2
        /\ path' = Push(path, idx')
        /\ UNCHANGED <<leaves, target, stage, root, claim, current, step, tree>>

\* The bundle is verified: with its own content hash, or with one that
\* somebody put in its place.
BeginVerify ==
    /\ stage = "prove"
    /\ layer.len <= 1
    /\ stage' = "verify"
    /\ idx' = target
    /\ claim' \in Claims \cup {leaves.at[target]}
    /\ current' = claim'
    /\ UNCHANGED <<leaves, target, layer, root, proof, step, tree, path>>

\* verify_proof: one turn of its loop.
VerifySibling ==
    /\ stage = "verify"
    /\ step < proof.len
    /\ current' = Join(idx, current, proof.at[step])
    /\ idx' = idx \div 2
    /\ step' = step + 1
    /\ UNCHANGED <<leaves, target, stage, layer, root, proof, claim, tree, path>>

VerifyRoot ==
    /\ stage = "verify"
    /\ step = proof.len
    /\ stage' = "done"
    /\ UNCHANGED <<leaves, target, layer, idx, root, proof, claim, current, step,
                   tree, path>>

Accepted == current = root

Next ==
    \/ SealLayer \/ SealRoot
    \/ ProveLayer \/ BeginVerify
    \/ VerifySibling \/ VerifyRoot

Spec == Init /\ [][Next]_vars

-----------------------------------------------------------------------------
(* Properties.                                                             *)

\* merkle.rs, integration test: the proof of a stored cell leads to the
\* stored root, whatever the number of cells; and a content hash that is not
\* the stored one never does.
AcceptsExactlyTheRecord ==
    stage = "done" => (Accepted <=> claim = leaves.at[target])

\* No indexing of proof_for panics: the cell's node is in the layer, and its
\* sibling in the padded layer, at every level.
IndexesInBounds ==
    stage = "prove" =>
        /\ idx \in 0 .. layer.len - 1
        /\ layer.len > 1 => Sibling(idx) \in 0 .. Padded(layer).len - 1
=============================================================================
