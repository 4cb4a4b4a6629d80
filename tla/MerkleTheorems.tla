--------------------------- MODULE MerkleTheorems ---------------------------
(***************************************************************************)
(* Proofs about MerkleProof, for epochs of any number of cells.            *)
(*                                                                         *)
(* The three programs never share a layer: the server rebuilds the tree,   *)
(* and a client never sees it.  The proof goes through the history of the  *)
(* seeder's loop (tree): the server's loop is at one of its layers, and    *)
(* the client's hash is a node of one of its layers, on the same path,     *)
(* exactly if the client was given the stored content hash.                *)
(***************************************************************************)
EXTENDS MerkleProof, TLAPS

Up(list) == Paired(Padded(list))

\* The layers from the leaves up; all but the last have nodes to hash.
TreeInv ==
    /\ leaves.len \in Nat
    /\ tree.len \in Nat \ {0}
    /\ tree.at[0] = leaves
    /\ \A k \in 0 .. tree.len - 1 : tree.at[k].len \in Nat
    /\ \A k \in 0 .. tree.len - 2 :
          tree.at[k].len > 1 /\ tree.at[k + 1] = Up(tree.at[k])

SealInv ==
    /\ stage = "seal" =>
          /\ layer = tree.at[tree.len - 1]
          /\ proof.len = 0
          /\ step = 0
    /\ stage # "seal" =>
          /\ tree.at[tree.len - 1].len <= 1
          /\ leaves.len > 0 => root = tree.at[tree.len - 1].at[0]
    /\ target \in 0 .. leaves.len

\* The path of the target through the tree, and the siblings beside it.
ProveInv ==
    stage \in {"prove", "verify", "done"} =>
        /\ target < leaves.len
        /\ proof.len \in Nat
        /\ proof.len < tree.len
        /\ path.len = proof.len + 1
        /\ path.at[0] = target
        /\ \A k \in 0 .. proof.len : path.at[k] \in 0 .. tree.at[k].len - 1
        /\ \A k \in 0 .. proof.len - 1 :
              /\ path.at[k + 1] = path.at[k] \div 2
              /\ proof.at[k] = Padded(tree.at[k]).at[Sibling(path.at[k])]
        /\ stage = "prove" =>
              /\ layer = tree.at[proof.len]
              /\ idx = path.at[proof.len]
              /\ step = 0

\* The node of the target in layer k.
Node(k) == tree.at[k].at[path.at[k]]

VerifyInv ==
    stage \in {"verify", "done"} =>
        /\ proof.len = tree.len - 1
        /\ step \in 0 .. proof.len
        /\ stage = "done" => step = proof.len
        /\ idx = path.at[step]
        /\ current = Node(step) <=> claim = leaves.at[target]

IInv == TreeInv /\ SealInv /\ ProveInv /\ VerifyInv

-----------------------------------------------------------------------------
(* Lists and layers.                                                       *)

\* Push appends one element.
LEMMA PushFacts ==
    ASSUME NEW list, NEW x, list.len \in Nat
    PROVE  /\ Push(list, x).len = list.len + 1
           /\ \A i \in 0 .. list.len - 1 : Push(list, x).at[i] = list.at[i]
           /\ Push(list, x).at[list.len] = x
BY DEF Push

\* The padded layer is the layer, with an even length.
LEMMA PaddedFacts ==
    ASSUME NEW list, list.len \in Nat, list.len > 1
    PROVE  /\ Padded(list).len \in Nat
           /\ Padded(list).len % 2 = 0
           /\ Padded(list).len \in {list.len, list.len + 1}
           /\ \A i \in 0 .. list.len - 1 : Padded(list).at[i] = list.at[i]
<1>1. CASE list.len % 2 = 1
  BY <1>1, PushFacts DEF Padded
<1>2. CASE list.len % 2 # 1
  BY <1>2 DEF Padded
<1>. QED
  BY <1>1, <1>2

\* The step from a layer to the next: the parent of a node is the hash of
\* the node and its sibling, in the order of the node's parity.
LEMMA ParentNode ==
    ASSUME NEW list, list.len \in Nat, list.len > 1,
           NEW i \in 0 .. list.len - 1
    PROVE  /\ Sibling(i) \in 0 .. Padded(list).len - 1
           /\ Up(list).len \in Nat
           /\ i \div 2 \in 0 .. Up(list).len - 1
           /\ Up(list).at[i \div 2] =
                 Join(i, list.at[i], Padded(list).at[Sibling(i)])
<1>. DEFINE p == Padded(list)
<1>1. /\ p.len \in Nat /\ p.len % 2 = 0
      /\ p.len \in {list.len, list.len + 1}
      /\ p.at[i] = list.at[i]
  BY PaddedFacts
<1>2. /\ Up(list).len = p.len \div 2
      /\ \A j \in 0 .. p.len \div 2 - 1 :
            Up(list).at[j] = Hash(p.at[2 * j], p.at[2 * j + 1])
  BY DEF Up, Paired
<1>. HIDE DEF p
<1>3. i \div 2 \in 0 .. p.len \div 2 - 1 /\ p.len \div 2 \in Nat
  BY <1>1
<1>4. CASE i % 2 = 0
  <2>1. 2 * (i \div 2) = i /\ i + 1 \in 0 .. p.len - 1
    BY <1>1, <1>4
  <2>2. Up(list).at[i \div 2] = Hash(p.at[i], p.at[i + 1])
    BY <1>2, <1>3, <2>1
  <2>. QED
    BY <1>1, <1>2, <1>3, <1>4, <2>1, <2>2 DEF Join, Sibling, p
<1>5. CASE i % 2 # 0
  <2>1. 2 * (i \div 2) = i - 1 /\ i - 1 \in 0 .. p.len - 1
    BY <1>1, <1>5
  <2>2. Up(list).at[i \div 2] = Hash(p.at[i - 1], p.at[i])
    BY <1>2, <1>3, <2>1
  <2>. QED
    BY <1>1, <1>2, <1>3, <1>5, <2>1, <2>2 DEF Join, Sibling, p
<1>. QED
  BY <1>4, <1>5

\* Only the same node gives the same hash beside the same sibling.
LEMMA JoinInjective ==
    ASSUME NEW i, NEW a, NEW b, NEW sibling
    PROVE  Join(i, a, sibling) = Join(i, b, sibling) <=> a = b
BY DEF Join, Hash

-----------------------------------------------------------------------------
(* The invariant.                                                          *)

\* The invariant holds before the first layer.
LEMMA InvInit == Init => IInv
<1>. SUFFICES ASSUME Init PROVE IInv
  OBVIOUS
<1>1. leaves.len \in Nat
  BY ListsAssumption DEF Init
<1>2. tree.len = 1 /\ tree.at[0] = leaves
  BY PushFacts DEF Init, Empty
<1>3. proof.len = 0
  BY DEF Init, Empty
<1>. QED
  BY <1>1, <1>2, <1>3 DEF Init, IInv, TreeInv, SealInv, ProveInv, VerifyInv

\* A turn of the loop of merkle_root keeps the invariant: the tree grows by a layer.
LEMMA SealLayerStep == IInv /\ SealLayer => IInv'
<1>. SUFFICES ASSUME IInv, SealLayer PROVE IInv'
  OBVIOUS
<1>1. /\ stage = "seal" /\ stage' = "seal"
      /\ layer.len > 1
      /\ layer' = Up(layer)
      /\ tree' = Push(tree, Up(layer))
      /\ UNCHANGED <<leaves, target, proof, step>>
  BY DEF SealLayer, Up
<1>2. tree.len \in Nat \ {0} /\ layer = tree.at[tree.len - 1]
  BY <1>1 DEF IInv, TreeInv, SealInv
<1>3. layer.len \in Nat
  BY <1>2 DEF IInv, TreeInv
<1>4. Up(layer).len \in Nat
  BY <1>1, <1>3, ParentNode
<1>5. /\ tree'.len = tree.len + 1
      /\ \A k \in 0 .. tree.len - 1 : tree'.at[k] = tree.at[k]
      /\ tree'.at[tree.len] = Up(layer)
  BY <1>1, <1>2, PushFacts
<1>6. TreeInv'
  <2>1. \A k \in 0 .. tree'.len - 1 : tree'.at[k].len \in Nat
    BY <1>2, <1>4, <1>5 DEF IInv, TreeInv
  <2>2. ASSUME NEW k \in 0 .. tree'.len - 2
        PROVE  tree'.at[k].len > 1 /\ tree'.at[k + 1] = Up(tree'.at[k])
    <3>1. CASE k = tree.len - 1
      BY <1>1, <1>2, <1>5, <3>1
    <3>2. CASE k # tree.len - 1
      <4>1. k \in 0 .. tree.len - 2 /\ k + 1 \in 0 .. tree.len - 1
        BY <1>2, <1>5, <3>2
      <4>. QED
        BY <1>5, <4>1 DEF IInv, TreeInv
    <3>. QED
      BY <3>1, <3>2
  <2>. QED
    BY <1>1, <1>2, <1>5, <2>1, <2>2 DEF IInv, TreeInv
<1>7. SealInv'
  BY <1>1, <1>2, <1>5 DEF IInv, SealInv
<1>. QED
  BY <1>1, <1>6, <1>7 DEF IInv, ProveInv, VerifyInv

\* The root is the only node of the last layer.
LEMMA SealRootStep == IInv /\ SealRoot => IInv'
<1>. SUFFICES ASSUME IInv, SealRoot PROVE IInv'
  OBVIOUS
<1>1. /\ stage = "seal"
      /\ stage' \in {"prove", "error"}
      /\ stage' = "prove" => target < leaves.len
      /\ layer.len <= 1
      /\ layer' = leaves
      /\ idx' = target
      /\ path' = Push(Empty, target)
      /\ root' = IF layer.len = 0 THEN Zero ELSE layer.at[0]
      /\ UNCHANGED <<leaves, target, proof, step, tree>>
  BY DEF SealRoot
<1>2. /\ tree.len \in Nat \ {0}
      /\ layer = tree.at[tree.len - 1]
      /\ layer.len \in Nat
      /\ leaves.len \in Nat
      /\ target \in 0 .. leaves.len
      /\ proof.len = 0
      /\ step = 0
      /\ tree.at[0] = leaves
  BY <1>1 DEF IInv, TreeInv, SealInv
<1>3. TreeInv'
  BY <1>1 DEF IInv, TreeInv
\* The top layer is empty only if there are no cells at all.
<1>4. leaves.len > 0 => layer.len # 0
  <2>1. CASE tree.len = 1
    BY <1>2, <2>1
  <2>2. CASE tree.len # 1
    <3>1. tree.len - 2 \in 0 .. tree.len - 2
      BY <1>2, <2>2
    <3>2. /\ tree.at[tree.len - 2].len \in Nat
          /\ tree.at[tree.len - 2].len > 1
          /\ layer = Up(tree.at[tree.len - 2])
      BY <1>2, <3>1 DEF IInv, TreeInv
    <3>3. 0 \in 0 .. tree.at[tree.len - 2].len - 1
      BY <3>2
    <3>4. 0 \div 2 \in 0 .. layer.len - 1
      BY <3>2, <3>3, ParentNode
    <3>. QED
      BY <1>2, <3>4
  <2>. QED
    BY <2>1, <2>2
<1>5. SealInv'
  BY <1>1, <1>2, <1>4 DEF IInv, SealInv
<1>6. ProveInv'
  <2>1. path'.len = 1 /\ path'.at[0] = target
    BY <1>1, PushFacts DEF Empty
  <2>. QED
    BY <1>1, <1>2, <2>1 DEF ProveInv
<1>7. VerifyInv'
  BY <1>1 DEF VerifyInv
<1>. QED
  BY <1>3, <1>5, <1>6, <1>7 DEF IInv

\* A turn of the loop of proof_for keeps it: the path goes on to the parent.
LEMMA ProveLayerStep == IInv /\ ProveLayer => IInv'
<1>. SUFFICES ASSUME IInv, ProveLayer PROVE IInv'
  OBVIOUS
<1>. DEFINE h == proof.len
<1>1. /\ stage = "prove" /\ stage' = "prove"
      /\ layer.len > 1
      /\ layer' = Up(layer)
      /\ proof' = Push(proof, Padded(layer).at[Sibling(idx)])
      /\ idx' = idx \div 2
      /\ path' = Push(path, idx \div 2)
      /\ UNCHANGED <<leaves, target, root, step, tree>>
  BY DEF ProveLayer, Up
<1>2. /\ h \in Nat /\ h < tree.len /\ tree.len \in Nat
      /\ path.len = h + 1
      /\ layer = tree.at[h]
      /\ idx = path.at[h]
      /\ idx \in 0 .. layer.len - 1
      /\ layer.len \in Nat
  BY <1>1 DEF IInv, TreeInv, ProveInv
\* There is a next layer: the last one has no two nodes.
<1>3. h < tree.len - 1 /\ tree.at[h + 1] = Up(layer)
  <2>1. h # tree.len - 1
    BY <1>1, <1>2 DEF IInv, SealInv
  <2>. QED
    BY <1>2, <2>1 DEF IInv, TreeInv
<1>4. idx \div 2 \in 0 .. tree.at[h + 1].len - 1
  BY <1>1, <1>2, <1>3, ParentNode
<1>5. /\ proof'.len = h + 1
      /\ \A k \in 0 .. h - 1 : proof'.at[k] = proof.at[k]
      /\ proof'.at[h] = Padded(layer).at[Sibling(idx)]
  <2>. DEFINE sibling == Padded(layer).at[Sibling(idx)]
  <2>1. proof' = Push(proof, sibling)
    BY <1>1
  <2>. HIDE DEF sibling
  <2>2. /\ proof'.len = h + 1
        /\ \A k \in 0 .. h - 1 : proof'.at[k] = proof.at[k]
        /\ proof'.at[h] = sibling
    BY <1>2, <2>1, PushFacts
  <2>. QED
    BY <2>2 DEF sibling
<1>6. /\ path'.len = h + 2
      /\ \A k \in 0 .. h : path'.at[k] = path.at[k]
      /\ path'.at[h + 1] = idx \div 2
  BY <1>1, <1>2, PushFacts
<1>7. TreeInv' /\ SealInv'
  BY <1>1 DEF IInv, TreeInv, SealInv
<1>8. ProveInv'
  <2>1. \A k \in 0 .. h + 1 : path'.at[k] \in 0 .. tree.at[k].len - 1
    BY <1>1, <1>2, <1>4, <1>6 DEF IInv, ProveInv
  <2>2. ASSUME NEW k \in 0 .. h
        PROVE  /\ path'.at[k + 1] = path'.at[k] \div 2
               /\ proof'.at[k] = Padded(tree.at[k]).at[Sibling(path'.at[k])]
    <3>1. CASE k = h
      BY <1>2, <1>5, <1>6, <3>1
    <3>2. CASE k # h
      <4>1. k \in 0 .. h - 1 /\ k + 1 \in 0 .. h
        BY <1>2, <3>2
      <4>. QED
        BY <1>1, <1>5, <1>6, <4>1 DEF IInv, ProveInv
    <3>. QED
      BY <3>1, <3>2
  <2>3. path'.at[0] = target /\ target < leaves.len /\ step = 0
    BY <1>1, <1>2, <1>6 DEF IInv, ProveInv
  <2>4. proof'.len \in Nat /\ proof'.len < tree.len
    BY <1>2, <1>3, <1>5
  <2>5. layer' = tree.at[proof'.len] /\ idx' = path'.at[proof'.len]
    BY <1>1, <1>3, <1>5, <1>6
  <2>. HIDE DEF h
  <2>6. \A k \in 0 .. proof'.len - 1 : k \in 0 .. h
    BY <1>2, <1>5
  <2>7. proof'.len = h + 1 /\ path'.len = proof'.len + 1
    BY <1>2, <1>5, <1>6
  <2>. QED
    BY <1>1, <2>1, <2>2, <2>3, <2>4, <2>5, <2>6, <2>7 DEF ProveInv
<1>9. VerifyInv'
  BY <1>1 DEF VerifyInv
<1>. QED
  BY <1>7, <1>8, <1>9 DEF IInv

\* The verifier starts at the leaf of the path.
LEMMA BeginVerifyStep == IInv /\ BeginVerify => IInv'
<1>. SUFFICES ASSUME IInv, BeginVerify PROVE IInv'
  OBVIOUS
<1>1. /\ stage = "prove" /\ stage' = "verify"
      /\ layer.len <= 1
      /\ idx' = target
      /\ current' = claim'
      /\ UNCHANGED <<leaves, target, layer, root, proof, step, tree, path>>
  BY DEF BeginVerify
<1>2. /\ proof.len \in Nat /\ proof.len < tree.len /\ tree.len \in Nat
      /\ layer = tree.at[proof.len]
      /\ path.at[0] = target
      /\ tree.at[0] = leaves
      /\ step = 0
  BY <1>1 DEF IInv, TreeInv, ProveInv
\* The server's loop went through as many layers as the seeder's.
<1>3. proof.len = tree.len - 1
  <2>1. \A k \in 0 .. tree.len - 2 : tree.at[k].len > 1
    BY DEF IInv, TreeInv
  <2>2. ~(layer.len > 1)
    <3>1. layer.len \in Nat
      BY <1>2 DEF IInv, TreeInv
    <3>. QED
      BY <1>1, <3>1
  <2>3. proof.len \notin 0 .. tree.len - 2
    BY <1>2, <2>1, <2>2
  <2>. QED
    BY <1>2, <2>3
<1>4. TreeInv' /\ SealInv'
  BY <1>1 DEF IInv, TreeInv, SealInv
<1>5. ProveInv'
  BY <1>1 DEF IInv, ProveInv
<1>6. VerifyInv'
  BY <1>1, <1>2, <1>3 DEF VerifyInv, Node
<1>. QED
  BY <1>4, <1>5, <1>6 DEF IInv

\* A turn of the loop of verify_proof keeps it: same parent, or a different hash.
LEMMA VerifySiblingStep == IInv /\ VerifySibling => IInv'
<1>. SUFFICES ASSUME IInv, VerifySibling PROVE IInv'
  OBVIOUS
<1>1. /\ stage = "verify" /\ stage' = "verify"
      /\ step < proof.len
      /\ current' = Join(idx, current, proof.at[step])
      /\ idx' = idx \div 2
      /\ step' = step + 1
      /\ UNCHANGED <<leaves, target, layer, root, proof, claim, tree, path>>
  BY DEF VerifySibling
<1>2. /\ proof.len \in Nat
      /\ proof.len = tree.len - 1
      /\ step \in 0 .. proof.len - 1
      /\ idx = path.at[step]
      /\ path.at[step + 1] = idx \div 2
      /\ idx \in 0 .. tree.at[step].len - 1
      /\ proof.at[step] = Padded(tree.at[step]).at[Sibling(idx)]
      /\ current = Node(step) <=> claim = leaves.at[target]
  BY <1>1 DEF IInv, ProveInv, VerifyInv
<1>3. /\ tree.at[step].len \in Nat
      /\ tree.at[step].len > 1
      /\ tree.at[step + 1] = Up(tree.at[step])
  BY <1>2 DEF IInv, TreeInv
<1>4. Node(step + 1) = Join(idx, Node(step), proof.at[step])
  BY <1>2, <1>3, ParentNode DEF Node
<1>5. current' = Node(step + 1) <=> claim = leaves.at[target]
  BY <1>1, <1>2, <1>4, JoinInjective
<1>6. TreeInv' /\ SealInv'
  BY <1>1 DEF IInv, TreeInv, SealInv
<1>7. ProveInv'
  BY <1>1 DEF IInv, ProveInv
<1>8. VerifyInv'
  <2>1. Node(step)' = Node(step + 1)
    BY <1>1 DEF Node
  <2>2. step' \in 0 .. proof.len /\ idx' = path.at[step']
    BY <1>1, <1>2
  <2>. QED
    BY <1>1, <1>2, <1>5, <2>1, <2>2 DEF VerifyInv
<1>. QED
  BY <1>6, <1>7, <1>8 DEF IInv

\* Every step preserves the inductive invariant.
LEMMA InvNext == IInv /\ [Next]_vars => IInv'
<1>. SUFFICES ASSUME IInv, [Next]_vars PROVE IInv'
  OBVIOUS
<1>1. CASE VerifyRoot
  BY <1>1 DEF VerifyRoot, IInv, TreeInv, SealInv, ProveInv, VerifyInv, Node
<1>2. CASE UNCHANGED vars
  BY <1>2 DEF vars, IInv, TreeInv, SealInv, ProveInv, VerifyInv, Node
<1>. QED
  BY <1>1, <1>2, SealLayerStep, SealRootStep, ProveLayerStep, BeginVerifyStep,
     VerifySiblingStep DEF Next

\* The inductive invariant: the three programs go through the same layers.
THEOREM Invariance == Spec => []IInv
BY InvInit, InvNext, PTL DEF Spec

-----------------------------------------------------------------------------
(* The properties.                                                         *)

\* A bundle verifies exactly with the content hash that is stored, for any
\* number of cells and any of them.
THEOREM VerificationIsExact == Spec => []AcceptsExactlyTheRecord
<1>1. IInv => AcceptsExactlyTheRecord
  <2>. SUFFICES ASSUME IInv, stage = "done"
                PROVE  current = root <=> claim = leaves.at[target]
    BY DEF AcceptsExactlyTheRecord, Accepted
  <2>1. /\ target \in 0 .. leaves.len /\ target < leaves.len
        /\ leaves.len \in Nat
        /\ proof.len = tree.len - 1
        /\ proof.len \in Nat
        /\ step = proof.len
        /\ current = Node(step) <=> claim = leaves.at[target]
        /\ path.at[step] \in 0 .. tree.at[step].len - 1
    BY DEF IInv, TreeInv, SealInv, ProveInv, VerifyInv
  <2>2. /\ tree.at[step].len \in Nat
        /\ tree.at[step].len <= 1
        /\ root = tree.at[step].at[0]
    BY <2>1 DEF IInv, TreeInv, SealInv
  <2>3. path.at[step] = 0
    BY <2>1, <2>2
  <2>. QED
    BY <2>1, <2>2, <2>3 DEF Node
<1>. QED
  BY <1>1, Invariance, PTL

\* proof_for never indexes outside a layer.
THEOREM NoIndexPanics == Spec => []IndexesInBounds
<1>1. IInv => IndexesInBounds
  <2>. SUFFICES ASSUME IInv, stage = "prove"
                PROVE  /\ idx \in 0 .. layer.len - 1
                       /\ layer.len > 1 =>
                             Sibling(idx) \in 0 .. Padded(layer).len - 1
    BY DEF IndexesInBounds
  <2>1. layer.len \in Nat /\ idx \in 0 .. layer.len - 1
    BY DEF IInv, TreeInv, ProveInv
  <2>. QED
    BY <2>1, ParentNode
<1>. QED
  BY <1>1, Invariance, PTL
=============================================================================
