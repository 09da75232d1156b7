------------------------------- MODULE Merkle -------------------------------
(***************************************************************************)
(* Merkle/merkle.go: the tree both ends build over the leaves of the       *)
(* confirmed chunks.                                                       *)
(*                                                                         *)
(* Keccak-256 is taken to be collision free, so a digest may be any        *)
(* injective image of what was hashed.  Every layer of BuildTree is made   *)
(* of perfect trees of one height; such a tree is determined by the        *)
(* sequence of leaves below it, so that sequence stands for its digest: a  *)
(* leaf l is <<l>> and the parent of two digests is their concatenation.   *)
(***************************************************************************)
EXTENDS Naturals, Sequences

KeccakPair(left, right) == left \o right

\* Seeded faults: a node without a partner is left out, or is given the first
\* node of its layer.
NextLayerFault_LeftOut(current) ==
  [i \in 1 .. IF Len(current) = 1 THEN 1 ELSE Len(current) \div 2 |->
     KeccakPair(current[2 * i - 1], current[2 * i])]

NextLayerFault_FirstAgain(current) ==
  [i \in 1 .. (Len(current) + 1) \div 2 |->
     KeccakPair(current[2 * i - 1],
                current[IF 2 * i <= Len(current) THEN 2 * i ELSE 1])]

\* One round of BuildTree's outer loop: pair the nodes off from the left, a
\* last node without a partner being its own.
NextLayer(current) ==
  [i \in 1 .. (Len(current) + 1) \div 2 |->
     LET left  == current[2 * i - 1]
         right == IF 2 * i <= Len(current) THEN current[2 * i] ELSE left
     IN  KeccakPair(left, right)]

\* The layers from the leaves up, one for every round of the loop.
Layers(leaves) ==
  LET layer[k \in Nat] ==
        IF k = 0 THEN [i \in DOMAIN leaves |-> <<leaves[i]>>]
                 ELSE NextLayer(layer[k - 1])
  IN  layer

\* The first layer of one node is the last.
BuildTree(leaves) ==
  IF leaves = <<>>
  THEN <<>>
  ELSE LET layer == Layers(leaves)
           height == CHOOSE h \in 0 .. Len(leaves) :
                       /\ Len(layer[h]) = 1
                       /\ \A k \in 0 .. h - 1 : Len(layer[k]) > 1
       IN  [k \in 1 .. height + 1 |-> layer[k - 1]]

\* nil for no tree, which is the empty sequence here.
Root_of_tree(tree) == IF tree = <<>> THEN <<>> ELSE tree[Len(tree)][1]

MerkleRoot(leaves) == Root_of_tree(BuildTree(leaves))
=============================================================================
