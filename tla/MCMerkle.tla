------------------------------ MODULE MCMerkle ------------------------------
(***************************************************************************)
(* The two ends of a transfer each confirm chunk after chunk, and at any   *)
(* time could compare the roots over their leaves.  The leaves of the two  *)
(* ends are arbitrary here: the roots have to tell them apart.             *)
(***************************************************************************)
EXTENDS Merkle

CONSTANTS LeafValues, MaxLeaves

VARIABLES sent, received  \* Session.Leaves at the two ends

leavesVars == <<sent, received>>

LeavesInit == sent = <<>> /\ received = <<>>

\* Both ends confirm a chunk.
Confirm ==
  /\ Len(sent) < MaxLeaves
  /\ \E l, k \in LeafValues : sent' = Append(sent, l) /\ received' = Append(received, k)

Full == Len(sent) = MaxLeaves /\ UNCHANGED leavesVars

LeavesNext == Confirm \/ Full

LeavesSpec == LeavesInit /\ [][LeavesNext]_leavesVars

(***************************************************************************)
(* The reference: the leaf list filled up to a power of two from the       *)
(* right, blocks of 1, 2, 4, ... leaves in turn: when there is an odd      *)
(* number of blocks, and more than one, the last is repeated.              *)
(***************************************************************************)
Fill(leaves) ==
  LET fill[k \in Nat] ==
        IF k = 0 THEN [list |-> leaves, block |-> 1]
        ELSE LET f == fill[k - 1]
                 blocks == Len(f.list) \div f.block
             IN  [list  |-> IF blocks > 1 /\ blocks % 2 = 1
                            THEN f.list \o SubSeq(f.list, Len(f.list) - f.block + 1,
                                                  Len(f.list))
                            ELSE f.list,
                  block |-> 2 * f.block]
  IN  fill

FilledUp(leaves) == Fill(leaves)[Len(leaves)].list

\* BuildTree's layers are those of the perfect tree over the filled-up list.
RootOfFilledUp == MerkleRoot(sent) = FilledUp(sent)

\* An odd node is paired with itself, so that lists of different lengths can
\* have the same root; but lists of the same length, as both ends of a transfer
\* have, never do unless they are the same list: stepReceiverVerifyMerkle
\* accepts no chunk that differs, goes missing or is out of order.
RootBindsLeaves == MerkleRoot(sent) = MerkleRoot(received) => sent = received
=============================================================================
