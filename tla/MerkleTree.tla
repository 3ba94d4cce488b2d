----------------------------- MODULE MerkleTree -----------------------------
(***************************************************************************)
(* computeMerkleRoot of services/receipts.ts, the root that flushBatch     *)
(* stores and the L1 anchors.  SHA-512 is symbolic: the hash of a receipt  *)
(* id or of two nodes is a term, and different terms are different hashes. *)
(* Two batches are chosen once; the properties compare them.               *)
(***************************************************************************)
EXTENDS Integers, SequencesExt

CONSTANT MaxLeaves   \* bound: the longest batch that is compared

ASSUME MaxLeavesIsNat == MaxLeaves \in Nat

\* Receipts are named by their place in the first batch.
ReceiptIds == 1..MaxLeaves

VARIABLES batch1, batch2
merkle == <<batch1, batch2>>

\* sha512Hex of a receipt id, and of the concatenation of two hashes.
Leaf(id) == <<id>>
Node(left, right) == <<left, right>>

\* Mutants of NextLevel: an odd node is dropped, or paired with itself.
OddDropped(level) ==
    [i \in 1..(Len(level) \div 2) |-> Node(level[2 * i - 1], level[2 * i])]
OddDoubled(level) ==
    LET n == Len(level)
    IN  [i \in 1..((n + 1) \div 2) |->
            IF 2 * i <= n THEN Node(level[2 * i - 1], level[2 * i])
            ELSE Node(level[n], level[n])]

\* One turn of the while loop: the nodes in pairs, an odd one promoted.
NextLevel(level) ==
    LET n == Len(level)
    IN  [i \in 1..((n + 1) \div 2) |->
            IF 2 * i <= n THEN Node(level[2 * i - 1], level[2 * i]) ELSE level[n]]

\* The while loop takes another turn as long as there are several nodes.
Turn(level) == IF Len(level) > 1 THEN NextLevel(level) ELSE level

Leaves(ids) == [i \in 1..Len(ids) |-> Leaf(ids[i])]

\* The level after each number of turns.
Levels(ids) ==
    LET level[turns \in Nat] ==
            IF turns = 0 THEN Leaves(ids) ELSE Turn(level[turns - 1])
    IN  level

\* computeMerkleRoot on the leaves of a batch, which is never empty; no level takes
\* more turns than there are leaves.
MerkleRoot(ids) == Levels(ids)[Len(ids)][1]

-----------------------------------------------------------------------------
\* A batch holds each receipt id at most once.
BatchesOf == {s \in UNION {[1..n -> ReceiptIds] : n \in 1..MaxLeaves} : IsInjective(s)}

MerkleInit ==
    /\ batch1 \in {[i \in 1..n |-> i] : n \in 1..MaxLeaves}
    /\ batch2 \in BatchesOf

-----------------------------------------------------------------------------
(* Properties *)

\* The anchored root commits to the batch: two different batches, of whatever
\* lengths and orders, never have the same root.
RootBindsBatch == MerkleRoot(batch1) = MerkleRoot(batch2) => batch1 = batch2
=============================================================================
