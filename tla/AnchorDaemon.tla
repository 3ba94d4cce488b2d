---------------------------- MODULE AnchorDaemon ----------------------------
(***************************************************************************)
(* fth-guardian, daemons/anchor.ts: every minute a cycle asks the          *)
(* facilitator for receipts that no anchor has, submits one root for them  *)
(* to the chain, tells the facilitator, and keeps the batch in a list; a   *)
(* second timer asks for the height of the chain and marks batches deep    *)
(* enough.  The next cycle does not wait for this one.                     *)
(*                                                                         *)
(* Data abstraction.  A root is the set of receipts it is made of.         *)
(***************************************************************************)
EXTENDS Integers, Sequences, FiniteSets, SequencesExt

CONSTANTS
    Receipts,    \* bound: the receipts there are
    Rooters,     \* bound: cycles of anchorPending at one time
    FinalDepth,  \* FINALITY_DEPTH
    KeptBatches, \* bound: "last 1000 batches"
    MaxBlocks,   \* bound: the height of the chain
    MaxRoots     \* bound: submissions that the chain takes
ASSUME AnchorConstants ==
    /\ FinalDepth \in Nat /\ KeptBatches \in Nat \ {0} /\ MaxBlocks \in Nat /\ MaxRoots \in Nat
    /\ IsFiniteSet(Receipts)

Unset == 0     \* an answer without block_height; no answer for the height

VARIABLES
    tip,        \* external: the height of the chain
    roots,      \* external: the roots on the chain, with their heights
    told,       \* external: the receipts the facilitator takes for anchored
    rooter,     \* anchorPending
    checked,    \* checkFinality: the height it was answered, Unset between checks
    kept,       \* this.batches
    total,      \* this.totalAnchored
    final       \* history: the batches that were ever finalized
anchorVars == <<tip, roots, told, rooter, checked, kept, total, final>>

NoBatch == [receipts |-> {}, block |-> Unset, status |-> "pending"]
OffDuty == [at |-> "idle", batch |-> NoBatch]
AnchorInit ==
    /\ tip = 1 /\ roots = <<>> /\ told = {}
    /\ rooter = [k \in Rooters |-> OffDuty]
    /\ checked = Unset
    /\ kept = <<>> /\ total = 0 /\ final = {}

-----------------------------------------------------------------------------
(* anchorPending *)

Goes(k, at, b) == rooter' = [rooter EXCEPT ![k] = [at |-> at, batch |-> b]]

\* GET /l1/pending-anchors: the receipts there are by now and that have no anchor; no
\* cycle goes on without one.
AskPending(k) ==
    /\ rooter[k].at = "idle"
    /\ \E pending \in SUBSET (Receipts \ told) \ {{}} :
          Goes(k, "submit", [NoBatch EXCEPT !.receipts = pending])
    /\ UNCHANGED <<tip, roots, told, checked, kept, total, final>>

\* The chain takes the root, and names the transaction and its block, or not the
\* block; or the answer is lost, and with it the batch.
RootTaken(k) ==
    /\ rooter[k].at = "submit"
    /\ Len(roots) < MaxRoots
    /\ LET b == rooter[k].batch IN
       /\ roots' = Append(roots, [receipts |-> b.receipts, block |-> tip])
       /\ \/ /\ \E h \in {tip, Unset} :
                   Goes(k, "confirm", [b EXCEPT !.block = h, !.status = "submitted"])
             /\ total' = total + Cardinality(b.receipts)
          \/ Goes(k, "idle", NoBatch) /\ UNCHANGED total
    /\ UNCHANGED <<tip, told, checked, kept, final>>

\* The chain refuses.  Mutant: a refusal is taken for a submission.
RootRefusedUnseen(k) ==
    /\ rooter[k].at = "submit"
    /\ Goes(k, "confirm", [rooter[k].batch EXCEPT !.status = "submitted"])
    /\ total' = total + Cardinality(rooter[k].batch.receipts)
    /\ UNCHANGED <<tip, roots, told, checked, kept, final>>
RootRefused(k) ==
    /\ rooter[k].at = "submit"
    /\ Goes(k, "keep", [rooter[k].batch EXCEPT !.status = "failed"])
    /\ UNCHANGED <<tip, roots, told, checked, kept, total, final>>
RpcThrows(k) ==
    /\ rooter[k].at = "submit"
    /\ Goes(k, "idle", NoBatch)
    /\ UNCHANGED <<tip, roots, told, checked, kept, total, final>>

\* POST /l1/confirm-anchor: its failure is swallowed.
ConfirmAnchor(k) ==
    /\ rooter[k].at = "confirm"
    /\ told' \in {told, told \cup rooter[k].batch.receipts}
    /\ rooter' = [rooter EXCEPT ![k].at = "keep"]
    /\ UNCHANGED <<tip, roots, checked, kept, total, final>>

\* recordMetric, recordAction, and the push; a metric or an alert that cannot be
\* stored ends the cycle before it.
KeepBatch(k) ==
    /\ rooter[k].at = "keep"
    /\ \/ LET more == Append(kept, rooter[k].batch) IN
          kept' = IF Len(more) > KeptBatches THEN Tail(more) ELSE more
       \/ UNCHANGED kept
    /\ Goes(k, "idle", NoBatch)
    /\ UNCHANGED <<tip, roots, told, checked, total, final>>

-----------------------------------------------------------------------------
(* checkFinality *)

AskHeight ==
    /\ checked = Unset
    /\ checked' = tip
    /\ UNCHANGED <<tip, roots, told, rooter, kept, total, final>>

Deepen(b) ==
    IF b.status # "submitted" \/ b.block = Unset THEN b
    ELSE IF checked - b.block >= FinalDepth THEN [b EXCEPT !.status = "finalized"]
    ELSE IF checked - b.block >= 1 THEN [b EXCEPT !.status = "confirmed"]
    ELSE b

\* The loop has no await: it sees the list as it is by now, and the height as it was.
MarkBatches ==
    /\ checked # Unset
    /\ kept' = [i \in DOMAIN kept |-> Deepen(kept[i])]
    /\ final' = final \cup {b \in Range(kept') : b.status = "finalized"}
    /\ checked' = Unset
    /\ UNCHANGED <<tip, roots, told, rooter, total>>

BlockMined ==
    /\ tip < MaxBlocks /\ tip' = tip + 1
    /\ UNCHANGED <<roots, told, rooter, checked, kept, total, final>>

AnchorNext ==
    \/ BlockMined \/ AskHeight \/ MarkBatches
    \/ \E k \in Rooters :
          \/ AskPending(k) \/ RootTaken(k) \/ RootRefused(k) \/ RpcThrows(k)
          \/ ConfirmAnchor(k) \/ KeepBatch(k)

-----------------------------------------------------------------------------
(* Properties *)

\* The receipts under some roots, one root after another.
Anchored(rs) == MapThenSumSet(LAMBDA i : Cardinality(rs[i].receipts), DOMAIN rs)

\* Whatever answers are lost, and however old the height of a check is when its loop
\* runs: the facilitator takes no receipt for anchored that the chain has no root for,
\* a finalized batch is on the chain under FinalDepth blocks, and the daemon counts no
\* receipt that the chain has not taken, though it may count one twice
\* (anchor.ts:76-240).
FinalityIsReal ==
    /\ told \subseteq UNION {r.receipts : r \in Range(roots)}
    /\ \A b \in final :
          /\ tip - b.block >= FinalDepth
          /\ \E r \in Range(roots) : r.receipts = b.receipts /\ r.block = b.block
    /\ total <= Anchored(roots)
=============================================================================
