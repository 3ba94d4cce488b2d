--------------------------- MODULE ReceiptBatcher ---------------------------
(***************************************************************************)
(* The receipts of the facilitator on their way to the chain               *)
(* (services/receipts.ts): createReceipt stores a receipt and puts it in a *)
(* queue in memory; flushBatch (timer, full queue, POST /receipts/flush)   *)
(* takes up to BATCH_SIZE of them, stores a Merkle root over them, tags    *)
(* their rows with the batch, and leaves the anchoring to the L1 adapter.  *)
(* A restart (also a graceful one: the shutdown of index.ts does not       *)
(* flush) forgets the queue and every flush and call under way.            *)
(*                                                                         *)
(* Data abstraction.  A Merkle root is the sequence of its leaves; the     *)
(* module MerkleTree has the computation.                                  *)
(***************************************************************************)
EXTENDS Anchoring, FiniteSetsExt

CONSTANTS
    Receipts,    \* receipt ids
    BATCH_SIZE   \* 100 in the code

ASSUME BatchSizeIsPositive == BATCH_SIZE \in Nat \ {0}

VARIABLES
    rows,          \* the receipts table: receipt -> batch_id (NoBatch for NULL)
    receiptQueue,  \* the receipts in memory, oldest first
    flushes,       \* batch -> the await its flush is at
    merkleRoot     \* batch -> the receipts under its root

batcherVars == <<rows, receiptQueue, flushes, merkleRoot>>
vars == <<anchorVars, batcherVars>>

Init ==
    /\ AnchorInit
    /\ rows = << >>
    /\ receiptQueue = << >>
    /\ flushes = [b \in Batches |-> "unused"]
    /\ merkleRoot = [b \in Batches |-> << >>]

Stored == DOMAIN rows

-----------------------------------------------------------------------------
\* Mutant of Splice: slice, which leaves the receipts in the queue.
Slice(q) ==
    IF q = << >> THEN receiptQueue' = q /\ UNCHANGED <<flushes, merkleRoot>>
    ELSE LET n == IF Len(q) < BATCH_SIZE THEN Len(q) ELSE BATCH_SIZE
         IN  \E b \in Batches :
                /\ flushes[b] = "unused"
                /\ flushes' = [flushes EXCEPT ![b] = "insert"]
                /\ merkleRoot' = [merkleRoot EXCEPT ![b] = SubSeq(q, 1, n)]
                /\ receiptQueue' = q

\* flushBatch up to its first await, on the queue q: splice, draw a batch id,
\* compute the root.  Nothing when the queue is empty.
Splice(q) ==
    IF q = << >> THEN receiptQueue' = q /\ UNCHANGED <<flushes, merkleRoot>>
    ELSE LET n == IF Len(q) < BATCH_SIZE THEN Len(q) ELSE BATCH_SIZE
         IN  \E b \in Batches :
                /\ flushes[b] = "unused"
                /\ flushes' = [flushes EXCEPT ![b] = "insert"]
                /\ merkleRoot' = [merkleRoot EXCEPT ![b] = SubSeq(q, 1, n)]
                /\ receiptQueue' = SubSeq(q, n + 1, Len(q))

\* createReceipt: INSERT, push, and a flush when the queue is full.
CreateReceipt(r) ==
    /\ r \notin Stored
    /\ rows' = [x \in Stored \cup {r} |-> IF x = r THEN NoBatch ELSE rows[x]]
    /\ LET q == Append(receiptQueue, r)
       IN  IF Len(q) >= BATCH_SIZE
           THEN Splice(q)
           ELSE receiptQueue' = q /\ UNCHANGED <<flushes, merkleRoot>>
    /\ UNCHANGED anchorVars

\* The INSERT is committed, but its answer is lost: nothing is queued.
CreateReceiptUnqueued(r) ==
    /\ r \notin Stored
    /\ rows' = [x \in Stored \cup {r} |-> IF x = r THEN NoBatch ELSE rows[x]]
    /\ UNCHANGED <<receiptQueue, flushes, merkleRoot, anchorVars>>

\* The timer of startBatcher, and POST /receipts/flush.
FlushBatch ==
    /\ receiptQueue # << >>
    /\ Splice(receiptQueue)
    /\ UNCHANGED <<rows, anchorVars>>

\* INSERT INTO receipt_roots.
StoreRoot(b) ==
    /\ flushes[b] = "insert"
    /\ created' = Append(created, b)
    /\ flushes' = [flushes EXCEPT ![b] = "update"]
    /\ UNCHANGED <<anchorTx, chain, calls, circuit,
                   rows, receiptQueue, merkleRoot>>

\* The receipts table when the UPDATE of b's flush is committed.
Tagged(b) == [r \in Stored |-> IF r \in ToSet(merkleRoot[b]) THEN b ELSE rows[r]]

\* Mutant of TagReceipts: the receipts are tagged before the root is stored.
TagReceiptsFirst(b) ==
    /\ flushes[b] = "insert"
    /\ rows' = Tagged(b)
    /\ UNCHANGED <<flushes, receiptQueue, merkleRoot, anchorVars>>

\* UPDATE receipts SET batch_id, then anchorBatchOnChain without waiting.
TagReceipts(b) ==
    /\ flushes[b] = "update"
    /\ rows' = Tagged(b)
    /\ flushes' = [flushes EXCEPT ![b] = "done"]
    /\ StartAnchor(b)
    /\ UNCHANGED <<created, anchorTx, chain, circuit,
                   receiptQueue, merkleRoot>>

\* The INSERT or the UPDATE throws; it may be committed nevertheless.  The flush
\* is over, and its receipts are not put back into the queue.
FlushFails(b) ==
    /\ \/ flushes[b] \in {"insert", "update"} /\ UNCHANGED <<created, rows>>
       \/ flushes[b] = "insert" /\ created' = Append(created, b) /\ UNCHANGED rows
       \/ flushes[b] = "update" /\ rows' = Tagged(b) /\ UNCHANGED created
    /\ flushes' = [flushes EXCEPT ![b] = "done"]
    /\ UNCHANGED <<anchorTx, chain, calls, circuit, receiptQueue, merkleRoot>>

\* The process ends and starts again.
Restart ==
    /\ receiptQueue' = << >>
    /\ flushes' = [b \in Batches |-> IF flushes[b] = "unused" THEN "unused" ELSE "done"]
    /\ circuit' = "closed"
    /\ calls' = [c \in Callers |-> NoCall]
    /\ UNCHANGED <<created, anchorTx, chain, rows, merkleRoot>>

AnchorNext ==
    /\ \/ CircuitLapses
       \/ \E c \in Sweepers : StartSweep(c)
       \/ \E c \in Callers : AnchorStep(c) \/ RpcMethodMissing(c)
    /\ UNCHANGED batcherVars

FlushStep(b) == StoreRoot(b) \/ TagReceipts(b)

\* While the process lives and the database answers.
ReliableNext ==
    \/ \E r \in Receipts : CreateReceipt(r)
    \/ FlushBatch
    \/ \E b \in Batches : FlushStep(b)
    \/ AnchorNext

\* What else can happen.
Fault ==
    \/ \E r \in Receipts : CreateReceiptUnqueued(r)
    \/ \E b \in Batches : FlushFails(b)
    \/ (\E c \in Callers : AnchorQueryFails(c)) /\ UNCHANGED batcherVars
    \/ Restart

Next == ReliableNext \/ Fault

Spec == Init /\ [][Next]_vars

\* The runtime resumes every await that has returned, the timers keep firing,
\* and an attempt on the chain that is made again and again is answered some
\* time.  Nothing obliges anyone to ask for a receipt.
Fairness ==
    /\ WF_vars(FlushBatch)
    /\ \A b \in Batches : WF_vars(FlushStep(b))
    /\ WF_vars(CircuitLapses /\ UNCHANGED batcherVars)
    /\ \A c \in Sweepers : WF_vars(StartSweep(c) /\ UNCHANGED batcherVars)
    /\ \A c \in Callers :
          /\ WF_vars(AnchorStep(c) /\ UNCHANGED batcherVars)
          /\ SF_vars(RpcAnswered(c) /\ UNCHANGED batcherVars)

FairSpec == Spec /\ Fairness

-----------------------------------------------------------------------------
(* Properties *)

\* No receipt is under two roots, or twice under one, or under a root while it
\* still waits in the queue: however the full queue, the timer and the route
\* flush at once, splice hands a receipt to one of them.
BatchedOnce ==
    /\ IsInjective(receiptQueue)
    /\ \A b \in Batches :
          /\ IsInjective(merkleRoot[b])
          /\ ToSet(merkleRoot[b]) \cap ToSet(receiptQueue) = {}
          /\ \A b2 \in Batches \ {b} :
                ToSet(merkleRoot[b]) \cap ToSet(merkleRoot[b2]) = {}

\* The batch a receipt's row names is stored, has the receipt under its root,
\* and with it all the receipts of the root: GET /l1/batch/:id shows exactly
\* the leaves that were anchored, or none of them.
TagsMatchRoots ==
    \A r \in Stored : rows[r] # NoBatch =>
        /\ rows[r] \in ToSet(created)
        /\ {x \in Stored : rows[x] = rows[r]} = ToSet(merkleRoot[rows[r]])

Anchored(r) == r \in Stored /\ rows[r] # NoBatch /\ anchorTx[rows[r]] # 0

\* "anchors all receipts": every receipt that is stored is, in the end, in a
\* batch whose anchor is recorded.
EveryReceiptAnchored == \A r \in Receipts : r \in Stored ~> Anchored(r)

\* "pick up any missed batches": when the faults end (no crash, the database
\* answers), every stored batch is anchored in the end, by
\* its flush or by a later sweep, whatever state the faults have left.
EveryBatchAnchored ==
    <>[][ReliableNext]_vars =>
        \A b \in Batches : b \in ToSet(created) ~> anchorTx[b] # 0

=============================================================================
