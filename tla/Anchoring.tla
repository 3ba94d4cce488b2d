----------------------------- MODULE Anchoring ------------------------------
(***************************************************************************)
(* The L1 adapter of the facilitator (services/l1-adapter.ts): batches of  *)
(* receipts, stored in the table receipt_roots, are anchored on the        *)
(* UnyKorn L1 by concurrent calls of anchorBatchOnChain, one for each      *)
(* flush and one after the other in each sweep of anchorPendingBatches     *)
(* (timer of index.ts, POST /l1/anchor).  All calls share one circuit      *)
(* breaker, which is a pair of variables of the process.                   *)
(*                                                                         *)
(* Data abstraction.  A transaction hash is the ordinal of the transaction *)
(* among those that anchor the same batch.  The sleeps between the         *)
(* attempts of rpcCall are left out, and of time only whether              *)
(* CIRCUIT_RESET_MS has passed is kept.                                    *)
(***************************************************************************)
EXTENDS Integers, FiniteSets, SequencesExt

CONSTANTS
    Batches,      \* batch ids
    Sweepers,     \* who calls anchorPendingBatches: the timer, the route
    SweepLimit,   \* LIMIT of the sweep's query (10)
    MaxAttempts,  \* attempts of one rpcCall: MAX_RETRIES for each endpoint
    MaxCopies     \* bound: further anchors of a batch count as this one

NoBatch == "no batch"
ASSUME NoBatchIsNoBatch == NoBatch \notin Batches
ASSUME SweepersAreNoBatches == Sweepers \cap Batches = {}
ASSUME LimitsArePositive ==
    /\ SweepLimit \in Nat \ {0}
    /\ MaxAttempts \in Nat \ {0}
    /\ MaxCopies \in Nat \ {0}

VARIABLES
    created,   \* the batch ids of receipt_roots, by created_at
    anchorTx,  \* batch -> anchor_tx_hash, 0 for NULL
    chain,     \* batch -> number of transactions on the L1 that anchor it
    circuit,   \* the breaker: closed, open, or open for over CIRCUIT_RESET_MS
    calls      \* caller -> its call of anchorBatchOnChain, and what is to follow

anchorVars == <<created, anchorTx, chain, calls, circuit>>

\* A flush anchors its own batch, so that the batch names the caller.
Callers == Batches \cup Sweepers

Call == [at : {"idle", "load", "rpc", "record"},
         batch : Batches \cup {NoBatch},  \* the current one ...
         todo : SUBSET Batches,           \* ... and all that the call has left
         attempt : 1..MaxAttempts,
         tx : 0..MaxCopies]

NoCall == [at |-> "idle", batch |-> NoBatch, todo |-> {}, attempt |-> 1, tx |-> 0]

AnchorInit ==
    /\ created = << >>
    /\ anchorTx = [b \in Batches |-> 0]
    /\ chain = [b \in Batches |-> 0]
    /\ calls = [c \in Callers |-> NoCall]
    /\ circuit = "closed"

-----------------------------------------------------------------------------
batch(c) == calls[c].batch

\* Mutant of IsCircuitOpen: the breaker is not closed by time.
CircuitNotClosed == circuit # "closed"

\* isCircuitOpen, which closes a breaker whose time is over.
IsCircuitOpen == circuit = "open"
CircuitRead == circuit' = IF circuit = "lapsed" THEN "closed" ELSE circuit

\* CIRCUIT_RESET_MS after it was tripped.
CircuitLapses ==
    /\ circuit = "open"
    /\ circuit' = "lapsed"
    /\ UNCHANGED <<created, anchorTx, chain, calls>>

Step(c, call) == calls' = [calls EXCEPT ![c] = call]
Oldest(b, batches) ==
    \A i, j \in DOMAIN created : created[i] = b /\ created[j] \in batches => i <= j
\* The loop over the rows goes on with the oldest of the rest.
LoadNext(c, rest) ==
    IF rest = {} THEN Step(c, NoCall)
    ELSE \E b \in rest :
            /\ Oldest(b, rest)
            /\ Step(c, [at |-> "load", batch |-> b, todo |-> rest, attempt |-> 1, tx |-> 0])

\* The current batch is done with, by a return ...
Return(c) == LoadNext(c, calls[c].todo \ {batch(c)})
\* ... or by an exception, which a sweep catches: it asks for the breaker, and
\* goes on unless it is open.
Throw(c) ==
    /\ IF IsCircuitOpen THEN Step(c, NoCall) ELSE Return(c)
    /\ IF c \in Sweepers THEN CircuitRead ELSE UNCHANGED circuit

\* The fire-and-forget call at the end of a flush.
StartAnchor(b) == LoadNext(b, {b})

\* The rows anchorPendingBatches selects: the oldest ones without an anchor.
Pending ==
    LET open == {i \in DOMAIN created : anchorTx[created[i]] = 0}
    IN  {created[i] : i \in {i \in open : Cardinality({j \in open : j < i}) < SweepLimit}}

StartSweep(c) ==
    /\ calls[c].at = "idle"
    /\ ~IsCircuitOpen
    /\ Pending # {}
    /\ CircuitRead
    /\ LoadNext(c, Pending)
    /\ UNCHANGED <<created, anchorTx, chain>>

\* SELECT of the batch.  Nothing to do when it is anchored (it always exists);
\* otherwise rpcCall begins, and throws at once when the breaker is open.
LoadBatch(c) ==
    /\ calls[c].at = "load"
    /\ \/ /\ anchorTx[batch(c)] # 0
          /\ Return(c)
          /\ UNCHANGED circuit
       \/ /\ anchorTx[batch(c)] = 0
          /\ IsCircuitOpen
          /\ Throw(c)
       \/ /\ anchorTx[batch(c)] = 0
          /\ ~IsCircuitOpen
          /\ CircuitRead
          /\ Step(c, [calls[c] EXCEPT !.at = "rpc"])
    /\ UNCHANGED <<created, anchorTx, chain>>

\* External: the chain executes anchor_receipt_root.
Execute(b) ==
    chain' = [chain EXCEPT ![b] = IF @ < MaxCopies THEN @ + 1 ELSE @]

\* An attempt is answered with a transaction: resetCircuit.
RpcAnswered(c) ==
    /\ calls[c].at = "rpc"
    /\ Execute(batch(c))
    /\ circuit' = "closed"
    /\ Step(c, [calls[c] EXCEPT !.at = "record", !.tx = chain'[batch(c)]])
    /\ UNCHANGED <<created, anchorTx>>

\* Mutant of RpcFails: the last failure is taken for a lost answer.
RpcFailsRecorded(c) ==
    /\ calls[c].at = "rpc"
    /\ \/ /\ calls[c].attempt < MaxAttempts
          /\ Step(c, [calls[c] EXCEPT !.attempt = @ + 1])
          /\ UNCHANGED circuit
       \/ /\ calls[c].attempt = MaxAttempts
          /\ circuit' = "open"
          /\ Step(c, [calls[c] EXCEPT !.at = "record", !.tx = 1])
    /\ UNCHANGED <<created, anchorTx, chain>>

\* An attempt fails: no connection, a timeout, an HTTP error, a JSON-RPC error.
\* The chain may have executed the request whose answer is lost.  After the
\* last attempt the breaker trips, except when the last error was -32601.
RpcFails(c) ==
    /\ calls[c].at = "rpc"
    /\ \/ UNCHANGED chain
       \/ Execute(batch(c))
    /\ \/ /\ calls[c].attempt < MaxAttempts
          /\ Step(c, [calls[c] EXCEPT !.attempt = @ + 1])
          /\ UNCHANGED circuit
       \/ /\ calls[c].attempt = MaxAttempts
          /\ circuit' = "open"
          /\ Step(c, NoCall)
    /\ UNCHANGED <<created, anchorTx>>

RpcMethodMissing(c) ==
    /\ calls[c].at = "rpc"
    /\ calls[c].attempt = MaxAttempts
    /\ Throw(c)
    /\ UNCHANGED <<created, anchorTx, chain>>

\* UPDATE receipt_roots: whatever the row holds by now is overwritten.
RecordAnchor(c) ==
    /\ calls[c].at = "record"
    /\ anchorTx' = [anchorTx EXCEPT ![batch(c)] = calls[c].tx]
    /\ Return(c)
    /\ UNCHANGED <<created, chain, circuit>>

\* The SELECT or the UPDATE throws; the UPDATE may be committed nevertheless.
AnchorQueryFails(c) ==
    /\ calls[c].at \in {"load", "record"}
    /\ \/ UNCHANGED anchorTx
       \/ /\ calls[c].at = "record"
          /\ anchorTx' = [anchorTx EXCEPT ![batch(c)] = calls[c].tx]
    /\ Throw(c)
    /\ UNCHANGED <<created, chain>>

AnchorStep(c) == LoadBatch(c) \/ RpcAnswered(c) \/ RpcFails(c) \/ RecordAnchor(c)

-----------------------------------------------------------------------------
(* Properties *)

\* An anchor that receipt_roots records is on the chain, and the chain anchors
\* only batches that receipt_roots has: whichever of lost answers, overlapping
\* calls and late updates happen, the two never contradict each other.
AnchorsAreReal ==
    \A b \in Batches :
        /\ anchorTx[b] <= chain[b]
        /\ chain[b] > 0 => b \in ToSet(created)

=============================================================================
