------------------------------- MODULE Rails -------------------------------
(***************************************************************************)
(* Payments on other rails, shown to POST /verify by a transaction hash:   *)
(* verifyTxHash.ts (Base), adapters/xrpl.ts, and verifyUnykornTxHash.ts    *)
(* (UnyKorn L1).  A verification asks the chain, by one lookup or by four  *)
(* at once, while the transaction is on its way; a lookup may fail, and    *)
(* each is answered at its own time.                                       *)
(*                                                                         *)
(* The transaction has the sender, receiver, asset and amount that were    *)
(* agreed; the chains do not take committed blocks back.                   *)
(***************************************************************************)
EXTENDS Naturals

CONSTANTS
    Proofs,           \* bound: verifications at one time
    Confirmations,    \* UNYKORN_CONFIRMATIONS
    MaxHeight         \* bound: the height of the chain
ASSUME RailsBounds == Confirmations \in Nat /\ MaxHeight \in Nat

RailNames == {"base", "xrpl", "unykorn-l1"}

VARIABLES
    transfer,    \* the transaction: its state, and the height of its block
    height,      \* the height of the chain
    circuit,     \* the breaker of the XRPL adapter
    evidence     \* slot -> a verification: its rail, what its lookups have answered,
                 \* its verdict
railVars == <<transfer, height, circuit, evidence>>

\* A lookup that has not been answered; one that failed or found nothing.
Open == [known |-> "open", block |-> 0]
Null == [known |-> "null", block |-> 0]
Lookups == {"status", "receipt", "tx", "head"}
LookupsOf(rail) == IF rail = "unykorn-l1" THEN Lookups ELSE {"receipt"}

NoProof == [rail |-> "none", answer |-> [l \in Lookups |-> Open], verdict |-> "open"]

RailsInit ==
    /\ transfer = [state |-> "unknown", block |-> 0]
    /\ height = 1
    /\ circuit = "closed"
    /\ evidence = [p \in Proofs |-> NoProof]

-----------------------------------------------------------------------------
(* The chain *)

SendTransfer ==
    /\ transfer.state = "unknown"
    /\ transfer' = [transfer EXCEPT !.state = "pending"]
    /\ UNCHANGED <<height, circuit, evidence>>

\* A block, which may hold the transaction, executed or failed.
NewBlock ==
    /\ height < MaxHeight
    /\ height' = height + 1
    /\ transfer' \in {transfer} \cup
          IF transfer.state = "pending"
          THEN {[state |-> s, block |-> height + 1] : s \in {"committed", "failed"}}
          ELSE {}
    /\ UNCHANGED <<circuit, evidence>>

-----------------------------------------------------------------------------
(* The adapters *)

\* The lookups begin; the XRPL adapter asks nothing while its breaker is open.
StartProof(p, rail) ==
    /\ evidence[p] = NoProof
    /\ LET first == IF rail = "xrpl" /\ circuit = "open" THEN Null ELSE Open
       IN  evidence' = [evidence EXCEPT ![p] =
              [rail |-> rail, answer |-> [NoProof.answer EXCEPT !["receipt"] = first],
               verdict |-> "open"]]
    /\ UNCHANGED <<transfer, height, circuit>>

Seen(state) == [known |-> state, block |-> transfer.block]
InBlock == transfer.state \in {"committed", "failed"}

\* What the chain answers: tx_getStatus, eth_getTransactionReceipt or tx,
\* eth_getTransactionByHash, chain_getLatestBlock.
Answer(lookup) ==
    CASE lookup = "head" -> [known |-> "height", block |-> height]
      [] lookup = "status" /\ transfer.state # "unknown" -> Seen(transfer.state)
      [] lookup = "receipt" /\ InBlock -> Seen(transfer.state)
      [] lookup = "tx" /\ transfer.state # "unknown" -> [known |-> "found", block |-> 0]
      [] OTHER -> Null

Asked(p, l) ==
    /\ evidence[p].rail # "none" /\ evidence[p].verdict = "open"
    /\ l \in LookupsOf(evidence[p].rail)
    /\ evidence[p].answer[l] = Open

\* An answer that is no error closes the breaker.
LookupAnswered(p, l) ==
    /\ Asked(p, l)
    /\ evidence' = [evidence EXCEPT ![p].answer[l] = Answer(l)]
    /\ circuit' = IF evidence[p].rail = "xrpl" /\ Answer(l) # Null THEN "closed" ELSE circuit
    /\ UNCHANGED <<transfer, height>>

\* An HTTP error or a timeout; it trips the breaker of XRPL.
LookupFails(p, l) ==
    /\ Asked(p, l)
    /\ evidence' = [evidence EXCEPT ![p].answer[l] = Null]
    /\ circuit' = IF evidence[p].rail = "xrpl" THEN "open" ELSE circuit
    /\ UNCHANGED <<transfer, height>>

\* CIRCUIT_RESET_MS are over.
BreakerResets ==
    /\ circuit = "open"
    /\ circuit' = "closed"
    /\ UNCHANGED <<transfer, height, evidence>>

\* Mutant of Deep: one confirmation too few.
DeepOffByOne(now, block) == now + 2 >= block + Confirmations
Deep(now, block) == now + 1 >= block + Confirmations

\* The block of the transaction by the status or the receipt, 0 when unknown.
BlockOf(a) == IF a["status"].block # 0 THEN a["status"].block ELSE a["receipt"].block

\* verifyUnykornTxHash, when its four lookups are over.  The amount comes from the
\* transaction or its status; what is unknown about blocks is not asked for.
AcceptedByUnykorn(a) ==
    LET now == a["head"].block
        block == BlockOf(a)
    IN  /\ a["status"].known # "failed" /\ a["receipt"].known # "failed"
        /\ a["status"] # Null \/ a["tx"] # Null
        /\ now # 0 /\ block # 0 => Deep(now, block)

\* Base asks for a receipt with status 0x1; XRPL for a validated transaction, of
\* whatever result.
AcceptedByReceipt(rail, a) ==
    a["receipt"].known \in IF rail = "base" THEN {"committed"} ELSE {"committed", "failed"}

Judge(p) ==
    LET a == evidence[p].answer
        rail == evidence[p].rail
        accepted == IF rail = "unykorn-l1" THEN AcceptedByUnykorn(a) ELSE AcceptedByReceipt(rail, a)
    IN  /\ rail # "none" /\ evidence[p].verdict = "open"
        /\ \A l \in LookupsOf(rail) : a[l] # Open
        /\ evidence' = [evidence EXCEPT ![p].verdict = IF accepted THEN "verified" ELSE "refused"]
        /\ UNCHANGED <<transfer, height, circuit>>

\* A refused request is over; the client may send the hash again.
ProofRefused(p) ==
    /\ evidence[p].verdict = "refused"
    /\ evidence' = [evidence EXCEPT ![p] = NoProof]
    /\ UNCHANGED <<transfer, height, circuit>>

ProofStep(p) ==
    \/ \E rail \in RailNames : StartProof(p, rail)
    \/ \E l \in Lookups : LookupAnswered(p, l) \/ LookupFails(p, l)
    \/ Judge(p) \/ ProofRefused(p)
RailsNext == SendTransfer \/ NewBlock \/ BreakerResets \/ \E p \in Proofs : ProofStep(p)
RailsSpec == RailsInit /\ [][RailsNext]_railVars

-----------------------------------------------------------------------------
(* Properties *)

KnowsBlocks(p) ==
    LET a == evidence[p].answer
    IN  evidence[p].rail = "unykorn-l1" => a["head"].block # 0 /\ BlockOf(a) # 0

\* Lookups that are answered at different times do not add up to a payment that is
\* not there: a verified transfer is in a block, on Base and UnyKorn it was executed
\* (the XRPL adapter does not look at the result), and on UnyKorn it is as deep as
\* UNYKORN_CONFIRMATIONS says, unless the height of the chain or of the block was
\* unknown, where verifyUnykornTxHash accepts a transfer that is pending
\* (verifyTxHash.ts:46-108, verifyUnykornTxHash.ts:45-115, xrpl.ts:105-228).
VerifiedIsPaid ==
    \A p \in Proofs : evidence[p].verdict = "verified" /\ KnowsBlocks(p) =>
        /\ InBlock
        /\ evidence[p].rail # "xrpl" => transfer.state = "committed"
        /\ evidence[p].rail = "unykorn-l1" => height + 1 >= transfer.block + Confirmations
=============================================================================
