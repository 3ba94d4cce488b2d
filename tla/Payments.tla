------------------------------ MODULE Payments ------------------------------
(***************************************************************************)
(* POST /verify of the facilitator (services/verify.ts, verifyPayment):    *)
(* any number of requests run concurrently over the invoices, the credit   *)
(* accounts and the channels.  The handler awaits the database or a chain  *)
(* between its steps, and every await is a point where other requests, the *)
(* expiry timer and the other routes run, or where the call throws: each   *)
(* await is an action of its own, and what was read before it may be stale *)
(* after it.                                                               *)
(*                                                                         *)
(* Data abstraction.  A signature is the key that made it.  The nonce of a *)
(* proof, and that of the body, is the invoice it was drawn with.  What    *)
(* the chain adapters and the rate limiter answer is nondeterministic.     *)
(* What becomes of a receipt after its INSERT is the module ReceiptBatcher;*)
(* the webhook of step 10 is the module Webhooks.                          *)
(***************************************************************************)
EXTENDS CreditLedger, ChannelLedger, InvoiceBook, FiniteSetsExt

CONSTANTS
    Requests,   \* identities of POST /verify calls
    Bodies,     \* the bodies clients may send
    Prices      \* what resources cost

\* A PaymentProof: fields its proof type does not have are None (sequence: 0).
Proof == [proof_type : ProofTypes,
          payer      : Wallets,
          nonce      : Invoices \cup {None},
          key        : Keys \cup {None},
          channel_id : Channels \cup {None},
          sequence   : Sequences \cup {0}]

VerifyBody == [invoice_id : Invoices,
               nonce      : Invoices \cup {None},
               namespaced : BOOLEAN,
               proof      : Proof]

ASSUME BodiesAreVerifyBodies ==
    /\ Bodies \subseteq VerifyBody
    /\ \A b \in Bodies : b.proof.proof_type = "channel_spend" =>
          b.proof.channel_id \in Channels /\ b.proof.sequence \in Sequences

ASSUME PricesAreAmounts == Prices \subseteq Amounts

VARIABLES
    pc,         \* request -> the await it is at, or how it was answered
    body,       \* request -> its body
    debit,      \* request -> what its settlement returned: the position of its
                \* charge in credit_transactions or its channel sequence, else 0
    receipts,   \* the rows of the receipts table
    registering \* the registrations that found an account without a key, and
                \* whose UPDATE is still to come

requestVars == <<pc, body, debit>>
vars == <<accounts, creditTx, channels, invoices, pc, body, debit, receipts,
          registering>>

InFlight == {"replay", "rate", "authorize", "settle", "mark", "receipt"}
Answered == {"verified", "rejected", "failed"}
NoBody   == [invoice_id |-> None]

\* receipt_id is a nanoid of the request that creates it: the request itself.
Receipt == [receipt_id : Requests,
            invoice_id : Invoices,
            channel_id : Channels \cup {None},
            payer      : Wallets,
            amount     : Amounts,
            proof_type : ProofTypes]

Init ==
    /\ CreditsInit
    /\ ChannelsInit
    /\ InvoicesInit
    /\ pc = [r \in Requests |-> "idle"]
    /\ body = [r \in Requests |-> NoBody]
    /\ debit = [r \in Requests |-> 0]
    /\ receipts = {}
    /\ registering = {}

-----------------------------------------------------------------------------
(* The steps of verifyPayment *)

proof(r) == body[r].proof
invoice(r) == invoices[body[r].invoice_id]

\* The answer to request r, and the next await of request r.
Goto(r, label) == pc' = [pc EXCEPT ![r] = label]
AccountsUnchanged == UNCHANGED <<accounts, creditTx, channels, registering>>

\* Steps 1-4: the request arrives, one SELECT reads the invoice, and the
\* checks run on that snapshot: known, pending, not past expires_at, and the
\* proof's nonce, if it has one, is the invoice's.
PayableBy(b) ==
    /\ invoices[b.invoice_id].status = "pending"
    /\ ~invoices[b.invoice_id].lapsed
    /\ b.proof.nonce \in {b.invoice_id, None}

LookupInvoice(r, b) ==
    /\ pc[r] = "idle"
    /\ body' = [body EXCEPT ![r] = b]
    /\ Goto(r, IF PayableBy(b) THEN "replay" ELSE "rejected")
    /\ AccountsUnchanged
    /\ UNCHANGED <<invoices, debit, receipts>>

\* Step 5: a second SELECT looks for the same invoice, nonce and status paid.
\* The rate limiter is consulted when the body names a namespace.
CheckReplay(r) ==
    /\ pc[r] = "replay"
    /\ Goto(r, CASE invoice(r).status = "paid" /\ body[r].nonce = body[r].invoice_id -> "rejected"
                 [] OTHER -> IF body[r].namespaced THEN "rate" ELSE "authorize")
    /\ AccountsUnchanged
    /\ UNCHANGED <<invoices, body, debit, receipts>>

\* Step 5b: allowed (also when the limiter throws), or rate_limited.
CheckRateLimit(r) ==
    /\ pc[r] = "rate"
    /\ \E label \in {"authorize", "rejected"} : Goto(r, label)
    /\ AccountsUnchanged
    /\ UNCHANGED <<invoices, body, debit, receipts>>

\* verifyEd25519: the key on file for the payer made the signature.
SignatureValid(p) ==
    /\ accounts[p.payer].exists
    /\ accounts[p.payer].pubkey = p.key
    /\ p.key \in Keys

\* Mutant of Authorize: the invoice is marked before anything is settled.
AuthorizeMarks(r) ==
    /\ pc[r] = "authorize"
    /\ Goto(r, "mark")
    /\ AccountsUnchanged
    /\ UNCHANGED <<invoices, body, debit, receipts>>

\* Step 6, first half.  prepaid_credit and channel_spend: SELECT the payer's
\* key and verify the signature.  signed_auth: the Stellar adapter decides.
\* tx_hash and xrpl_payment: the chain's adapter decides, nothing is charged.
Authorize(r) ==
    /\ pc[r] = "authorize"
    /\ \/ /\ proof(r).proof_type \in {"prepaid_credit", "channel_spend"}
          /\ Goto(r, IF SignatureValid(proof(r)) THEN "settle" ELSE "rejected")
       \/ /\ proof(r).proof_type = "signed_auth"
          /\ \E label \in {"settle", "rejected"} : Goto(r, label)
       \/ /\ proof(r).proof_type \in OnChainTypes
          /\ \E label \in {"mark", "rejected"} : Goto(r, label)
    /\ AccountsUnchanged
    /\ UNCHANGED <<invoices, body, debit, receipts>>

\* Mutant of SettleCharge: the UPDATE has no AND balance >= $2.
SettleChargeUnguarded(r) ==
    LET w == proof(r).payer
        balance == accounts[w].balance - invoice(r).amount
    IN  /\ pc[r] = "settle"
        /\ proof(r).proof_type \in ChargeTypes
        /\ accounts' = [accounts EXCEPT ![w].balance = balance]
        /\ Journal(w, "charge", invoice(r).amount, balance, body[r].invoice_id)
        /\ debit' = [debit EXCEPT ![r] = Len(creditTx[w]) + 1]
        /\ Goto(r, "mark")
        /\ UNCHANGED <<channels, invoices, body, receipts, registering>>

\* Mutant of SettleCharge: the receipt is made without markInvoicePaid.
SettleChargeUnmarked(r) ==
    /\ pc[r] = "settle"
    /\ proof(r).proof_type \in ChargeTypes
    /\ Charge(proof(r).payer, invoice(r).amount, body[r].invoice_id)
    /\ debit' = [debit EXCEPT ![r] = Len(creditTx[proof(r).payer]) + 1]
    /\ Goto(r, "receipt")
    /\ UNCHANGED <<channels, invoices, body, receipts, registering>>

\* Step 6, second half: charge(payer, invoice.amount, invoice_id).
SettleCharge(r) ==
    /\ pc[r] = "settle"
    /\ proof(r).proof_type \in ChargeTypes
    /\ Charge(proof(r).payer, invoice(r).amount, body[r].invoice_id)
    /\ debit' = [debit EXCEPT ![r] = Len(creditTx[proof(r).payer]) + 1]
    /\ Goto(r, "mark")
    /\ UNCHANGED <<channels, invoices, body, receipts, registering>>

\* Step 6, second half: spendChannel(channel_id, sequence, invoice.amount).
SettleChannel(r) ==
    /\ pc[r] = "settle"
    /\ proof(r).proof_type = "channel_spend"
    /\ SpendChannel(proof(r).channel_id, proof(r).sequence, invoice(r).amount)
    /\ debit' = [debit EXCEPT ![r] = proof(r).sequence]
    /\ Goto(r, "mark")
    /\ UNCHANGED <<accounts, creditTx, invoices, body, receipts, registering>>

\* Mutant of SettlementRefused: the error is swallowed and the payment goes on.
RefusalSwallowed(r) ==
    /\ pc[r] = "settle"
    /\ proof(r).proof_type \in ChargeTypes
    /\ ~CanDebit(proof(r).payer, invoice(r).amount)
    /\ Goto(r, "mark")
    /\ AccountsUnchanged
    /\ UNCHANGED <<invoices, body, debit, receipts>>

\* Mutant of SettlementRefused: a frozen account is not answered.
RefusalForgotten(r) ==
    /\ pc[r] = "settle"
    /\ proof(r).proof_type \in ChargeTypes
    /\ accounts[proof(r).payer].balance < invoice(r).amount
    /\ Goto(r, "rejected")
    /\ AccountsUnchanged
    /\ UNCHANGED <<invoices, body, debit, receipts>>

\* InsufficientBalanceError and ChannelError become rejections.
SettlementRefused(r) ==
    /\ pc[r] = "settle"
    /\ \/ /\ proof(r).proof_type \in ChargeTypes
          /\ ~CanDebit(proof(r).payer, invoice(r).amount)
       \/ /\ proof(r).proof_type = "channel_spend"
          /\ ~CanSpend(proof(r).channel_id, proof(r).sequence, invoice(r).amount)
    /\ Goto(r, "rejected")
    /\ AccountsUnchanged
    /\ UNCHANGED <<invoices, body, debit, receipts>>

\* Mutant of MarkPaid: a request that finds the invoice no longer pending is
\* rejected, and its charge stays.
MarkPaidOrReject(r) ==
    /\ pc[r] = "mark"
    /\ MarkInvoicePaid(body[r].invoice_id, proof(r).payer, proof(r).proof_type)
    /\ Goto(r, IF invoice(r).status = "pending" THEN "receipt" ELSE "rejected")
    /\ AccountsUnchanged
    /\ UNCHANGED <<body, debit, receipts>>

\* Steps 7 and 8: recordNonce does nothing; markInvoicePaid.
MarkPaid(r) ==
    /\ pc[r] = "mark"
    /\ MarkInvoicePaid(body[r].invoice_id, proof(r).payer, proof(r).proof_type)
    /\ Goto(r, "receipt")
    /\ AccountsUnchanged
    /\ UNCHANGED <<body, debit, receipts>>

ReceiptOf(r) == [receipt_id |-> r,
                 invoice_id |-> body[r].invoice_id,
                 channel_id |-> IF proof(r).proof_type = "channel_spend"
                                THEN proof(r).channel_id ELSE None,
                 payer      |-> proof(r).payer,
                 amount     |-> invoice(r).amount,
                 proof_type |-> proof(r).proof_type]

\* Step 9: INSERT INTO receipts, and the answer.  When the row is committed
\* but its acknowledgement is lost, the caller gets a 500.
CreateReceipt(r) ==
    /\ pc[r] = "receipt"
    /\ receipts' = receipts \cup {ReceiptOf(r)}
    /\ \E label \in {"verified", "failed"} : Goto(r, label)
    /\ AccountsUnchanged
    /\ UNCHANGED <<invoices, body, debit>>

\* The awaited call throws (the route answers 500), or the process crashes and
\* the request with it: nothing that was done is undone.
Abort(r) ==
    /\ pc[r] \in InFlight
    /\ Goto(r, "failed")
    /\ AccountsUnchanged
    /\ UNCHANGED <<invoices, body, debit, receipts>>

Verify(r) ==
    \/ CheckReplay(r)
    \/ CheckRateLimit(r)
    \/ Authorize(r)
    \/ SettleCharge(r)
    \/ SettleChannel(r)
    \/ SettlementRefused(r)
    \/ MarkPaid(r)
    \/ CreateReceipt(r)

-----------------------------------------------------------------------------
(* The other routes and the timer *)

\* POST /credits/register, first part: getOrCreateAccount creates the account
\* with the key, or returns one; nothing more happens when that has a key.
Register(w, key) ==
    \/ GetOrCreateAccount(w, key) /\ UNCHANGED registering
    \/ /\ accounts[w].exists
       /\ accounts[w].pubkey = None
       /\ registering' = registering \cup {<<w, key>>}
       /\ UNCHANGED <<accounts, creditTx>>

\* Second part: registerPubkey, whatever key the account has by now.
UpdatePubkey(w, key) ==
    /\ <<w, key>> \in registering
    /\ registering' = registering \ {<<w, key>>}
    /\ RegisterPubkey(w, key)

\* POST /credits/deposit: getOrCreateAccount, then deposit.
DepositRoute(w) ==
    /\ \/ GetOrCreateAccount(w, None)
       \/ /\ accounts[w].exists
          /\ \E amount \in Amounts, ref \in References : Deposit(w, amount, ref)
    /\ UNCHANGED registering

AccountStep ==
    /\ \E w \in Wallets :
          \/ \E key \in Keys : Register(w, key) \/ UpdatePubkey(w, key)
          \/ DepositRoute(w)
          \/ \E frozen \in BOOLEAN : SetFrozen(w, frozen) /\ UNCHANGED registering
    /\ UNCHANGED <<channels, invoices, receipts, requestVars>>

\* POST /channels/open and /channels/:id/close.
ChannelStep ==
    /\ \E c \in Channels :
          \/ \E amount \in Amounts : OpenChannel(c, amount)
          \/ CloseChannel(c)
    /\ UNCHANGED <<accounts, creditTx, registering, invoices, receipts, requestVars>>

\* POST /invoices; the passing of time; the timer of index.ts.
NewInvoice(i) ==
    /\ \E amount \in Prices : CreateInvoice(i, amount)
    /\ AccountsUnchanged
    /\ UNCHANGED <<receipts, requestVars>>

Clock(i) ==
    /\ Lapse(i)
    /\ AccountsUnchanged
    /\ UNCHANGED <<receipts, requestVars>>

ExpiryTimer ==
    /\ ExpireInvoices
    /\ AccountsUnchanged
    /\ UNCHANGED <<receipts, requestVars>>

Next ==
    \/ \E r \in Requests, b \in Bodies : LookupInvoice(r, b)
    \/ \E r \in Requests : Verify(r) \/ Abort(r)
    \/ AccountStep
    \/ ChannelStep
    \/ \E i \in Invoices : NewInvoice(i) \/ Clock(i)
    \/ ExpiryTimer

Spec == Init /\ [][Next]_vars

\* Fairness: the runtime resumes every handler whose await has returned, time
\* passes, and the timer keeps firing.  Nothing obliges a client to call.
FairSpec ==
    /\ Spec
    /\ \A r \in Requests : WF_vars(Verify(r))
    /\ \A i \in Invoices : WF_vars(Clock(i))
    /\ WF_vars(ExpiryTimer)

\* No request is cut off between its settlement and markInvoicePaid.
NotCutOff == \A r \in Requests : pc[r] = "mark" => pc'[r] # "failed"

ReliableSpec == Init /\ [][Next /\ NotCutOff]_vars

-----------------------------------------------------------------------------
(* Properties *)

\* Type invariant: the four tables and the requests.
TypeOK ==
    /\ CreditsTypeOK
    /\ ChannelsTypeOK
    /\ InvoicesTypeOK
    /\ pc \in [Requests -> {"idle"} \cup InFlight \cup Answered]
    /\ body \in [Requests -> Bodies \cup {NoBody}]
    /\ debit \in [Requests -> Nat]
    /\ receipts \subseteq Receipt
    /\ registering \subseteq Wallets \X Keys

\* The requests whose settlement moved money, by charge and by channel spend.
ChargedRequests(w) ==
    {r \in Requests : /\ debit[r] # 0
                      /\ proof(r).proof_type \in ChargeTypes
                      /\ proof(r).payer = w}
SpendingRequests(c) ==
    {r \in Requests : /\ debit[r] # 0
                      /\ proof(r).proof_type = "channel_spend"
                      /\ proof(r).channel_id = c}

\* Every receipt for a charged proof is backed by a charge of its payer, for
\* its amount and its invoice, in credit_transactions, and no charge backs two
\* receipts, whatever the interleaving, the failures and the expiry timer.
ReceiptsBacked ==
    /\ \A rc \in receipts : rc.proof_type \in ChargeTypes =>
          /\ debit[rc.receipt_id] \in 1..Len(creditTx[rc.payer])
          /\ LET entry == creditTx[rc.payer][debit[rc.receipt_id]]
             IN  /\ entry.type = "charge"
                 /\ entry.amount = rc.amount
                 /\ entry.reference = rc.invoice_id
    /\ \A rc1, rc2 \in receipts :
          /\ rc1 # rc2
          /\ rc1.proof_type \in ChargeTypes
          /\ rc2.proof_type \in ChargeTypes
          /\ rc1.payer = rc2.payer
          => debit[rc1.receipt_id] # debit[rc2.receipt_id]

\* Refinement of the three books at once: whatever the requests interleave,
\* the accounts, the channels and the invoices change as the operations of
\* their services change them, and in no other way.
BooksSpec == CreditsSpec /\ ChannelsSpec /\ InvoicesSpec

\* A channel proof settles at most once: however often it is replayed, and
\* however the replays overlap, one request spends under its sequence number.
ChannelProofOnce ==
    \A c \in Channels : \A r1, r2 \in SpendingRequests(c) :
        r1 # r2 => proof(r1).sequence # proof(r2).sequence

\* What some requests were asked to pay, by the rows of their invoices.
TotalPrice(rows, bodies, requests) ==
    MapThenSumSet(LAMBDA r : rows[bodies[r].invoice_id].amount, requests)

\* Money leaves accounts and channels only for requests that got past their
\* settlement, once for each and at the invoice's price: a request that is
\* rejected has moved nothing.
DebitsAccounted ==
    /\ \A w \in Wallets :
          Cardinality({n \in 1..Len(creditTx[w]) : creditTx[w][n].type = "charge"})
             = Cardinality(ChargedRequests(w))
    /\ \A c \in Channels :
          channels[c].spent = TotalPrice(invoices, body, SpendingRequests(c))
    /\ \A r \in Requests : pc[r] = "rejected" => debit[r] = 0

\* A request for i by the recorded payer whose settlement was accepted.
SettledFor(i) ==
    \E r \in Requests :
        /\ body[r] # NoBody
        /\ body[r].invoice_id = i
        /\ proof(r).payer = invoices[i].payer
        /\ proof(r).proof_type = invoices[i].proof_type
        /\ debit[r] # 0 \/ proof(r).proof_type \in OnChainTypes

\* A paid invoice was really settled: the payer it records has a request for
\* it whose charge, spend or on-chain transfer was accepted first.
PaidIsSettled ==
    \A i \in Invoices : invoices[i].status = "paid" => SettledFor(i)

\* Once a receipt exists its invoice can no longer be looked up as pending, so
\* no later request passes for it.
ReceiptClosesInvoice ==
    \A rc \in receipts : invoices[rc.invoice_id].status \in {"paid", "expired"}

\* "Invoices are short-lived and single-use" (invoices.ts): at most one
\* request moves money for an invoice.
SingleUse ==
    \A r1, r2 \in Requests :
        /\ debit[r1] # 0
        /\ debit[r2] # 0
        /\ body[r1].invoice_id = body[r2].invoice_id
        => r1 = r2

\* Every request is answered, if only with an error.
EveryRequestAnswered ==
    \A r \in Requests : pc[r] \in InFlight ~> pc[r] \in Answered

\* No invoice stays pending: it is paid, or the timer expires it.
EveryInvoiceResolves ==
    \A i \in Invoices :
        invoices[i].status = "pending" ~> invoices[i].status \in {"paid", "expired"}
=============================================================================
