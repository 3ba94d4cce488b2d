--------------------------- MODULE PaymentsProofs ---------------------------
(***************************************************************************)
(* Theorems about concurrent verification, for any number of requests and  *)
(* any bodies.  The argument has three layers.                             *)
(*   1. Every step of Payments is a step of each of its three books, or    *)
(*      leaves it alone, so what LedgerProofs shows of the books holds in  *)
(*      Payments; in particular a journal only grows, a channel's sequence *)
(*      number never goes back, and a created invoice keeps its price.     *)
(*   2. By these, what a request has established stays true whatever the   *)
(*      other requests and routes do (RequestInv, kept by KeptRequest).    *)
(*   3. A request's own step establishes what its next step relies on.     *)
(***************************************************************************)
EXTENDS Payments, LedgerProofs, Sums

Settled(r) == debit[r] # 0 \/ proof(r).proof_type \in OnChainTypes
Charged(r) == debit[r] # 0 /\ proof(r).proof_type \in ChargeTypes
Spent(r)   == debit[r] # 0 /\ proof(r).proof_type = "channel_spend"

\* Where a request is, and what it has done by then.
Control(r) ==
    /\ pc[r] = "idle" => body[r] = NoBody
    /\ pc[r] # "idle" => body[r] \in Bodies
    /\ pc[r] \in InFlight \/ debit[r] # 0 => invoice(r).status # "none"
    /\ pc[r] \in {"idle", "replay", "rate", "authorize", "settle", "rejected"}
          => debit[r] = 0
    /\ pc[r] \in {"mark", "receipt"} => Settled(r)
    /\ pc[r] = "receipt" => invoice(r).status \in {"paid", "expired"}

\* The charge a request holds is in the journal, with its price and invoice.
ChargeMatches(r) ==
    Charged(r) =>
        /\ debit[r] \in 1..Len(creditTx[proof(r).payer])
        /\ creditTx[proof(r).payer][debit[r]].type = "charge"
        /\ creditTx[proof(r).payer][debit[r]].amount = invoice(r).amount
        /\ creditTx[proof(r).payer][debit[r]].reference = body[r].invoice_id

\* The spend a request holds is no later than the channel's sequence number.
SpendMatches(r) ==
    Spent(r) => /\ debit[r] = proof(r).sequence
                /\ debit[r] <= channels[proof(r).channel_id].sequence

RequestInv(r) == Control(r) /\ ChargeMatches(r) /\ SpendMatches(r)

\* No charge and no sequence number of a channel belongs to two requests.
ChargesDistinct ==
    \A p, q \in Requests :
        p # q /\ Charged(p) /\ Charged(q) /\ proof(p).payer = proof(q).payer
            => debit[p] # debit[q]

SpendsDistinct ==
    \A p, q \in Requests :
        p # q /\ Spent(p) /\ Spent(q) /\ proof(p).channel_id = proof(q).channel_id
            => debit[p] # debit[q]

\* A receipt is its request's, which has settled and closed its invoice.
ReceiptMatches(rc) ==
    /\ rc.receipt_id \in Requests
    /\ pc[rc.receipt_id] \in {"verified", "failed"}
    /\ rc = ReceiptOf(rc.receipt_id)
    /\ Settled(rc.receipt_id)
    /\ invoice(rc.receipt_id).status \in {"paid", "expired"}

RequestsTypeOK ==
    /\ pc \in [Requests -> {"idle"} \cup InFlight \cup Answered]
    /\ body \in [Requests -> Bodies \cup {NoBody}]
    /\ debit \in [Requests -> Nat]
    /\ receipts \subseteq Receipt

PaymentsInv ==
    /\ CreditsInv
    /\ ChannelsInv
    /\ InvoicesInv
    /\ RequestsTypeOK
    /\ \A r \in Requests : RequestInv(r)
    /\ ChargesDistinct
    /\ SpendsDistinct
    /\ \A rc \in receipts : ReceiptMatches(rc)
    /\ PaidIsSettled

-----------------------------------------------------------------------------
(* Layer 1: the books *)

\* The types of the fields of a request body.
LEMMA BodyTypes ==
    ASSUME NEW b \in Bodies
    PROVE  /\ b \in VerifyBody
           /\ b.invoice_id \in Invoices
           /\ b.proof.payer \in Wallets
           /\ b.proof.proof_type \in ProofTypes
           /\ b.proof.sequence \in Nat
           /\ b.proof.proof_type = "channel_spend" =>
                b.proof.channel_id \in Channels /\ b.proof.sequence \in Sequences
           /\ b # NoBody
<1>1. b \in VerifyBody /\ b.proof \in Proof
  BY BodiesAreVerifyBodies DEF VerifyBody
<1>2. /\ b.invoice_id \in Invoices
      /\ b.proof.payer \in Wallets
      /\ b.proof.proof_type \in ProofTypes
      /\ b.proof.sequence \in Nat
  <2>1. b.invoice_id \in Invoices
    BY <1>1 DEF VerifyBody
  <2>2. /\ b.proof.payer \in Wallets
        /\ b.proof.proof_type \in ProofTypes
        /\ b.proof.sequence \in Sequences \cup {0}
    BY <1>1 DEF Proof
  <2>3. b.proof.sequence \in Nat
    <3>1. 0 \in Nat
      OBVIOUS
    <3> QED
      BY <2>2, <3>1, SequencesAreNat, Zenon
  <2> QED
    BY <2>1, <2>2, <2>3
<1>3. b # NoBody
  <2>1. b.invoice_id # NoBody.invoice_id
    BY <1>2, NoneIsNoValue DEF NoBody
  <2> QED
    BY <2>1
<1> QED
  BY <1>1, <1>2, <1>3, BodiesAreVerifyBodies

\* A request in flight has a body from a client and an invoice with a price.
LEMMA InFlightTypes ==
    ASSUME PaymentsInv, NEW r \in Requests, pc[r] \in InFlight
    PROVE  /\ body[r] \in Bodies
           /\ body[r].invoice_id \in Invoices
           /\ invoice(r).amount \in Amounts
           /\ invoice(r).status # "none"
<1>1. pc[r] # "idle"
  BY DEF InFlight
<1>2. body[r] \in Bodies /\ invoice(r).status # "none"
  BY <1>1 DEF PaymentsInv, RequestInv, Control
<1>3. body[r].invoice_id \in Invoices
  BY <1>2, BodyTypes
<1> QED
  BY <1>2, <1>3 DEF PaymentsInv, InvoicesInv, InvoicesPriced, invoice

JournalExtends(w) ==
    /\ Len(creditTx[w]) \in Nat
    /\ Len(creditTx'[w]) \in Nat
    /\ Len(creditTx'[w]) >= Len(creditTx[w])
    /\ \A n \in 1..Len(creditTx[w]) : creditTx'[w][n] = creditTx[w][n]

\* An operation on the accounts only ever appends to a journal.
LEMMA CreditsStepExtends ==
    ASSUME CreditsInv, [CreditsNext]_creditVars
    PROVE  \A w \in Wallets : JournalExtends(w)
<1>1. creditTx \in [Wallets -> Seq(JournalEntry)]
  BY DEF CreditsInv, CreditsTypeOK
<1>2. \A w \in Wallets : Len(creditTx[w]) \in Nat
  BY <1>1
<1>3. CASE UNCHANGED creditTx
  BY <1>2, <1>3 DEF JournalExtends
<1>4. ASSUME NEW w \in Wallets, NEW type \in JournalTypes,
             NEW amount \in Amounts, NEW balance \in Int, NEW ref \in References,
             Journal(w, type, amount, balance, ref)
      PROVE  \A v \in Wallets : JournalExtends(v)
  <2> DEFINE entry == [type |-> type, amount |-> amount,
                       balance_after |-> balance, reference |-> ref]
  <2>1. entry \in JournalEntry
    BY DEF JournalEntry
  <2>2. creditTx' = [creditTx EXCEPT ![w] = Append(creditTx[w], entry)]
    BY <1>4 DEF Journal
  <2>3. /\ creditTx'[w] = Append(creditTx[w], entry)
        /\ \A v \in Wallets \ {w} : creditTx'[v] = creditTx[v]
    BY <1>1, <2>2
  <2> HIDE DEF entry
  <2>4. creditTx[w] \in Seq(JournalEntry)
    BY <1>1
  <2>5. JournalExtends(w)
    BY <1>2, <2>1, <2>3, <2>4, AppendEntry DEF JournalExtends
  <2>6. ASSUME NEW v \in Wallets \ {w}
        PROVE  JournalExtends(v)
    BY <1>2, <2>3 DEF JournalExtends
  <2> QED
    BY <2>5, <2>6
<1>5. ASSUME NEW w \in Wallets, NEW amount \in Amounts, NEW ref \in References,
             Deposit(w, amount, ref)
      PROVE  \A v \in Wallets : JournalExtends(v)
  <2>1. accounts[w].balance + amount \in Int
    BY AmountsArePositive DEF CreditsInv, CreditsTypeOK, Account
  <2> QED
    BY <1>4, <1>5, <2>1 DEF Deposit, JournalTypes
<1>6. ASSUME NEW w \in Wallets, NEW amount \in Amounts, NEW ref \in References,
             Charge(w, amount, ref)
      PROVE  \A v \in Wallets : JournalExtends(v)
  <2>1. accounts[w].balance - amount \in Int
    BY AmountsArePositive DEF CreditsInv, CreditsTypeOK, Account
  <2> QED
    BY <1>4, <1>6, <2>1 DEF Charge, JournalTypes
<1> QED
  BY <1>3, <1>5, <1>6 DEF CreditsNext, creditVars, GetOrCreateAccount, RegisterPubkey, SetFrozen

\* Every step of Payments is a step of each book, or leaves it unchanged.
LEMMA StepOfBooks ==
    ASSUME PaymentsInv, [Next]_vars
    PROVE  /\ [CreditsNext]_creditVars
           /\ [ChannelsNext]_channels
           /\ [InvoicesNext]_invoices
<1> USE DEF creditVars, AccountsUnchanged
<1>1. ASSUME NEW r \in Requests, NEW b \in Bodies, LookupInvoice(r, b)
      PROVE  UNCHANGED <<accounts, creditTx, channels, invoices>>
  BY <1>1 DEF LookupInvoice
<1>2. ASSUME NEW r \in Requests, Abort(r)
      PROVE  UNCHANGED <<accounts, creditTx, channels, invoices>>
  BY <1>2 DEF Abort
<1>3. ASSUME NEW r \in Requests, CheckReplay(r) \/ CheckRateLimit(r) \/ Authorize(r)
                                   \/ SettlementRefused(r) \/ CreateReceipt(r)
      PROVE  UNCHANGED <<accounts, creditTx, channels, invoices>>
  BY <1>3 DEF CheckReplay, CheckRateLimit, Authorize, SettlementRefused, CreateReceipt
<1>4. ASSUME NEW r \in Requests, SettleCharge(r)
      PROVE  CreditsNext /\ UNCHANGED <<channels, invoices>>
  <2>1. /\ body[r] \in Bodies
        /\ invoice(r).amount \in Amounts
        /\ body[r].invoice_id \in Invoices
    BY <1>4, InFlightTypes DEF SettleCharge, InFlight
  <2>2. proof(r).payer \in Wallets /\ body[r].invoice_id \in References
    BY <2>1, BodyTypes, InvoicesAreReferences DEF proof
  <2> QED
    BY <1>4, <2>1, <2>2 DEF SettleCharge, CreditsNext
<1>5. ASSUME NEW r \in Requests, SettleChannel(r)
      PROVE  ChannelsNext /\ UNCHANGED <<accounts, creditTx, invoices>>
  <2>1. body[r] \in Bodies /\ invoice(r).amount \in Amounts
    BY <1>5, InFlightTypes DEF SettleChannel, InFlight
  <2>2. proof(r).channel_id \in Channels /\ proof(r).sequence \in Sequences
    BY <1>5, <2>1, BodyTypes DEF proof, SettleChannel
  <2> QED
    BY <1>5, <2>1, <2>2 DEF SettleChannel, ChannelsNext
<1>6. ASSUME NEW r \in Requests, MarkPaid(r)
      PROVE  InvoicesNext /\ UNCHANGED <<accounts, creditTx, channels>>
  <2>1. body[r] \in Bodies /\ body[r].invoice_id \in Invoices
    BY <1>6, InFlightTypes DEF MarkPaid, InFlight
  <2>2. proof(r).payer \in Wallets /\ proof(r).proof_type \in ProofTypes
    BY <2>1, BodyTypes DEF proof
  <2> QED
    BY <1>6, <2>1, <2>2 DEF MarkPaid, InvoicesNext
<1>7. CASE AccountStep
  BY <1>7 DEF AccountStep, Register, UpdatePubkey, DepositRoute, CreditsNext
<1>8. CASE ChannelStep
  BY <1>8 DEF ChannelStep, ChannelsNext
<1>9. ASSUME NEW i \in Invoices, NewInvoice(i) \/ Clock(i)
      PROVE  InvoicesNext /\ UNCHANGED <<accounts, creditTx, channels>>
  BY <1>9, PricesAreAmounts DEF NewInvoice, Clock, InvoicesNext
<1>10. CASE ExpiryTimer
  BY <1>10 DEF ExpiryTimer, InvoicesNext
<1>11. CASE UNCHANGED vars
  BY <1>11 DEF vars
<1> QED
  BY <1>1, <1>2, <1>3, <1>4, <1>5, <1>6, <1>7, <1>8, <1>9, <1>10, <1>11
     DEF Next, Verify

\* So the books keep their invariants, and change only as a book may.
Advances ==
    /\ \A w \in Wallets : JournalExtends(w)
    /\ \A c \in Channels : ChannelAdvances(c)
    /\ \A i \in Invoices : InvoiceAdvances(i)

\* A step of the books keeps their three invariants.
LEMMA BooksAdvance ==
    ASSUME PaymentsInv, [Next]_vars
    PROVE  CreditsInv' /\ ChannelsInv' /\ InvoicesInv' /\ Advances
<1>1. /\ [CreditsNext]_creditVars
      /\ [ChannelsNext]_channels
      /\ [InvoicesNext]_invoices
  BY StepOfBooks
<1> QED
  BY <1>1, CreditsNextInv, ChannelsNextInv, InvoicesNextInv, CreditsStepExtends
     DEF PaymentsInv, Advances

-----------------------------------------------------------------------------
(* Layer 2: what a request has established stays *)

SameRequest(r) == pc'[r] = pc[r] /\ body'[r] = body[r] /\ debit'[r] = debit[r]

\* The types of what a request in flight holds.
LEMMA RequestTypes ==
    ASSUME PaymentsInv, NEW r \in Requests, pc[r] # "idle"
    PROVE  /\ body[r] \in Bodies
           /\ body[r] # NoBody
           /\ body[r].invoice_id \in Invoices
           /\ proof(r).payer \in Wallets
           /\ proof(r).proof_type \in ProofTypes
           /\ proof(r).sequence \in Nat
           /\ Spent(r) => proof(r).channel_id \in Channels
           /\ debit[r] \in Nat
<1>1. body[r] \in Bodies /\ debit[r] \in Nat
  BY DEF PaymentsInv, RequestInv, Control, RequestsTypeOK
<1> QED
  BY <1>1, BodyTypes DEF proof, Spent

\* A request that keeps its body and its debit keeps the debit's backing.
LEMMA KeptDebit ==
    ASSUME PaymentsInv, Advances, ChannelsInv', NEW r \in Requests,
           pc[r] # "idle", body'[r] = body[r], debit'[r] = debit[r]
    PROVE  /\ ChargeMatches(r)'
           /\ SpendMatches(r)'
           /\ Settled(r)' = Settled(r)
           /\ proof(r)' = proof(r)
<1>1. /\ Control(r)
      /\ ChargeMatches(r)
      /\ SpendMatches(r)
  BY DEF PaymentsInv, RequestInv
<1>2. /\ Settled(r)' = Settled(r)
      /\ Charged(r)' = Charged(r)
      /\ Spent(r)' = Spent(r)
      /\ proof(r)' = proof(r)
  BY DEF Settled, Charged, Spent, proof
<1>3. /\ InvoiceAdvances(body[r].invoice_id)
      /\ JournalExtends(proof(r).payer)
      /\ Spent(r) => /\ ChannelAdvances(proof(r).channel_id)
                     /\ proof(r).channel_id \in Channels
      /\ debit[r] \in Nat
  BY RequestTypes DEF Advances
<1>4. debit[r] # 0 => invoice(r)'.amount = invoice(r).amount
  BY <1>1, <1>3 DEF Control, invoice, InvoiceAdvances
<1>5. ChargeMatches(r)'
  <2> SUFFICES ASSUME Charged(r)
               PROVE  ChargeMatches(r)'
    BY <1>2 DEF ChargeMatches
  <2>1. /\ debit[r] \in 1..Len(creditTx[proof(r).payer])
        /\ creditTx'[proof(r).payer][debit[r]] = creditTx[proof(r).payer][debit[r]]
        /\ debit[r] \in 1..Len(creditTx'[proof(r).payer])
    BY <1>1, <1>3 DEF ChargeMatches, JournalExtends
  <2> QED
    BY <1>1, <1>2, <1>4, <2>1 DEF ChargeMatches, Charged
<1>6. SpendMatches(r)'
  <2> SUFFICES ASSUME Spent(r)
               PROVE  SpendMatches(r)'
    BY <1>2 DEF SpendMatches
  <2> DEFINE c == proof(r).channel_id
  <2>1. /\ channels[c].sequence \in Nat
        /\ channels'[c].sequence \in Nat
    BY <1>3 DEF PaymentsInv, ChannelsInv, ChannelsTypeOK, Channel
  <2>2. /\ debit[r] = proof(r).sequence
        /\ debit[r] <= channels[c].sequence
        /\ channels'[c].sequence >= channels[c].sequence
    BY <1>1, <1>3 DEF SpendMatches, ChannelAdvances
  <2>3. debit[r] <= channels'[c].sequence
    BY <1>3, <2>1, <2>2
  <2> QED
    BY <1>2, <2>2, <2>3 DEF SpendMatches
<1> QED
  BY <1>2, <1>5, <1>6

\* A request whose fields and invoice are kept still owns its debit.
LEMMA KeptRequest ==
    ASSUME PaymentsInv, Advances, ChannelsInv', NEW r \in Requests, SameRequest(r)
    PROVE  RequestInv(r)'
<1>1. Control(r)
  BY DEF PaymentsInv, RequestInv
<1>2. CASE pc[r] = "idle"
  BY <1>1, <1>2 DEF SameRequest, RequestInv, Control, ChargeMatches, SpendMatches,
                    Charged, Spent, InFlight
<1>3. CASE pc[r] # "idle"
  <2>1. InvoiceAdvances(body[r].invoice_id)
    BY <1>3, RequestTypes DEF Advances
  <2>2. Settled(r)' = Settled(r) /\ ChargeMatches(r)' /\ SpendMatches(r)'
    BY <1>3, KeptDebit DEF SameRequest
  <2>3. Control(r)'
    BY <1>1, <1>3, <2>1, <2>2 DEF SameRequest, Control, invoice, InvoiceAdvances
  <2> QED
    BY <2>2, <2>3 DEF RequestInv
<1> QED
  BY <1>2, <1>3

\* What is left to show of a step: it undoes nothing, its new debits are
\* fresh, its new receipts match, and an invoice it marks is settled.
KeepsWhatIsDone ==
    /\ \A q \in Requests : pc[q] # "idle" => body'[q] = body[q]
    /\ \A q \in Requests : debit[q] # 0 => debit'[q] = debit[q]
    /\ \A q \in Requests : pc[q] \in {"verified", "failed"} => pc'[q] = pc[q]

FreshDebits ==
    /\ \A p, q \in Requests : debit'[p] # debit[p] /\ debit'[q] # debit[q] => p = q
    /\ \A q \in Requests : debit'[q] # debit[q] =>
          /\ Charged(q)' => debit'[q] > Len(creditTx[proof(q)'.payer])
          /\ Spent(q)' => debit'[q] > channels[proof(q)'.channel_id].sequence

NewReceiptsMatch == \A rc \in receipts' : rc \in receipts \/ ReceiptMatches(rc)'

NewlyPaidIsSettled ==
    \A i \in Invoices : invoices'[i].status = "paid" =>
        invoices[i].status = "paid" \/ SettledFor(i)'

\* A step that keeps what each request has established, and has these four
\* effects, keeps the whole invariant.
LEMMA StepPreserves ==
    ASSUME PaymentsInv, [Next]_vars, RequestsTypeOK',
           \A q \in Requests : RequestInv(q)',
           KeepsWhatIsDone, FreshDebits, NewReceiptsMatch, NewlyPaidIsSettled
    PROVE  PaymentsInv'
<1>1. CreditsInv' /\ ChannelsInv' /\ InvoicesInv' /\ Advances
  BY BooksAdvance
<1>2. ASSUME NEW q \in Requests, debit[q] # 0
      PROVE  /\ pc[q] # "idle"
             /\ body'[q] = body[q]
             /\ debit'[q] = debit[q]
             /\ proof(q)' = proof(q)
             /\ Charged(q)' = Charged(q)
             /\ Spent(q)' = Spent(q)
  BY <1>2 DEF PaymentsInv, RequestInv, Control, KeepsWhatIsDone, proof, Charged, Spent
<1>3. ASSUME NEW q \in Requests
      PROVE  /\ debit[q] \in Nat
             /\ debit'[q] \in Nat
  BY DEF PaymentsInv, RequestsTypeOK
<1>4. ChargesDistinct'
  <2> SUFFICES ASSUME NEW p \in Requests, NEW q \in Requests, p # q,
                      Charged(p)', Charged(q)', proof(p)'.payer = proof(q)'.payer
               PROVE  debit'[p] # debit'[q]
    BY DEF ChargesDistinct
  <2>1. CASE debit[p] # 0 /\ debit[q] # 0
    BY <2>1, <1>2 DEF PaymentsInv, ChargesDistinct
  <2>2. ASSUME NEW old \in Requests, NEW new \in Requests, debit[old] # 0,
               debit[new] = 0, Charged(old)', Charged(new)',
               proof(old)'.payer = proof(new)'.payer
        PROVE  debit'[old] # debit'[new]
    <3>1. /\ debit'[new] # debit[new]
          /\ Charged(old)
          /\ proof(old)' = proof(old)
          /\ debit'[old] = debit[old]
          /\ pc[old] # "idle"
      BY <2>2, <1>2 DEF Charged
    <3>2. /\ debit'[new] > Len(creditTx[proof(old).payer])
          /\ debit[old] \in 1..Len(creditTx[proof(old).payer])
      BY <2>2, <3>1 DEF FreshDebits, PaymentsInv, RequestInv, ChargeMatches
    <3>3. Len(creditTx[proof(old).payer]) \in Nat
      BY <1>1, <3>1, RequestTypes DEF Advances, JournalExtends
    <3> QED
      BY <1>3, <3>1, <3>2, <3>3
  <2>3. CASE debit[p] = 0 /\ debit[q] = 0
    BY <2>3 DEF FreshDebits, Charged
  <2> QED
    BY <2>1, <2>2, <2>3
<1>5. SpendsDistinct'
  <2> SUFFICES ASSUME NEW p \in Requests, NEW q \in Requests, p # q,
                      Spent(p)', Spent(q)', proof(p)'.channel_id = proof(q)'.channel_id
               PROVE  debit'[p] # debit'[q]
    BY DEF SpendsDistinct
  <2>1. CASE debit[p] # 0 /\ debit[q] # 0
    BY <2>1, <1>2 DEF PaymentsInv, SpendsDistinct
  <2>2. ASSUME NEW old \in Requests, NEW new \in Requests, debit[old] # 0,
               debit[new] = 0, Spent(old)', Spent(new)',
               proof(old)'.channel_id = proof(new)'.channel_id
        PROVE  debit'[old] # debit'[new]
    <3>1. /\ debit'[new] # debit[new]
          /\ Spent(old)
          /\ proof(old)' = proof(old)
          /\ debit'[old] = debit[old]
          /\ pc[old] # "idle"
      BY <2>2, <1>2 DEF Spent
    <3>2. /\ debit'[new] > channels[proof(old).channel_id].sequence
          /\ debit[old] <= channels[proof(old).channel_id].sequence
      BY <2>2, <3>1 DEF FreshDebits, PaymentsInv, RequestInv, SpendMatches
    <3>3. channels[proof(old).channel_id].sequence \in Nat
      BY <3>1, RequestTypes DEF PaymentsInv, ChannelsInv, ChannelsTypeOK, Channel
    <3> QED
      BY <1>3, <3>1, <3>2, <3>3
  <2>3. CASE debit[p] = 0 /\ debit[q] = 0
    BY <2>3 DEF FreshDebits, Spent
  <2> QED
    BY <2>1, <2>2, <2>3
<1>6. ASSUME NEW rc \in receipts'
      PROVE  ReceiptMatches(rc)'
  <2> SUFFICES ASSUME rc \in receipts
               PROVE  ReceiptMatches(rc)'
    BY DEF NewReceiptsMatch
  <2> DEFINE r == rc.receipt_id
  <2>1. /\ r \in Requests
        /\ pc[r] \in {"verified", "failed"}
        /\ rc = ReceiptOf(r)
        /\ Settled(r)
        /\ invoice(r).status \in {"paid", "expired"}
    BY DEF PaymentsInv, ReceiptMatches
  <2> HIDE DEF r
  <2>2. /\ pc'[r] = pc[r]
        /\ body'[r] = body[r]
        /\ proof(r)' = proof(r)
        /\ Settled(r)'
    BY <2>1, <1>2 DEF KeepsWhatIsDone, Settled, proof
  <2>3. /\ InvoiceAdvances(body[r].invoice_id)
        /\ invoice(r)' = invoices'[body[r].invoice_id]
    BY <1>1, <2>1, <2>2, RequestTypes DEF Advances, invoice
  <2>4. /\ invoice(r)'.status \in {"paid", "expired"}
        /\ invoice(r)'.amount = invoice(r).amount
    BY <2>1, <2>3 DEF InvoiceAdvances, invoice
  <2>5. ReceiptOf(r)' = ReceiptOf(r)
    BY <2>2, <2>4 DEF ReceiptOf
  <2> QED
    BY <2>1, <2>2, <2>4, <2>5 DEF ReceiptMatches, r
<1>7. PaidIsSettled'
  <2> SUFFICES ASSUME NEW i \in Invoices, invoices[i].status = "paid"
               PROVE  SettledFor(i)'
    BY DEF PaidIsSettled, NewlyPaidIsSettled
  <2>1. PICK r \in Requests :
          /\ body[r] # NoBody
          /\ body[r].invoice_id = i
          /\ proof(r).payer = invoices[i].payer
          /\ proof(r).proof_type = invoices[i].proof_type
          /\ debit[r] # 0 \/ proof(r).proof_type \in OnChainTypes
    BY DEF PaymentsInv, PaidIsSettled, SettledFor
  <2>2. pc[r] # "idle"
    BY <2>1 DEF PaymentsInv, RequestInv, Control
  <2>3. body'[r] = body[r] /\ proof(r)' = proof(r) /\ (debit[r] # 0 => debit'[r] # 0)
    BY <2>2 DEF KeepsWhatIsDone, proof
  <2>4. /\ invoices'[i].payer = invoices[i].payer
        /\ invoices'[i].proof_type = invoices[i].proof_type
    BY <1>1 DEF Advances, InvoiceAdvances
  <2> QED
    BY <2>1, <2>3, <2>4 DEF SettledFor
<1> QED
  BY <1>1, <1>4, <1>5, <1>6, <1>7 DEF PaymentsInv

-----------------------------------------------------------------------------
(* Layer 3: the steps *)

\* A step of the books, in which no request takes part.
LEMMA BookStepInv ==
    ASSUME PaymentsInv, [Next]_vars, UNCHANGED <<requestVars, receipts>>,
           \A i \in Invoices : invoices'[i].status = "paid" => invoices[i].status = "paid"
    PROVE  PaymentsInv'
<1>1. Advances /\ ChannelsInv'
  BY BooksAdvance
<1>2. \A q \in Requests : SameRequest(q)
  BY DEF requestVars, SameRequest
<1>3. \A q \in Requests : RequestInv(q)'
  BY <1>1, <1>2, KeptRequest
<1>4. RequestsTypeOK'
  BY DEF PaymentsInv, RequestsTypeOK, requestVars
<1>5. KeepsWhatIsDone /\ FreshDebits
  BY <1>2 DEF KeepsWhatIsDone, FreshDebits, SameRequest
<1>6. NewReceiptsMatch /\ NewlyPaidIsSettled
  BY DEF NewReceiptsMatch, NewlyPaidIsSettled
<1> QED
  BY <1>3, <1>4, <1>5, <1>6, StepPreserves

\* A step of one request that moves no money: only its pc changes among the
\* requests, and Control tells what the new place requires.
LEMMA QuietStepInv ==
    ASSUME PaymentsInv, [Next]_vars, NEW r \in Requests,
           pc[r] \in InFlight, NEW label \in InFlight \cup Answered, Goto(r, label),
           UNCHANGED <<body, debit>>, receipts' \subseteq Receipt,
           Control(r)', NewReceiptsMatch, NewlyPaidIsSettled
    PROVE  PaymentsInv'
<1>1. Advances /\ ChannelsInv'
  BY BooksAdvance
<1>2. RequestsTypeOK'
  BY DEF PaymentsInv, RequestsTypeOK, Goto
<1>3. pc'[r] = label /\ \A q \in Requests \ {r} : SameRequest(q)
  BY DEF PaymentsInv, RequestsTypeOK, Goto, SameRequest
<1>4. ASSUME NEW q \in Requests
      PROVE  RequestInv(q)'
  <2>1. CASE q # r
    BY <1>1, <1>3, <2>1, KeptRequest
  <2>2. CASE q = r
    BY <1>1, <2>2, KeptDebit DEF RequestInv, InFlight
  <2> QED
    BY <2>1, <2>2
<1>5. KeepsWhatIsDone /\ FreshDebits
  BY <1>3 DEF KeepsWhatIsDone, FreshDebits, SameRequest, InFlight
<1> QED
  BY <1>2, <1>4, <1>5, StepPreserves

\* Step 1 of verifyPayment keeps the invariant.
LEMMA LookupInvoiceInv ==
    ASSUME PaymentsInv, NEW r \in Requests, NEW b \in Bodies, LookupInvoice(r, b)
    PROVE  PaymentsInv'
<1>1. [Next]_vars
  BY DEF Next
<1>2. Advances /\ ChannelsInv'
  BY <1>1, BooksAdvance
<1>3. /\ pc[r] = "idle"
      /\ body' = [body EXCEPT ![r] = b]
      /\ pc' = [pc EXCEPT ![r] = IF PayableBy(b) THEN "replay" ELSE "rejected"]
      /\ UNCHANGED <<invoices, debit, receipts>>
  BY DEF LookupInvoice, Goto
<1>4. RequestsTypeOK'
  BY <1>3 DEF PaymentsInv, RequestsTypeOK, InFlight, Answered
<1>5. /\ body'[r] = b
      /\ pc'[r] = IF PayableBy(b) THEN "replay" ELSE "rejected"
      /\ debit'[r] = 0
      /\ \A q \in Requests \ {r} : SameRequest(q)
  BY <1>3 DEF PaymentsInv, RequestsTypeOK, RequestInv, Control, SameRequest
<1>6. ASSUME NEW q \in Requests
      PROVE  RequestInv(q)'
  <2>1. CASE q # r
    BY <1>2, <1>5, <2>1, KeptRequest
  <2>2. CASE q = r
    BY <1>3, <1>5, <2>2
       DEF RequestInv, Control, ChargeMatches, SpendMatches, Charged, Spent, PayableBy,
           invoice, InFlight
  <2> QED
    BY <2>1, <2>2
<1>7. KeepsWhatIsDone /\ FreshDebits
  BY <1>3, <1>5 DEF KeepsWhatIsDone, FreshDebits, SameRequest
<1>8. NewReceiptsMatch /\ NewlyPaidIsSettled
  BY <1>3 DEF NewReceiptsMatch, NewlyPaidIsSettled
<1> QED
  BY <1>1, <1>4, <1>6, <1>7, <1>8, StepPreserves

\* The steps that only read, and those that refuse or fail.
LEMMA ReadingStepInv ==
    ASSUME PaymentsInv, NEW r \in Requests,
           CheckReplay(r) \/ CheckRateLimit(r) \/ Authorize(r)
              \/ SettlementRefused(r) \/ Abort(r)
    PROVE  PaymentsInv'
<1>1. [Next]_vars
  BY DEF Next, Verify
<1>2. PICK label \in InFlight \cup Answered :
        /\ pc[r] \in InFlight
        /\ Goto(r, label)
        /\ UNCHANGED <<invoices, body, debit, receipts>>
        /\ \/ label \in {"replay", "rate", "authorize", "settle", "rejected"} /\ debit[r] = 0
           \/ label = "mark" /\ Settled(r)
           \/ label = "failed"
  <2>1. CASE CheckReplay(r)
    BY <2>1 DEF CheckReplay, InFlight, Answered, PaymentsInv, RequestInv, Control
  <2>2. CASE CheckRateLimit(r)
    BY <2>2 DEF CheckRateLimit, InFlight, Answered, PaymentsInv, RequestInv, Control
  <2>3. CASE Authorize(r)
    BY <2>3 DEF Authorize, InFlight, Answered, PaymentsInv, RequestInv, Control, Settled
  <2>4. CASE SettlementRefused(r)
    BY <2>4 DEF SettlementRefused, InFlight, Answered, PaymentsInv, RequestInv, Control
  <2>5. CASE Abort(r)
    BY <2>5 DEF Abort, Answered
  <2> QED
    BY <2>1, <2>2, <2>3, <2>4, <2>5
<1>3. pc'[r] = label
  BY <1>2 DEF Goto, PaymentsInv, RequestsTypeOK
<1>4. Control(r)'
  <2>1. body[r] \in Bodies /\ invoice(r).status # "none"
    BY <1>2, InFlightTypes
  <2>2. /\ body'[r] \in Bodies
        /\ invoice(r)' = invoice(r)
        /\ Settled(r)' = Settled(r)
        /\ debit'[r] = debit[r]
    BY <1>2, <2>1 DEF invoice, Settled, proof
  <2> QED
    BY <1>2, <1>3, <2>1, <2>2 DEF Control, InFlight, Answered
<1>5. NewReceiptsMatch /\ NewlyPaidIsSettled
  BY <1>2 DEF NewReceiptsMatch, NewlyPaidIsSettled
<1>6. receipts' \subseteq Receipt
  BY <1>2 DEF PaymentsInv, RequestsTypeOK
<1> QED
  BY <1>1, <1>2, <1>4, <1>5, <1>6, QuietStepInv

\* markInvoicePaid closes the invoice, unless the timer or another request
\* already has; either way it is paid or expired afterwards.
LEMMA MarkPaidInv ==
    ASSUME PaymentsInv, NEW r \in Requests, MarkPaid(r)
    PROVE  PaymentsInv'
<1>1. [Next]_vars
  BY DEF Next, Verify
<1> DEFINE i == body[r].invoice_id
<1>2. /\ pc[r] = "mark"
      /\ MarkInvoicePaid(i, proof(r).payer, proof(r).proof_type)
      /\ Goto(r, "receipt")
      /\ UNCHANGED <<body, debit, receipts>>
  BY DEF MarkPaid
<1>3. /\ body[r] \in Bodies
      /\ i \in Invoices
      /\ invoice(r).status # "none"
      /\ Settled(r)
      /\ body[r] # NoBody
  BY <1>2, InFlightTypes, BodyTypes DEF InFlight, PaymentsInv, RequestInv, Control
<1>4. invoices \in [Invoices -> Invoice]
  BY DEF PaymentsInv, InvoicesInv, InvoicesTypeOK
<1>5. /\ invoices'[i].status \in {"paid", "expired"}
      /\ \A j \in Invoices : invoices'[j].status = "paid" /\ invoices[j].status # "paid" =>
            /\ j = i
            /\ invoices'[j].payer = proof(r).payer
            /\ invoices'[j].proof_type = proof(r).proof_type
  BY <1>2, <1>3, <1>4 DEF MarkInvoicePaid, Invoice, invoice
<1>6. Control(r)'
  <2>1. pc'[r] = "receipt"
    BY <1>2 DEF Goto, PaymentsInv, RequestsTypeOK
  <2>2. /\ body'[r] \in Bodies
        /\ invoice(r)'.status \in {"paid", "expired"}
        /\ Settled(r)'
    BY <1>2, <1>3, <1>5 DEF invoice, Settled, proof
  <2> QED
    BY <2>1, <2>2 DEF Control, InFlight
<1>7. NewlyPaidIsSettled
  <2> SUFFICES ASSUME NEW j \in Invoices, invoices'[j].status = "paid",
                      invoices[j].status # "paid"
               PROVE  SettledFor(j)'
    BY DEF NewlyPaidIsSettled
  <2>1. /\ body'[r] # NoBody
        /\ body'[r].invoice_id = j
        /\ proof(r)'.payer = invoices'[j].payer
        /\ proof(r)'.proof_type = invoices'[j].proof_type
        /\ debit'[r] # 0 \/ proof(r)'.proof_type \in OnChainTypes
    BY <1>2, <1>3, <1>5 DEF proof, Settled
  <2> QED
    BY <2>1 DEF SettledFor
<1>8. NewReceiptsMatch /\ receipts' \subseteq Receipt
  BY <1>2 DEF NewReceiptsMatch, PaymentsInv, RequestsTypeOK
<1> QED
  BY <1>1, <1>2, <1>6, <1>7, <1>8, QuietStepInv DEF InFlight

\* Step 9 of verifyPayment keeps the invariant.
LEMMA CreateReceiptInv ==
    ASSUME PaymentsInv, NEW r \in Requests, CreateReceipt(r)
    PROVE  PaymentsInv'
<1>1. [Next]_vars
  BY DEF Next, Verify
<1>2. PICK label \in {"verified", "failed"} :
        /\ pc[r] = "receipt"
        /\ receipts' = receipts \cup {ReceiptOf(r)}
        /\ Goto(r, label)
        /\ UNCHANGED <<invoices, body, debit>>
  BY DEF CreateReceipt
<1>3. /\ body[r] \in Bodies
      /\ body[r].invoice_id \in Invoices
      /\ invoice(r).amount \in Amounts
      /\ invoice(r).status \in {"paid", "expired"}
      /\ Settled(r)
  BY <1>2, InFlightTypes DEF InFlight, PaymentsInv, RequestInv, Control
<1>4. ReceiptOf(r) \in Receipt
  <2>1. /\ proof(r).payer \in Wallets
        /\ proof(r).proof_type \in ProofTypes
        /\ proof(r).proof_type = "channel_spend" => proof(r).channel_id \in Channels
    BY <1>3, BodyTypes DEF proof
  <2> QED
    BY <1>3, <2>1 DEF ReceiptOf, Receipt
<1>5. /\ pc'[r] = label
      /\ invoice(r)' = invoice(r)
      /\ proof(r)' = proof(r)
      /\ Settled(r)' = Settled(r)
      /\ ReceiptOf(r)' = ReceiptOf(r)
  BY <1>2 DEF Goto, PaymentsInv, RequestsTypeOK, invoice, proof, Settled, ReceiptOf
<1>6. Control(r)'
  BY <1>2, <1>3, <1>5 DEF Control, InFlight
<1>7. NewReceiptsMatch
  <2>1. ReceiptOf(r).receipt_id = r
    BY DEF ReceiptOf
  <2>2. ReceiptMatches(ReceiptOf(r))'
    BY <1>2, <1>3, <1>5, <2>1 DEF ReceiptMatches
  <2> QED
    BY <1>2, <1>5, <2>2 DEF NewReceiptsMatch
<1>8. NewlyPaidIsSettled /\ receipts' \subseteq Receipt
  BY <1>2, <1>4 DEF NewlyPaidIsSettled, PaymentsInv, RequestsTypeOK
<1> QED
  BY <1>1, <1>2, <1>6, <1>7, <1>8, QuietStepInv DEF InFlight, Answered

\* A charge of verifyPayment keeps the invariant.
LEMMA SettleChargeInv ==
    ASSUME PaymentsInv, NEW r \in Requests, SettleCharge(r)
    PROVE  PaymentsInv'
<1>1. [Next]_vars
  BY DEF Next, Verify
<1>2. Advances /\ ChannelsInv'
  BY <1>1, BooksAdvance
<1> DEFINE w == proof(r).payer
           n == Len(creditTx[w])
<1>3. /\ pc[r] = "settle"
      /\ proof(r).proof_type \in ChargeTypes
      /\ Charge(w, invoice(r).amount, body[r].invoice_id)
      /\ debit' = [debit EXCEPT ![r] = n + 1]
      /\ Goto(r, "mark")
      /\ UNCHANGED <<channels, invoices, body, receipts>>
  BY DEF SettleCharge
<1>4. /\ body[r] \in Bodies
      /\ w \in Wallets
      /\ invoice(r).status # "none"
      /\ invoice(r).amount \in Amounts
      /\ debit[r] = 0
  BY <1>3, InFlightTypes, BodyTypes DEF InFlight, PaymentsInv, RequestInv, Control, proof
<1>5. creditTx \in [Wallets -> Seq(JournalEntry)] /\ n \in Nat
  BY <1>4 DEF PaymentsInv, CreditsInv, CreditsTypeOK
<1>6. /\ Len(creditTx'[w]) = n + 1
      /\ creditTx'[w][n + 1].type = "charge"
      /\ creditTx'[w][n + 1].amount = invoice(r).amount
      /\ creditTx'[w][n + 1].reference = body[r].invoice_id
  <2> DEFINE entry == [type |-> "charge", amount |-> invoice(r).amount,
                       balance_after |-> accounts[w].balance - invoice(r).amount,
                       reference |-> body[r].invoice_id]
  <2>1. creditTx'[w] = Append(creditTx[w], entry)
    BY <1>3, <1>4, <1>5 DEF Charge, Journal
  <2> HIDE DEF entry
  <2>2. creditTx'[w][n + 1] = entry /\ Len(creditTx'[w]) = n + 1
    BY <1>4, <1>5, <2>1
  <2> QED
    BY <2>2 DEF entry
<1>7. /\ pc'[r] = "mark"
      /\ debit'[r] = n + 1
      /\ invoice(r)' = invoice(r)
      /\ proof(r)' = proof(r)
      /\ body'[r] = body[r]
      /\ \A q \in Requests \ {r} : SameRequest(q)
  BY <1>3 DEF Goto, PaymentsInv, RequestsTypeOK, invoice, proof, SameRequest
<1> HIDE DEF n, w
<1>8. RequestsTypeOK'
  BY <1>3, <1>5 DEF Goto, PaymentsInv, RequestsTypeOK, InFlight
<1>9. ASSUME NEW q \in Requests
      PROVE  RequestInv(q)'
  <2>1. CASE q # r
    BY <1>2, <1>7, <2>1, KeptRequest
  <2>2. CASE q = r
    <3>1. debit'[r] # 0 /\ Charged(r)' /\ ~Spent(r)' /\ Settled(r)'
      BY <1>3, <1>5, <1>7 DEF Charged, Spent, Settled, ChargeTypes
    <3>2. Control(r)'
      BY <1>4, <1>7, <3>1 DEF Control
    <3>3. ChargeMatches(r)'
      <4>1. debit'[r] \in 1..Len(creditTx'[w])
        BY <1>5, <1>6, <1>7
      <4> QED
        BY <1>6, <1>7, <4>1 DEF ChargeMatches, w
    <3>4. SpendMatches(r)'
      BY <3>1 DEF SpendMatches
    <3> QED
      BY <2>2, <3>2, <3>3, <3>4 DEF RequestInv
  <2> QED
    BY <2>1, <2>2
<1>10. KeepsWhatIsDone
  BY <1>3, <1>4, <1>7 DEF KeepsWhatIsDone, SameRequest
<1>11. FreshDebits
  <2>1. ~Spent(r)' /\ debit'[r] > Len(creditTx[proof(r)'.payer])
    BY <1>3, <1>5, <1>7 DEF Spent, ChargeTypes, n, w
  <2> QED
    BY <1>7, <2>1 DEF FreshDebits, SameRequest
<1>12. NewReceiptsMatch /\ NewlyPaidIsSettled
  BY <1>3 DEF NewReceiptsMatch, NewlyPaidIsSettled
<1> QED
  BY <1>1, <1>8, <1>9, <1>10, <1>11, <1>12, StepPreserves

\* A channel spend of verifyPayment keeps the invariant.
LEMMA SettleChannelInv ==
    ASSUME PaymentsInv, NEW r \in Requests, SettleChannel(r)
    PROVE  PaymentsInv'
<1>1. [Next]_vars
  BY DEF Next, Verify
<1>2. Advances /\ ChannelsInv'
  BY <1>1, BooksAdvance
<1> DEFINE c == proof(r).channel_id
           n == proof(r).sequence
<1>3. /\ pc[r] = "settle"
      /\ proof(r).proof_type = "channel_spend"
      /\ SpendChannel(c, n, invoice(r).amount)
      /\ debit' = [debit EXCEPT ![r] = n]
      /\ Goto(r, "mark")
      /\ UNCHANGED <<accounts, creditTx, invoices, body, receipts>>
  BY DEF SettleChannel
<1>4. /\ body[r] \in Bodies
      /\ c \in Channels
      /\ n \in Nat
      /\ invoice(r).status # "none"
      /\ debit[r] = 0
  BY <1>3, InFlightTypes, BodyTypes DEF InFlight, PaymentsInv, RequestInv, Control, proof
<1>5. /\ channels \in [Channels -> Channel]
      /\ channels[c].sequence \in Nat
  BY <1>4 DEF PaymentsInv, ChannelsInv, ChannelsTypeOK, Channel
<1>6. /\ n > channels[c].sequence
      /\ channels'[c].sequence = n
  BY <1>3, <1>4, <1>5 DEF SpendChannel, CanSpend, Channel
<1>7. /\ pc'[r] = "mark"
      /\ debit'[r] = n
      /\ invoice(r)' = invoice(r)
      /\ proof(r)' = proof(r)
      /\ body'[r] = body[r]
      /\ \A q \in Requests \ {r} : SameRequest(q)
  BY <1>3 DEF Goto, PaymentsInv, RequestsTypeOK, invoice, proof, SameRequest
<1> HIDE DEF n, c
<1>8. RequestsTypeOK'
  BY <1>3, <1>4 DEF Goto, PaymentsInv, RequestsTypeOK, InFlight
<1>9. ASSUME NEW q \in Requests
      PROVE  RequestInv(q)'
  <2>1. CASE q # r
    BY <1>2, <1>7, <2>1, KeptRequest
  <2>2. CASE q = r
    <3>1. debit'[r] # 0 /\ Spent(r)' /\ ~Charged(r)' /\ Settled(r)'
      BY <1>3, <1>4, <1>5, <1>6, <1>7 DEF Charged, Spent, Settled, ChargeTypes
    <3>2. Control(r)'
      BY <1>4, <1>7, <3>1 DEF Control
    <3>3. ChargeMatches(r)'
      BY <3>1 DEF ChargeMatches
    <3>4. SpendMatches(r)'
      BY <1>4, <1>6, <1>7 DEF SpendMatches, c, n
    <3> QED
      BY <2>2, <3>2, <3>3, <3>4 DEF RequestInv
  <2> QED
    BY <2>1, <2>2
<1>10. KeepsWhatIsDone
  BY <1>3, <1>4, <1>7 DEF KeepsWhatIsDone, SameRequest
<1>11. FreshDebits
  <2>1. ~Charged(r)' /\ debit'[r] > channels[proof(r)'.channel_id].sequence
    BY <1>3, <1>6, <1>7 DEF Charged, ChargeTypes, c
  <2> QED
    BY <1>7, <2>1 DEF FreshDebits, SameRequest
<1>12. NewReceiptsMatch /\ NewlyPaidIsSettled
  BY <1>3 DEF NewReceiptsMatch, NewlyPaidIsSettled
<1> QED
  BY <1>1, <1>8, <1>9, <1>10, <1>11, <1>12, StepPreserves

-----------------------------------------------------------------------------
(* The invariant *)

\* The initial states satisfy the invariant.
LEMMA InitInv == Init => PaymentsInv
<1> SUFFICES ASSUME Init
             PROVE  PaymentsInv
  OBVIOUS
<1>1. CreditsInv /\ ChannelsInv /\ InvoicesInv
  BY CreditsInitInv, ChannelsInitInv, InvoicesInitInv DEF Init
<1>2. RequestsTypeOK
  BY DEF Init, RequestsTypeOK
<1>3. \A r \in Requests : RequestInv(r)
  BY DEF Init, RequestInv, Control, ChargeMatches, SpendMatches, Charged, Spent, InFlight
<1>4. ChargesDistinct /\ SpendsDistinct
  BY DEF Init, ChargesDistinct, SpendsDistinct, Charged, Spent
<1>5. \A rc \in receipts : ReceiptMatches(rc)
  BY DEF Init
<1>6. PaidIsSettled
  BY DEF Init, InvoicesInit, NoInvoiceRow, PaidIsSettled
<1> QED
  BY <1>1, <1>2, <1>3, <1>4, <1>5, <1>6 DEF PaymentsInv

\* Every step of the facilitator keeps the invariant.
LEMMA NextInv == PaymentsInv /\ [Next]_vars => PaymentsInv'
<1> SUFFICES ASSUME PaymentsInv, [Next]_vars
             PROVE  PaymentsInv'
  OBVIOUS
<1>1. ASSUME NEW r \in Requests, NEW b \in Bodies, LookupInvoice(r, b)
      PROVE  PaymentsInv'
  BY <1>1, LookupInvoiceInv
<1>2. ASSUME NEW r \in Requests,
             CheckReplay(r) \/ CheckRateLimit(r) \/ Authorize(r)
                \/ SettlementRefused(r) \/ Abort(r)
      PROVE  PaymentsInv'
  BY <1>2, ReadingStepInv
<1>3. ASSUME NEW r \in Requests, SettleCharge(r) PROVE PaymentsInv'
  BY <1>3, SettleChargeInv
<1>4. ASSUME NEW r \in Requests, SettleChannel(r) PROVE PaymentsInv'
  BY <1>4, SettleChannelInv
<1>5. ASSUME NEW r \in Requests, MarkPaid(r) PROVE PaymentsInv'
  BY <1>5, MarkPaidInv
<1>6. ASSUME NEW r \in Requests, CreateReceipt(r) PROVE PaymentsInv'
  BY <1>6, CreateReceiptInv
<1>7. CASE AccountStep
  BY <1>7, BookStepInv DEF AccountStep
<1>8. CASE ChannelStep
  BY <1>8, BookStepInv DEF ChannelStep
<1>9. ASSUME NEW i \in Invoices, NewInvoice(i) \/ Clock(i)
      PROVE  PaymentsInv'
  <2>1. invoices \in [Invoices -> Invoice]
    BY DEF PaymentsInv, InvoicesInv, InvoicesTypeOK
  <2>2. \A j \in Invoices : invoices'[j].status = "paid" => invoices[j].status = "paid"
    BY <1>9, <2>1 DEF NewInvoice, Clock, CreateInvoice, Lapse, Invoice
  <2> QED
    BY <1>9, <2>2, BookStepInv DEF NewInvoice, Clock
<1>10. CASE ExpiryTimer
  <2>1. invoices \in [Invoices -> Invoice]
    BY DEF PaymentsInv, InvoicesInv, InvoicesTypeOK
  <2>2. \A j \in Invoices : invoices'[j].status = "paid" => invoices[j].status = "paid"
    BY <1>10, <2>1 DEF ExpiryTimer, ExpireInvoices, Invoice
  <2> QED
    BY <1>10, <2>2, BookStepInv DEF ExpiryTimer
<1>11. CASE UNCHANGED vars
  BY <1>11, BookStepInv DEF vars, requestVars
<1> QED
  BY <1>1, <1>2, <1>3, <1>4, <1>5, <1>6, <1>7, <1>8, <1>9, <1>10, <1>11
     DEF Next, Verify

\* The inductive invariant holds in every reachable state.
THEOREM PaymentsInvariant == Spec => []PaymentsInv
  BY InitInv, NextInv, PTL DEF Spec

-----------------------------------------------------------------------------
(* Every debit is accounted for *)

\* A charge in a journal is held by a request.
ChargesClaimed ==
    \A w \in Wallets : \A n \in 1..Len(creditTx[w]) :
        creditTx[w][n].type = "charge" => \E r \in ChargedRequests(w) : debit[r] = n

\* What was spent from a channel is the price of what its requests paid for.
SpendsClaimed ==
    \A c \in Channels :
        /\ IsFiniteSet(SpendingRequests(c))
        /\ channels[c].spent = TotalPrice(invoices, body, SpendingRequests(c))

DebitsInv == PaymentsInv /\ ChargesClaimed /\ SpendsClaimed

\* TotalPrice is the sum of a function of the requests.
LEMMA PriceIsTotal ==
    ASSUME NEW S, IsFiniteSet(S), NEW rows, NEW bodies, NEW f,
           \A r \in S : f[r] = rows[bodies[r].invoice_id].amount /\ f[r] \in Int
    PROVE  TotalPrice(rows, bodies, S) = Total(f, S)
<1>. DEFINE P(g) == g = [s \in SUBSET S |->
                          IF s = {} THEN 0
                          ELSE rows[bodies[CHOOSE x \in s : TRUE].invoice_id].amount
                                 + g[s \ {CHOOSE x \in s : TRUE}]]
            k == CHOOSE g : P(g)
<1>1. ASSUME NEW g PROVE P(g) <=> AddsUp(g, f, S)
  <2>1. \A s \in SUBSET S : s # {} => f[First(s)] = rows[bodies[First(s)].invoice_id].amount
    BY FirstIsIn
  <2>2. [s \in SUBSET S |->
            IF s = {} THEN 0
            ELSE rows[bodies[First(s)].invoice_id].amount + g[s \ {First(s)}]]
        = [s \in SUBSET S |-> IF s = {} THEN 0 ELSE f[First(s)] + g[s \ {First(s)}]]
    BY <2>1
  <2>. QED  BY <2>2 DEF AddsUp, First
<1>2. P(k)
  <2>1. PICK g : AddsUp(g, f, S)
    BY SumExists
  <2>. HIDE DEF P
  <2>. QED  BY <1>1, <2>1
<1>3. TotalPrice(rows, bodies, S) = k[S]
  BY DEF TotalPrice, MapThenSumSet, MapThenFoldSet
<1>. HIDE DEF k, P
<1>4. SumOf(k, f, S)
  BY <1>1, <1>2 DEF SumOf
<1>5. PICK g : SumOf(g, f, S) /\ Total(f, S) = g[S]
  BY TotalIsSum
<1>. QED  BY <1>3, <1>4, <1>5, SumAgrees

\* The prices that some requests pay, before and after.
SamePrices(rows, bodies, rows2, bodies2, S) ==
    \A r \in S : /\ rows[bodies[r].invoice_id].amount \in Int
                 /\ rows2[bodies2[r].invoice_id].amount = rows[bodies[r].invoice_id].amount

\* What was asked depends on the prices alone.
LEMMA PriceAgrees ==
    ASSUME NEW S, IsFiniteSet(S), NEW rows, NEW bodies, NEW rows2, NEW bodies2,
           SamePrices(rows, bodies, rows2, bodies2, S)
    PROVE  TotalPrice(rows2, bodies2, S) = TotalPrice(rows, bodies, S)
<1>. DEFINE f == [r \in S |-> rows[bodies[r].invoice_id].amount]
<1>1. \A r \in S : /\ f[r] \in Int
                   /\ f[r] = rows[bodies[r].invoice_id].amount
                   /\ f[r] = rows2[bodies2[r].invoice_id].amount
  BY DEF SamePrices
<1>. HIDE DEF f
<1>2. TotalPrice(rows, bodies, S) = Total(f, S)
  BY <1>1, PriceIsTotal
<1>3. TotalPrice(rows2, bodies2, S) = Total(f, S)
  BY <1>1, PriceIsTotal
<1>. QED  BY <1>2, <1>3

\* One request more is asked.
AskedToo(rows, bodies, S, r) ==
    /\ r \notin S
    /\ \A q \in S \cup {r} : rows[bodies[q].invoice_id].amount \in Int

\* A request that is counted too adds the price of its invoice.
LEMMA PriceAdds ==
    ASSUME NEW S, IsFiniteSet(S), NEW rows, NEW bodies, NEW r,
           AskedToo(rows, bodies, S, r)
    PROVE  TotalPrice(rows, bodies, S \cup {r})
             = TotalPrice(rows, bodies, S) + rows[bodies[r].invoice_id].amount
<1>. DEFINE f == [q \in S \cup {r} |-> rows[bodies[q].invoice_id].amount]
<1>1. /\ r \notin S /\ f[r] = rows[bodies[r].invoice_id].amount
      /\ \A q \in S \cup {r} : f[q] \in Int /\ f[q] = rows[bodies[q].invoice_id].amount
  BY DEF AskedToo
<1>2. IsFiniteSet(S \cup {r})
  BY FS_AddElement
<1>. HIDE DEF f
<1>3. TotalPrice(rows, bodies, S) = Total(f, S)
  BY <1>1, PriceIsTotal
<1>4. TotalPrice(rows, bodies, S \cup {r}) = Total(f, S \cup {r})
  BY <1>1, <1>2, PriceIsTotal
<1>5. Total(f, S \cup {r}) = Total(f, S) + f[r]
  BY <1>1, TotalAdd
<1>. QED  BY <1>1, <1>3, <1>4, <1>5

\* No step takes back a debit, or changes the body of a request that arrived.
LEMMA StepKeeps ==
    ASSUME PaymentsInv, [Next]_vars
    PROVE  \A q \in Requests : debit[q] # 0 => debit'[q] = debit[q] /\ body'[q] = body[q]
<1>. SUFFICES ASSUME NEW q \in Requests, debit[q] # 0
              PROVE  debit'[q] = debit[q] /\ body'[q] = body[q]
  OBVIOUS
<1>0. /\ pc[q] \notin {"idle", "settle"}
      /\ body \in [Requests -> Bodies \cup {NoBody}]
      /\ debit \in [Requests -> Nat]
  BY DEF PaymentsInv, RequestsTypeOK, RequestInv, Control
<1>1. ASSUME NEW r \in Requests, NEW b \in Bodies, LookupInvoice(r, b)
      PROVE  debit'[q] = debit[q] /\ body'[q] = body[q]
  BY <1>0, <1>1 DEF LookupInvoice
<1>2. ASSUME NEW r \in Requests, SettleCharge(r) \/ SettleChannel(r)
      PROVE  debit'[q] = debit[q] /\ body'[q] = body[q]
  BY <1>0, <1>2 DEF SettleCharge, SettleChannel
<1>3. ASSUME NEW r \in Requests,
             CheckReplay(r) \/ CheckRateLimit(r) \/ Authorize(r) \/ SettlementRefused(r)
               \/ MarkPaid(r) \/ CreateReceipt(r) \/ Abort(r)
      PROVE  UNCHANGED <<body, debit>>
  BY <1>3 DEF CheckReplay, CheckRateLimit, Authorize, SettlementRefused, MarkPaid,
              CreateReceipt, Abort
<1>4. CASE AccountStep \/ ChannelStep \/ ExpiryTimer
  BY <1>4 DEF AccountStep, ChannelStep, ExpiryTimer, requestVars
<1>5. ASSUME NEW i \in Invoices, NewInvoice(i) \/ Clock(i)
      PROVE  UNCHANGED <<body, debit>>
  BY <1>5 DEF NewInvoice, Clock, requestVars
<1>6. CASE UNCHANGED vars
  BY <1>6 DEF vars
<1>. QED  BY <1>1, <1>2, <1>3, <1>4, <1>5, <1>6 DEF Next, Verify

\* A request that holds a debit keeps it, and the invoice keeps its price.
LEMMA DebitsStay ==
    ASSUME PaymentsInv, [Next]_vars, NEW q \in Requests, debit[q] # 0
    PROVE  /\ debit'[q] = debit[q]
           /\ proof(q)' = proof(q)
           /\ invoice(q).amount \in Int
           /\ invoice(q)'.amount = invoice(q).amount
<1>1. /\ debit'[q] = debit[q]
      /\ body'[q] = body[q]
      /\ pc[q] # "idle"
      /\ invoice(q).status # "none"
  BY StepKeeps DEF PaymentsInv, RequestInv, Control
<1>2. body[q].invoice_id \in Invoices /\ Advances
  BY <1>1, BooksAdvance, RequestTypes
<1>3. invoice(q).amount \in Amounts
  BY <1>1, <1>2 DEF PaymentsInv, InvoicesInv, InvoicesPriced, invoice
<1>4. InvoiceAdvances(body[q].invoice_id)
  BY <1>2 DEF Advances
<1>5. invoice(q).amount \in Int
  <2>1. \A a \in Amounts : a \in Int
    BY AmountsArePositive
  <2>. QED  BY <1>3, <2>1
<1>6. invoice(q)'.amount = invoice(q).amount
  BY <1>1, <1>4 DEF invoice, InvoiceAdvances
<1>. QED  BY <1>1, <1>5, <1>6 DEF proof

\* New charges in the journals are held by requests.
NewChargesClaimed ==
    \A w \in Wallets : \A n \in 1..Len(creditTx'[w]) :
        n > Len(creditTx[w]) /\ creditTx'[w][n].type = "charge"
            => \E r \in ChargedRequests(w)' : debit'[r] = n

\* A step keeps the charges claimed, if it claims those that it adds.
LEMMA ChargesStayClaimed ==
    ASSUME DebitsInv, [Next]_vars, NewChargesClaimed
    PROVE  ChargesClaimed'
<1>. SUFFICES ASSUME NEW w \in Wallets, NEW n \in 1..Len(creditTx'[w]),
                     creditTx'[w][n].type = "charge"
              PROVE  \E r \in ChargedRequests(w)' : debit'[r] = n
  BY DEF ChargesClaimed
<1>1. JournalExtends(w)
  BY BooksAdvance DEF DebitsInv, Advances
<1>2. CASE n > Len(creditTx[w])
  BY <1>2 DEF NewChargesClaimed
<1>3. CASE n \in 1..Len(creditTx[w])
  <2>1. creditTx[w][n].type = "charge"
    BY <1>1, <1>3 DEF JournalExtends
  <2>2. PICK r \in ChargedRequests(w) : debit[r] = n
    BY <1>3, <2>1 DEF DebitsInv, ChargesClaimed
  <2>3. r \in Requests /\ debit'[r] = debit[r] /\ proof(r)' = proof(r)
    BY <2>2, DebitsStay DEF DebitsInv, ChargedRequests
  <2>4. r \in ChargedRequests(w)'
    BY <2>2, <2>3 DEF ChargedRequests
  <2>. QED  BY <2>2, <2>3, <2>4
<1>. QED  BY <1>1, <1>2, <1>3 DEF JournalExtends

\* The price of what was paid for from a channel does not change.
LEMMA SpendingKept ==
    ASSUME DebitsInv, [Next]_vars, NEW c \in Channels
    PROVE  /\ SpendingRequests(c) \subseteq SpendingRequests(c)'
           /\ \A q \in SpendingRequests(c)' : q \in SpendingRequests(c) \/ debit'[q] # debit[q]
           /\ \A q \in SpendingRequests(c) : invoice(q).amount \in Int
           /\ TotalPrice(invoices', body', SpendingRequests(c)) = channels[c].spent
<1>1. ASSUME NEW q \in Requests, debit[q] # 0
      PROVE  /\ debit'[q] = debit[q]
             /\ proof(q)' = proof(q)
             /\ invoice(q).amount \in Int
             /\ invoice(q)'.amount = invoice(q).amount
  BY <1>1, DebitsStay DEF DebitsInv
<1>2. SpendingRequests(c) \subseteq SpendingRequests(c)'
  BY <1>1 DEF SpendingRequests
<1>3. ASSUME NEW q \in SpendingRequests(c)', debit'[q] = debit[q]
      PROVE  q \in SpendingRequests(c)
  <2>1. q \in Requests /\ debit[q] # 0
    BY <1>3 DEF SpendingRequests
  <2>. QED  BY <1>1, <1>3, <2>1 DEF SpendingRequests
<1>4. SamePrices(invoices, body, invoices', body', SpendingRequests(c))
  BY <1>1 DEF SamePrices, SpendingRequests, invoice
<1>5. /\ IsFiniteSet(SpendingRequests(c))
      /\ channels[c].spent = TotalPrice(invoices, body, SpendingRequests(c))
  BY DEF DebitsInv, SpendsClaimed
<1>6. TotalPrice(invoices', body', SpendingRequests(c)) = channels[c].spent
  BY <1>4, <1>5, PriceAgrees
<1>. QED  BY <1>1, <1>2, <1>3, <1>6 DEF SpendingRequests

\* Where nothing is spent and no debit is new, the spends stay claimed.
LEMMA SpendsStayClaimed ==
    ASSUME DebitsInv, [Next]_vars, NEW c \in Channels,
           channels'[c].spent = channels[c].spent,
           \A q \in SpendingRequests(c)' : debit'[q] = debit[q]
    PROVE  /\ IsFiniteSet(SpendingRequests(c)')
           /\ channels'[c].spent = TotalPrice(invoices', body', SpendingRequests(c)')
<1>1. SpendingRequests(c)' = SpendingRequests(c)
  BY SpendingKept
<1>2. TotalPrice(invoices', body', SpendingRequests(c)) = channels[c].spent
  BY SpendingKept
<1>3. IsFiniteSet(SpendingRequests(c))
  BY DEF DebitsInv, SpendsClaimed
<1>. QED  BY <1>1, <1>2, <1>3

\* A charge is claimed by the request that makes it.
LEMMA SettleChargeDebits ==
    ASSUME DebitsInv, NEW r \in Requests, SettleCharge(r)
    PROVE  ChargesClaimed' /\ SpendsClaimed'
<1>1. [Next]_vars /\ PaymentsInv
  BY DEF Next, Verify, DebitsInv
<1>. DEFINE w == proof(r).payer
            entry == [type |-> "charge", amount |-> invoice(r).amount,
                      balance_after |-> accounts[w].balance - invoice(r).amount,
                      reference |-> body[r].invoice_id]
<1>2. /\ proof(r).proof_type \in ChargeTypes
      /\ creditTx' = [creditTx EXCEPT ![w] = Append(creditTx[w], entry)]
      /\ debit' = [debit EXCEPT ![r] = Len(creditTx[w]) + 1]
      /\ UNCHANGED <<channels, invoices, body>>
  BY DEF SettleCharge, Charge, Journal
<1>3. /\ w \in Wallets
      /\ creditTx \in [Wallets -> Seq(JournalEntry)]
      /\ debit \in [Requests -> Nat]
      /\ Len(creditTx[w]) \in Nat
  <2>1. pc[r] # "idle"
    BY DEF SettleCharge
  <2>2. w \in Wallets
    BY <1>1, <2>1, RequestTypes
  <2>. QED
    BY <1>1, <2>2 DEF PaymentsInv, CreditsInv, CreditsTypeOK, RequestsTypeOK
<1>. HIDE DEF entry
<1>4. /\ Len(creditTx'[w]) = Len(creditTx[w]) + 1
      /\ \A v \in Wallets \ {w} : creditTx'[v] = creditTx[v]
      /\ debit'[r] = Len(creditTx[w]) + 1
      /\ \A q \in Requests \ {r} : debit'[q] = debit[q]
      /\ \A q \in Requests : proof(q)' = proof(q)
  BY <1>2, <1>3 DEF proof
<1>. HIDE DEF w
<1>5. NewChargesClaimed
  <2>. SUFFICES ASSUME NEW v \in Wallets, NEW n \in 1..Len(creditTx'[v]),
                       n > Len(creditTx[v])
                PROVE  \E q \in ChargedRequests(v)' : debit'[q] = n
    BY DEF NewChargesClaimed
  <2>1. Len(creditTx[v]) \in Nat
    BY <1>3
  <2>2. v = w
    BY <1>4, <2>1
  <2>3. n = Len(creditTx[w]) + 1
    BY <1>3, <1>4, <2>2
  <2>4. r \in ChargedRequests(v)'
    BY <1>2, <1>3, <1>4, <2>2 DEF ChargedRequests, w
  <2>. QED  BY <1>4, <2>2, <2>3, <2>4
<1>6. ASSUME NEW c \in Channels
      PROVE  /\ IsFiniteSet(SpendingRequests(c)')
             /\ channels'[c].spent = TotalPrice(invoices', body', SpendingRequests(c)')
  <2>1. \A q \in SpendingRequests(c)' : debit'[q] = debit[q]
    BY <1>2, <1>4 DEF SpendingRequests, ChargeTypes
  <2>. QED  BY <1>1, <1>2, <2>1, SpendsStayClaimed
<1>7. SpendsClaimed'
  BY <1>6 DEF SpendsClaimed
<1>. QED  BY <1>1, <1>5, <1>7, ChargesStayClaimed

\* A spend adds its price to the channel's, and its request to those that paid.
LEMMA SettleChannelDebits ==
    ASSUME DebitsInv, NEW r \in Requests, SettleChannel(r)
    PROVE  ChargesClaimed' /\ SpendsClaimed'
<1>1. [Next]_vars /\ PaymentsInv
  BY DEF Next, Verify, DebitsInv
<1>. DEFINE c == proof(r).channel_id
            price == invoice(r).amount
<1>2. /\ pc[r] = "settle"
      /\ proof(r).proof_type = "channel_spend"
      /\ proof(r).sequence > channels[c].sequence
      /\ channels' = [channels EXCEPT ![c].sequence  = proof(r).sequence,
                                      ![c].spent     = @ + price,
                                      ![c].available = @ - price]
      /\ debit' = [debit EXCEPT ![r] = proof(r).sequence]
      /\ UNCHANGED <<accounts, creditTx, invoices, body>>
  BY DEF SettleChannel, SpendChannel, CanSpend
<1>3. /\ body[r] \in Bodies
      /\ c \in Channels
      /\ price \in Amounts
      /\ debit[r] = 0
      /\ proof(r).sequence \in Nat
  BY <1>1, <1>2, InFlightTypes, BodyTypes
     DEF InFlight, PaymentsInv, RequestInv, Control, proof
<1>4. /\ channels \in [Channels -> Channel]
      /\ channels[c].sequence \in Nat
      /\ debit \in [Requests -> Nat]
  BY <1>1, <1>3 DEF PaymentsInv, ChannelsInv, ChannelsTypeOK, Channel, RequestsTypeOK
<1>5. /\ channels'[c].spent = channels[c].spent + price
      /\ \A d \in Channels \ {c} : channels'[d] = channels[d]
      /\ debit'[r] = proof(r).sequence
      /\ debit'[r] # 0
      /\ \A q \in Requests \ {r} : debit'[q] = debit[q]
      /\ \A q \in Requests : proof(q)' = proof(q)
  <2>1. proof(r).sequence # 0
    BY <1>2, <1>3, <1>4
  <2>2. channels'[c].spent = channels[c].spent + price
    BY <1>2, <1>3, <1>4 DEF Channel
  <2>3. \A d \in Channels \ {c} : channels'[d] = channels[d]
    BY <1>2, <1>4
  <2>. QED  BY <1>2, <1>4, <2>1, <2>2, <2>3 DEF proof
<1>6. price = invoices'[body'[r].invoice_id].amount /\ price \in Int
  <2>1. \A a \in Amounts : a \in Int
    BY AmountsArePositive
  <2>. QED  BY <1>2, <1>3, <2>1 DEF invoice
<1>. HIDE DEF c, price
<1>7. NewChargesClaimed
  BY <1>1, <1>2 DEF NewChargesClaimed, PaymentsInv, CreditsInv, CreditsTypeOK
<1>8. ASSUME NEW d \in Channels
      PROVE  /\ IsFiniteSet(SpendingRequests(d)')
             /\ channels'[d].spent = TotalPrice(invoices', body', SpendingRequests(d)')
  <2>1. CASE d # c
    <3>1. \A q \in SpendingRequests(d)' : debit'[q] = debit[q]
      BY <1>5, <2>1 DEF SpendingRequests, c
    <3>. QED  BY <1>1, <1>5, <2>1, <3>1, SpendsStayClaimed
  <2>2. CASE d = c
    <3>. DEFINE S == SpendingRequests(d)
    <3>1. SpendingRequests(d)' = S \cup {r} /\ r \notin S
      <4>1. r \in SpendingRequests(d)' /\ r \notin S
        BY <1>2, <1>3, <1>5, <2>2 DEF SpendingRequests, c
      <4>2. \A q \in SpendingRequests(d)' : q \in S \/ debit'[q] # debit[q]
        BY <1>1, SpendingKept
      <4>3. \A q \in SpendingRequests(d)' : q \in Requests
        BY DEF SpendingRequests
      <4>4. S \subseteq SpendingRequests(d)'
        BY <1>1, SpendingKept
      <4>. HIDE DEF S
      <4>. QED  BY <1>5, <4>1, <4>2, <4>3, <4>4
    <3>2. IsFiniteSet(S) /\ channels[d].spent = TotalPrice(invoices', body', S)
      <4>1. IsFiniteSet(S)
        BY DEF DebitsInv, SpendsClaimed
      <4>. QED  BY <1>1, <4>1, SpendingKept
    <3>3. AskedToo(invoices', body', S, r)
      <4>1. \A q \in S : invoice(q).amount \in Int
        BY <1>1, SpendingKept
      <4>2. \A q \in S : invoices'[body'[q].invoice_id].amount \in Int
        BY <1>2, <4>1 DEF invoice
      <4>. QED  BY <1>6, <3>1, <4>2 DEF AskedToo
    <3>4. TotalPrice(invoices', body', S \cup {r})
            = TotalPrice(invoices', body', S) + invoices'[body'[r].invoice_id].amount
      <4>. HIDE DEF S
      <4>. QED  BY <3>2, <3>3, PriceAdds
    <3>5. IsFiniteSet(S \cup {r})
      BY <3>2, FS_AddElement
    <3>6. channels'[d].spent = channels[d].spent + invoices'[body'[r].invoice_id].amount
      BY <1>5, <1>6, <2>2
    <3>. HIDE DEF S
    <3>. QED  BY <3>1, <3>2, <3>4, <3>5, <3>6
  <2>. QED  BY <2>1, <2>2
<1>9. SpendsClaimed'
  BY <1>8 DEF SpendsClaimed
<1>. QED  BY <1>1, <1>7, <1>9, ChargesStayClaimed

\* A step that takes no money, on either book, keeps both.
LEMMA NoDebitStep ==
    ASSUME DebitsInv, [Next]_vars, UNCHANGED debit, NewChargesClaimed,
           \A c \in Channels : channels'[c].spent = channels[c].spent
    PROVE  ChargesClaimed' /\ SpendsClaimed'
<1>1. ASSUME NEW c \in Channels
      PROVE  /\ IsFiniteSet(SpendingRequests(c)')
             /\ channels'[c].spent = TotalPrice(invoices', body', SpendingRequests(c)')
  BY SpendsStayClaimed
<1>2. SpendsClaimed'
  BY <1>1 DEF SpendsClaimed
<1>. QED  BY <1>2, ChargesStayClaimed

\* Where the journals stay as they are, no charge is new.
LEMMA NoNewCharge ==
    ASSUME PaymentsInv, UNCHANGED creditTx
    PROVE  NewChargesClaimed
BY DEF NewChargesClaimed, PaymentsInv, CreditsInv, CreditsTypeOK

\* The routes of the accounts append deposits, and no charge.
LEMMA AccountStepDebits ==
    ASSUME DebitsInv, AccountStep
    PROVE  ChargesClaimed' /\ SpendsClaimed'
<1>1. [Next]_vars /\ PaymentsInv /\ UNCHANGED <<channels, debit>>
  BY DEF Next, DebitsInv, AccountStep, requestVars
<1>2. ASSUME NEW w \in Wallets, NEW amount, NEW ref, Deposit(w, amount, ref)
      PROVE  NewChargesClaimed
  <2>. DEFINE entry == [type |-> "deposit", amount |-> amount,
                        balance_after |-> accounts[w].balance + amount,
                        reference |-> ref]
  <2>1. /\ creditTx \in [Wallets -> Seq(JournalEntry)]
        /\ creditTx' = [creditTx EXCEPT ![w] = Append(creditTx[w], entry)]
    BY <1>1, <1>2 DEF Deposit, Journal, PaymentsInv, CreditsInv, CreditsTypeOK
  <2>2. entry.type # "charge"
    OBVIOUS
  <2>. HIDE DEF entry
  <2>3. /\ Len(creditTx[w]) \in Nat
        /\ Len(creditTx'[w]) = Len(creditTx[w]) + 1
        /\ creditTx'[w][Len(creditTx[w]) + 1] = entry
        /\ \A v \in Wallets \ {w} : creditTx'[v] = creditTx[v]
    BY <2>1
  <2>4. ASSUME NEW v \in Wallets, NEW n \in 1..Len(creditTx'[v]), n > Len(creditTx[v])
        PROVE  creditTx'[v][n].type # "charge"
    <3>1. Len(creditTx[v]) \in Nat
      BY <2>1
    <3>2. v = w
      BY <2>3, <2>4, <3>1
    <3>3. n = Len(creditTx[w]) + 1
      BY <2>3, <2>4, <3>2
    <3>. QED  BY <2>2, <2>3, <3>2, <3>3
  <2>. QED  BY <2>4 DEF NewChargesClaimed
<1>3. NewChargesClaimed
  <2>1. ASSUME NEW w \in Wallets, DepositRoute(w) PROVE NewChargesClaimed
    BY <1>1, <1>2, <2>1, NoNewCharge DEF DepositRoute, GetOrCreateAccount
  <2>2. ASSUME NEW w \in Wallets, NEW key \in Keys, Register(w, key) \/ UpdatePubkey(w, key)
        PROVE  UNCHANGED creditTx
    BY <2>2 DEF Register, UpdatePubkey, GetOrCreateAccount, RegisterPubkey
  <2>3. ASSUME NEW w \in Wallets, NEW frozen \in BOOLEAN, SetFrozen(w, frozen)
        PROVE  UNCHANGED creditTx
    BY <2>3 DEF SetFrozen
  <2>. QED  BY <1>1, <2>1, <2>2, <2>3, NoNewCharge DEF AccountStep
<1>. QED  BY <1>1, <1>3, NoDebitStep

\* A channel opens with nothing spent, and closes with what was.
LEMMA ChannelStepDebits ==
    ASSUME DebitsInv, ChannelStep
    PROVE  ChargesClaimed' /\ SpendsClaimed'
<1>1. [Next]_vars /\ PaymentsInv /\ UNCHANGED <<creditTx, debit>>
  BY DEF Next, DebitsInv, ChannelStep, requestVars
<1>2. channels \in [Channels -> Channel] /\ UnopenedIsBlank
  BY <1>1 DEF PaymentsInv, ChannelsInv, ChannelsTypeOK
<1>3. ASSUME NEW c \in Channels, NEW amount \in Amounts, OpenChannel(c, amount)
      PROVE  \A d \in Channels : channels'[d].spent = channels[d].spent
  <2>1. channels[c].spent = 0
    BY <1>2, <1>3 DEF OpenChannel, UnopenedIsBlank, NoChannelRow
  <2>. QED  BY <1>2, <1>3, <2>1 DEF OpenChannel
<1>4. ASSUME NEW c \in Channels, CloseChannel(c)
      PROVE  \A d \in Channels : channels'[d].spent = channels[d].spent
  BY <1>2, <1>4 DEF CloseChannel, Channel
<1>5. \A d \in Channels : channels'[d].spent = channels[d].spent
  BY <1>3, <1>4 DEF ChannelStep
<1>. QED  BY <1>1, <1>5, NoDebitStep, NoNewCharge

\* At first nothing is charged and nothing is spent.
LEMMA DebitsInitInv == Init => DebitsInv
<1>. SUFFICES ASSUME Init PROVE DebitsInv
  OBVIOUS
<1>1. ChargesClaimed
  BY DEF Init, CreditsInit, ChargesClaimed
<1>2. ASSUME NEW c \in Channels
      PROVE  /\ IsFiniteSet(SpendingRequests(c))
             /\ channels[c].spent = TotalPrice(invoices, body, SpendingRequests(c))
  <2>1. SpendingRequests(c) = {} /\ channels[c].spent = 0
    BY DEF Init, SpendingRequests, ChannelsInit, NoChannelRow
  <2>2. IsFiniteSet({})
    BY FS_EmptySet
  <2>3. TotalPrice(invoices, body, {}) = Total([r \in {} |-> 0], {})
    BY <2>2, PriceIsTotal
  <2>. QED  BY <2>1, <2>2, <2>3, TotalEmpty
<1>3. SpendsClaimed
  BY <1>2 DEF SpendsClaimed
<1>. QED  BY <1>1, <1>3, InitInv DEF DebitsInv

\* Every step keeps every debit claimed.
LEMMA DebitsNextInv == DebitsInv /\ [Next]_vars => DebitsInv'
<1>. SUFFICES ASSUME DebitsInv, [Next]_vars PROVE ChargesClaimed' /\ SpendsClaimed'
  BY NextInv DEF DebitsInv
<1>1. PaymentsInv
  BY DEF DebitsInv
<1>2. ASSUME UNCHANGED <<creditTx, channels, debit>>
      PROVE  ChargesClaimed' /\ SpendsClaimed'
  BY <1>1, <1>2, NoDebitStep, NoNewCharge
<1>3. ASSUME NEW r \in Requests, SettleCharge(r) \/ SettleChannel(r)
      PROVE  ChargesClaimed' /\ SpendsClaimed'
  BY <1>3, SettleChargeDebits, SettleChannelDebits
<1>4. ASSUME NEW r \in Requests, NEW b \in Bodies, LookupInvoice(r, b)
      PROVE  UNCHANGED <<creditTx, channels, debit>>
  BY <1>4 DEF LookupInvoice, AccountsUnchanged
<1>5. ASSUME NEW r \in Requests,
             CheckReplay(r) \/ CheckRateLimit(r) \/ Authorize(r) \/ SettlementRefused(r)
               \/ MarkPaid(r) \/ CreateReceipt(r) \/ Abort(r)
      PROVE  UNCHANGED <<creditTx, channels, debit>>
  BY <1>5 DEF CheckReplay, CheckRateLimit, Authorize, SettlementRefused, MarkPaid,
              CreateReceipt, Abort, AccountsUnchanged
<1>6. ASSUME NEW i \in Invoices, NewInvoice(i) \/ Clock(i)
      PROVE  UNCHANGED <<creditTx, channels, debit>>
  BY <1>6 DEF NewInvoice, Clock, requestVars, AccountsUnchanged
<1>7. CASE ExpiryTimer
  BY <1>2, <1>7 DEF ExpiryTimer, requestVars, AccountsUnchanged
<1>8. CASE AccountStep \/ ChannelStep
  BY <1>8, AccountStepDebits, ChannelStepDebits
<1>9. CASE UNCHANGED vars
  BY <1>2, <1>9 DEF vars
<1>. QED  BY <1>2, <1>3, <1>4, <1>5, <1>6, <1>7, <1>8, <1>9 DEF Next, Verify

-----------------------------------------------------------------------------
(* What it says of the service *)

\* All four tables and the requests keep their types.
THEOREM TypeCorrect == Spec => []TypeOK
<1> DEFINE RegisteringOK == registering \subseteq Wallets \X Keys
<1>1. PaymentsInv /\ RegisteringOK => TypeOK
  BY DEF PaymentsInv, TypeOK, RequestsTypeOK, CreditsInv, ChannelsInv, InvoicesInv
<1>2. Init => RegisteringOK
  BY DEF Init
<1>3. RegisteringOK /\ [Next]_vars => RegisteringOK'
  <2> SUFFICES ASSUME RegisteringOK, [Next]_vars
               PROVE  RegisteringOK'
    OBVIOUS
  <2>1. CASE AccountStep
    <3>1. ASSUME NEW w \in Wallets, NEW key \in Keys,
                 Register(w, key) \/ UpdatePubkey(w, key)
          PROVE  RegisteringOK'
      BY <3>1 DEF Register, UpdatePubkey
    <3>2. ASSUME NEW w \in Wallets, DepositRoute(w) PROVE RegisteringOK'
      BY <3>2 DEF DepositRoute
    <3> QED
      BY <2>1, <3>1, <3>2 DEF AccountStep
  <2>2. ASSUME ~AccountStep PROVE UNCHANGED registering
    BY <2>2
       DEF Next, vars, AccountsUnchanged, LookupInvoice, Verify, Abort, CheckReplay,
           CheckRateLimit, Authorize, SettleCharge, SettleChannel, SettlementRefused,
           MarkPaid, CreateReceipt, ChannelStep, NewInvoice, Clock, ExpiryTimer
  <2> QED
    BY <2>1, <2>2
<1> HIDE DEF RegisteringOK
<1> QED
  BY <1>1, <1>2, <1>3, PaymentsInvariant, PTL DEF Spec

\* No receipt is issued for a charged proof without a charge in the journal
\* that is its alone, of its payer, for its amount and its invoice.
THEOREM ReceiptsAreBacked == Spec => []ReceiptsBacked
<1>1. PaymentsInv => ReceiptsBacked
  <2> SUFFICES ASSUME PaymentsInv
               PROVE  ReceiptsBacked
    OBVIOUS
  <2>1. ASSUME NEW rc \in receipts, rc.proof_type \in ChargeTypes
        PROVE  /\ rc.receipt_id \in Requests
               /\ rc = ReceiptOf(rc.receipt_id)
               /\ Charged(rc.receipt_id)
               /\ rc.payer = proof(rc.receipt_id).payer
               /\ rc.amount = invoice(rc.receipt_id).amount
               /\ rc.invoice_id = body[rc.receipt_id].invoice_id
               /\ ChargeMatches(rc.receipt_id)
    <3>1. ReceiptMatches(rc)
      BY DEF PaymentsInv
    <3>2. proof(rc.receipt_id).proof_type = rc.proof_type
      BY <3>1 DEF ReceiptMatches, ReceiptOf
    <3> QED
      BY <2>1, <3>1, <3>2
         DEF ReceiptMatches, ReceiptOf, Settled, Charged, ChargeTypes, OnChainTypes,
             PaymentsInv, RequestInv
  <2> QED
    BY <2>1 DEF ReceiptsBacked, ChargeMatches, PaymentsInv, ChargesDistinct
<1> QED
  BY <1>1, PaymentsInvariant, PTL

\* Of all requests that replay a channel proof, one spends.
THEOREM ChannelProofsSettleOnce == Spec => []ChannelProofOnce
<1>1. PaymentsInv => ChannelProofOnce
  BY DEF PaymentsInv, ChannelProofOnce, SpendingRequests, SpendsDistinct, Spent,
         RequestInv, SpendMatches
<1> QED
  BY <1>1, PaymentsInvariant, PTL

\* A paid invoice has been settled: markInvoicePaid never runs for a request
\* whose charge, spend or transfer was not accepted.
THEOREM InvoicesFollowMoney == Spec => []PaidIsSettled
<1>1. PaymentsInv => PaidIsSettled
  BY DEF PaymentsInv
<1> QED
  BY <1>1, PaymentsInvariant, PTL

\* A receipt closes its invoice: whoever marked it, the request itself, another
\* one or the expiry timer, it is no longer pending and never will be again.
THEOREM ReceiptsCloseInvoices == Spec => []ReceiptClosesInvoice
<1>1. PaymentsInv => ReceiptClosesInvoice
  BY DEF PaymentsInv, ReceiptClosesInvoice, ReceiptMatches, ReceiptOf, invoice
<1> QED
  BY <1>1, PaymentsInvariant, PTL

\* Every charge in a journal and every amount spent from a channel is held by
\* one request that got past its settlement, at its invoice's price: no failure,
\* replay or interleaving takes money that no request accounts for, and a
\* rejected request has taken none.
THEOREM DebitsAreAccounted == Spec => []DebitsAccounted
<1>1. DebitsInv => DebitsAccounted
  <2>. SUFFICES ASSUME DebitsInv PROVE DebitsAccounted
    OBVIOUS
  <2>0. PaymentsInv /\ ChargesClaimed /\ SpendsClaimed
    BY DEF DebitsInv
  <2>1. ASSUME NEW w \in Wallets
        PROVE  Cardinality({n \in 1..Len(creditTx[w]) : creditTx[w][n].type = "charge"})
                 = Cardinality(ChargedRequests(w))
    <3>. DEFINE Entries == {n \in 1..Len(creditTx[w]) : creditTx[w][n].type = "charge"}
                Held == ChargedRequests(w)
                f == [r \in Held |-> debit[r]]
    <3>1. IsFiniteSet(Entries)
      <4>1. Len(creditTx[w]) \in Nat
        BY <2>0 DEF PaymentsInv, CreditsInv, CreditsTypeOK
      <4>2. IsFiniteSet(1..Len(creditTx[w]))
        BY <4>1, PositionsFinite
      <4>3. Entries \in SUBSET (1..Len(creditTx[w]))
        OBVIOUS
      <4>. HIDE DEF Entries
      <4>. QED  BY <4>2, <4>3, FS_Subset
    <3>2. \A r \in Held : Charged(r) /\ proof(r).payer = w /\ r \in Requests
      BY DEF ChargedRequests, Charged
    <3>3. f \in [Held -> Entries]
      BY <2>0, <3>2 DEF PaymentsInv, RequestInv, ChargeMatches
    <3>4. \A p, q \in Held : f[p] = f[q] => p = q
      BY <2>0, <3>2 DEF PaymentsInv, ChargesDistinct
    <3>5. \A n \in Entries : \E r \in Held : f[r] = n
      BY <2>0 DEF ChargesClaimed
    <3>. HIDE DEF f, Held, Entries
    <3>6. f \in Injection(Held, Entries)
      BY <3>3, <3>4 DEF Injection, IsInjective
    <3>7. f \in Surjection(Held, Entries)
      BY <3>3, <3>5 DEF Surjection
    <3>8. Cardinality(Held) = Cardinality(Entries)
      BY <3>1, <3>6, <3>7, FS_Injection
    <3>. QED  BY <3>8 DEF Held, Entries
  <2>2. \A c \in Channels :
           channels[c].spent = TotalPrice(invoices, body, SpendingRequests(c))
    BY <2>0 DEF SpendsClaimed
  <2>3. \A r \in Requests : pc[r] = "rejected" => debit[r] = 0
    BY <2>0 DEF PaymentsInv, RequestInv, Control
  <2>. QED  BY <2>1, <2>2, <2>3 DEF DebitsAccounted
<1> QED
  BY <1>1, DebitsInitInv, DebitsNextInv, PTL DEF Spec

\* Concurrent verification implements each of the three books: whatever the
\* requests do, the tables change as the services' operations change them.
THEOREM PaymentsImplementsBooks == Spec => BooksSpec
<1>1. Init => CreditsInit /\ ChannelsInit /\ InvoicesInit
  BY DEF Init
<1>2. PaymentsInv /\ [Next]_vars => /\ [CreditsNext]_creditVars
                                   /\ [ChannelsNext]_channels
                                   /\ [InvoicesNext]_invoices
  BY StepOfBooks
<1> QED
  BY <1>1, <1>2, PaymentsInvariant, PTL
     DEF Spec, BooksSpec, CreditsSpec, ChannelsSpec, InvoicesSpec

\* So the accounts' journal stays complete and no account is overdrawn under
\* any concurrency of verifications, deposits, freezes and failures.
THEOREM LedgerStaysAudited == Spec => []LedgerAudit
  BY PaymentsImplementsBooks, CreditsAreAudited, PTL DEF BooksSpec

=============================================================================
