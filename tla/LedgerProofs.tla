---------------------------- MODULE LedgerProofs ----------------------------
(***************************************************************************)
(* Theorems about the three books the facilitator keeps, each on its own:  *)
(* the credit accounts with their journal, the channels, and the invoices; *)
(* for any wallets, amounts, references, channels and invoices.            *)
(*                                                                         *)
(* CreditsInv is inductive: the type invariant and the four parts of       *)
(* LedgerAudit.  The last of them, that a wallet without a row counts as   *)
(* empty, is what lets the creation of a row preserve the others.          *)
(* ChannelsInv adds to ChannelConserved that a channel without a row is    *)
(* blank, so that opening it does not lower its sequence number.           *)
(***************************************************************************)
EXTENDS CreditLedger, ChannelLedger, InvoiceBook, TLAPS

(* Credit accounts *)

CreditsInv == CreditsTypeOK /\ LedgerAudit

\* Appending an entry leaves the earlier ones where they were.
LEMMA AppendEntry ==
    ASSUME NEW S, NEW s \in Seq(S), NEW e \in S
    PROVE  /\ Append(s, e) \in Seq(S)
           /\ Len(s) \in Nat
           /\ Len(Append(s, e)) = Len(s) + 1
           /\ \A n \in 1..Len(s) : Append(s, e)[n] = s[n]
           /\ Append(s, e)[Len(s) + 1] = e
    OBVIOUS

\* Empty tables satisfy the inductive invariant of the accounts.
LEMMA CreditsInitInv == CreditsInit => CreditsInv
  BY NoneIsNoValue DEF CreditsInit, CreditsInv, CreditsTypeOK, LedgerAudit, Account, NoAccount,
     EntriesChain, BalanceIsJournaled, NeverOverdrawn, JournalBalance, RowlessIsEmpty

\* An operation that sets w's balance to its journal's plus the signed amount
\* of a new entry, and appends that entry, preserves the invariant.
LEMMA JournaledChange ==
    ASSUME CreditsInv,
           NEW w \in Wallets, NEW type \in JournalTypes,
           NEW amount \in Amounts, NEW ref \in References, NEW balance \in Int,
           balance = accounts[w].balance
                       + (IF type = "deposit" THEN amount ELSE -amount),
           balance >= 0,
           accounts' \in [Wallets -> Account],
           accounts'[w].balance = balance,
           accounts'[w].exists,
           \A v \in Wallets \ {w} : accounts'[v] = accounts[v],
           Journal(w, type, amount, balance, ref)
    PROVE  CreditsInv'
<1> DEFINE entry == [type |-> type, amount |-> amount,
                     balance_after |-> balance, reference |-> ref]
           old == creditTx[w]
<1>1. /\ creditTx \in [Wallets -> Seq(JournalEntry)]
      /\ accounts \in [Wallets -> Account]
      /\ amount \in Nat
      /\ entry \in JournalEntry
  BY AmountsArePositive DEF CreditsInv, CreditsTypeOK, JournalEntry
<1>2. creditTx' = [creditTx EXCEPT ![w] = Append(old, entry)]
  BY DEF Journal
<1>3. /\ creditTx' \in [Wallets -> Seq(JournalEntry)]
      /\ creditTx'[w] = Append(old, entry)
      /\ \A v \in Wallets \ {w} : creditTx'[v] = creditTx[v]
  BY <1>1, <1>2, AppendEntry
<1>4. /\ Len(old) \in Nat
      /\ Len(creditTx'[w]) = Len(old) + 1
      /\ \A n \in 1..Len(old) : creditTx'[w][n] = old[n]
      /\ creditTx'[w][Len(old) + 1] = entry
  BY <1>1, <1>3, AppendEntry
<1> HIDE DEF entry, old
<1>5. CreditsTypeOK'
  BY <1>3 DEF CreditsTypeOK
<1>6. EntriesChain'
  <2> SUFFICES ASSUME NEW v \in Wallets, NEW n \in 1..Len(creditTx'[v])
               PROVE  creditTx'[v][n].balance_after
                        = JournalBalance(v, n - 1)' + Signed(creditTx'[v][n])
    BY DEF EntriesChain, Signed, JournalBalance
  <2>1. CASE v # w
    BY <2>1, <1>3 DEF CreditsInv, LedgerAudit, EntriesChain, JournalBalance
  <2>2. CASE v = w /\ n \in 1..Len(old)
    <3>1. creditTx'[w][n] = old[n]
      BY <2>2, <1>4
    <3>2. n # 1 => n - 1 \in 1..Len(old) /\ creditTx'[w][n - 1] = old[n - 1]
      BY <2>2, <1>4
    <3>3. JournalBalance(w, n - 1)' = JournalBalance(w, n - 1)
      BY <2>2, <3>2 DEF JournalBalance, old
    <3>4. old[n].balance_after = JournalBalance(w, n - 1) + Signed(old[n])
      BY <2>2 DEF CreditsInv, LedgerAudit, EntriesChain, old
    <3> QED
      BY <2>2, <3>1, <3>3, <3>4
  <2>3. CASE v = w /\ n = Len(old) + 1
    <3>1. JournalBalance(w, n - 1)' = accounts[w].balance
      BY <2>3, <1>4 DEF CreditsInv, LedgerAudit, BalanceIsJournaled, JournalBalance, old
    <3>2. creditTx'[w][n].balance_after = accounts[w].balance + Signed(entry)
      BY <2>3, <1>4 DEF Signed, entry
    <3> QED
      BY <2>3, <3>1, <3>2, <1>4
  <2> QED
    BY <1>4, <2>1, <2>2, <2>3
<1>7. BalanceIsJournaled'
  <2> SUFFICES ASSUME NEW v \in Wallets
               PROVE  accounts'[v].balance = JournalBalance(v, Len(creditTx[v]))'
    BY DEF BalanceIsJournaled
  <2>1. CASE v # w
    BY <2>1, <1>3 DEF CreditsInv, LedgerAudit, BalanceIsJournaled, JournalBalance
  <2>2. CASE v = w
    BY <2>2, <1>4 DEF JournalBalance, entry
  <2> QED
    BY <2>1, <2>2
<1>8. NeverOverdrawn'
  <2> SUFFICES ASSUME NEW v \in Wallets
               PROVE  /\ accounts'[v].balance >= 0
                      /\ \A n \in 1..Len(creditTx'[v]) : creditTx'[v][n].balance_after >= 0
    BY DEF NeverOverdrawn
  <2>1. CASE v # w
    BY <2>1, <1>3 DEF CreditsInv, LedgerAudit, NeverOverdrawn
  <2>2. CASE v = w
    BY <2>2, <1>4 DEF CreditsInv, LedgerAudit, NeverOverdrawn, entry, old
  <2> QED
    BY <2>1, <2>2
<1>9. RowlessIsEmpty'
  BY DEF CreditsInv, LedgerAudit, RowlessIsEmpty
<1> QED
  BY <1>5, <1>6, <1>7, <1>8, <1>9 DEF CreditsInv, LedgerAudit

\* A step that moves no money.
LEMMA UnjournaledChange ==
    ASSUME CreditsInv,
           accounts' \in [Wallets -> Account],
           \A v \in Wallets : /\ accounts'[v].balance = accounts[v].balance
                              /\ accounts[v].exists => accounts'[v].exists,
           UNCHANGED creditTx
    PROVE  CreditsInv'
  BY DEF CreditsInv, CreditsTypeOK, LedgerAudit, EntriesChain, BalanceIsJournaled,
         NeverOverdrawn, JournalBalance, RowlessIsEmpty

\* A deposit keeps the invariant.
LEMMA DepositInv ==
    ASSUME CreditsInv, NEW w \in Wallets, NEW amount \in Amounts, NEW ref \in References,
           Deposit(w, amount, ref)
    PROVE  CreditsInv'
<1> DEFINE balance == accounts[w].balance + amount
<1>1. /\ accounts \in [Wallets -> Account]
      /\ amount \in Nat
      /\ accounts[w].balance \in Int
      /\ accounts[w].balance >= 0
  BY AmountsArePositive DEF CreditsInv, CreditsTypeOK, LedgerAudit, NeverOverdrawn, Account
<1>2. /\ accounts' = [accounts EXCEPT ![w].exists = TRUE, ![w].balance = balance]
      /\ Journal(w, "deposit", amount, balance, ref)
  BY DEF Deposit
<1>3. balance \in Int /\ balance >= 0
  BY <1>1
<1> HIDE DEF balance
<1>4. [accounts[w] EXCEPT !.exists = TRUE, !.balance = balance] \in Account
  BY <1>1, <1>3 DEF Account
<1>5. /\ accounts' \in [Wallets -> Account]
      /\ accounts'[w].balance = balance
      /\ accounts'[w].exists
      /\ \A v \in Wallets \ {w} : accounts'[v] = accounts[v]
  BY <1>1, <1>2, <1>4 DEF Account
<1>6. balance = accounts[w].balance + amount
  BY DEF balance
<1> QED
  BY <1>2, <1>3, <1>5, <1>6, JournaledChange DEF JournalTypes

\* A charge keeps the invariant.
LEMMA ChargeInv ==
    ASSUME CreditsInv, NEW w \in Wallets, NEW amount \in Amounts, NEW ref \in References,
           Charge(w, amount, ref)
    PROVE  CreditsInv'
<1> DEFINE balance == accounts[w].balance - amount
<1>1. /\ accounts \in [Wallets -> Account]
      /\ amount \in Nat
      /\ accounts[w].balance \in Int
      /\ accounts[w].balance >= amount
      /\ accounts[w].exists
  BY AmountsArePositive DEF CreditsInv, CreditsTypeOK, Charge, CanDebit, Account
<1>2. /\ accounts' = [accounts EXCEPT ![w].balance = balance]
      /\ Journal(w, "charge", amount, balance, ref)
  BY DEF Charge
<1>3. /\ accounts' \in [Wallets -> Account]
      /\ accounts'[w].balance = balance
      /\ accounts'[w].exists
      /\ \A v \in Wallets \ {w} : accounts'[v] = accounts[v]
  BY <1>1, <1>2 DEF Account
<1> HIDE DEF balance
<1>4. /\ balance \in Int
      /\ balance >= 0
      /\ balance = accounts[w].balance + (-amount)
  BY <1>1 DEF balance
<1> QED
  BY <1>2, <1>3, <1>4, JournaledChange DEF JournalTypes

\* Every operation of settle.ts keeps the invariant.
LEMMA CreditsNextInv == CreditsInv /\ [CreditsNext]_creditVars => CreditsInv'
<1> SUFFICES ASSUME CreditsInv, [CreditsNext]_creditVars
             PROVE  CreditsInv'
  OBVIOUS
<1>1. /\ accounts \in [Wallets -> Account]
      /\ \A w \in Wallets : ~accounts[w].exists => accounts[w].balance = 0
  BY DEF CreditsInv, CreditsTypeOK, LedgerAudit, RowlessIsEmpty
<1>2. ASSUME NEW w \in Wallets, NEW key \in Keys \cup {None}, GetOrCreateAccount(w, key)
      PROVE  CreditsInv'
  BY <1>1, <1>2, UnjournaledChange
     DEF GetOrCreateAccount, NoAccount, Account
<1>3. ASSUME NEW w \in Wallets, NEW key \in Keys, RegisterPubkey(w, key)
      PROVE  CreditsInv'
  BY <1>1, <1>3, UnjournaledChange DEF RegisterPubkey, Account
<1>4. ASSUME NEW w \in Wallets, NEW frozen \in BOOLEAN, SetFrozen(w, frozen)
      PROVE  CreditsInv'
  BY <1>1, <1>4, UnjournaledChange DEF SetFrozen, Account
<1>5. ASSUME NEW w \in Wallets, NEW amount \in Amounts, NEW ref \in References,
             Deposit(w, amount, ref)
      PROVE  CreditsInv'
  BY <1>5, DepositInv
<1>6. ASSUME NEW w \in Wallets, NEW amount \in Amounts, NEW ref \in References,
             Charge(w, amount, ref)
      PROVE  CreditsInv'
  BY <1>6, ChargeInv
<1>7. CASE UNCHANGED creditVars
  BY <1>1, <1>7, UnjournaledChange DEF creditVars
<1> QED
  BY <1>2, <1>3, <1>4, <1>5, <1>6, <1>7 DEF CreditsNext

\* The tables of the credit service keep their types, the journal of every
\* account chains without a gap up to its balance, and no account is ever
\* overdrawn, in every behaviour of the operations of settle.ts.
THEOREM CreditsAreAudited == CreditsSpec => []CreditsTypeOK /\ []LedgerAudit
<1>1. CreditsInv => CreditsTypeOK /\ LedgerAudit
  BY DEF CreditsInv
<1> QED
  BY CreditsInitInv, CreditsNextInv, <1>1, PTL DEF CreditsSpec

-----------------------------------------------------------------------------
(* Channels *)

UnopenedIsBlank ==
    \A c \in Channels : channels[c].status = "none" => channels[c] = NoChannelRow

ChannelsInv == ChannelsTypeOK /\ ChannelConserved /\ UnopenedIsBlank

\* The empty table satisfies the inductive invariant of the channels.
LEMMA ChannelsInitInv == ChannelsInit => ChannelsInv
  BY DEF ChannelsInit, ChannelsInv, ChannelsTypeOK, Channel, NoChannelRow,
         ChannelConserved, UnopenedIsBlank

\* The row that spendChannel's UPDATE leaves, field by field.
LEMMA SpentRow ==
    ASSUME NEW row \in Channel, NEW seq \in Nat, NEW s \in Int, NEW a \in Int
    PROVE  [row EXCEPT !.sequence = seq, !.spent = s, !.available = a] \in Channel
  BY DEF Channel

\* What a step does to any channel, seen from outside: its sequence number
\* never goes back, money leaves it only while it is open and under a new
\* number, and a closed row stays as it is.
ChannelAdvances(c) ==
    /\ channels'[c].sequence >= channels[c].sequence
    /\ channels'[c].spent # channels[c].spent =>
          /\ channels[c].status = "open"
          /\ channels'[c].sequence > channels[c].sequence
    /\ channels[c].status = "closed" => channels'[c] = channels[c]

\* Every operation of channels.ts keeps the invariant.
LEMMA ChannelsNextInv ==
    ChannelsInv /\ [ChannelsNext]_channels
        => ChannelsInv' /\ \A c \in Channels : ChannelAdvances(c)
<1> SUFFICES ASSUME ChannelsInv, [ChannelsNext]_channels
             PROVE  ChannelsInv' /\ \A c \in Channels : ChannelAdvances(c)
  OBVIOUS
<1> USE DEF ChannelsInv, ChannelsTypeOK, ChannelConserved, UnopenedIsBlank, Channel,
            ChannelAdvances
<1>1. ASSUME NEW c \in Channels, NEW amount \in Amounts, OpenChannel(c, amount)
      PROVE  ChannelsInv' /\ \A d \in Channels : ChannelAdvances(d)
  BY <1>1, AmountsArePositive DEF OpenChannel, NoChannelRow
<1>2. ASSUME NEW c \in Channels, NEW seq \in Sequences, NEW amount \in Amounts,
             SpendChannel(c, seq, amount)
      PROVE  ChannelsInv' /\ \A d \in Channels : ChannelAdvances(d)
  <2>1. /\ amount \in Nat
        /\ seq \in Nat
        /\ channels[c] \in Channel
        /\ channels[c].status = "open"
        /\ seq > channels[c].sequence
        /\ amount <= channels[c].available
    BY <1>2, AmountsArePositive, SequencesAreNat DEF SpendChannel, CanSpend
  <2> DEFINE row == [channels[c] EXCEPT !.sequence  = seq,
                                        !.spent     = @ + amount,
                                        !.available = @ - amount]
  <2>2. channels' = [channels EXCEPT ![c] = row]
    BY <1>2, <2>1, Zenon DEF SpendChannel
  <2>3. /\ row \in Channel
        /\ row.sequence = seq
        /\ row.status = "open"
        /\ row.available >= 0
        /\ row.spent >= 0
        /\ row.available + row.spent = row.deposited
    <3>1. /\ row.sequence = seq
          /\ row.status = "open"
          /\ row.deposited = channels[c].deposited
          /\ row.available = channels[c].available - amount
          /\ row.spent = channels[c].spent + amount
      BY <2>1
    <3>2. /\ channels[c].available - amount \in Int
          /\ channels[c].spent + amount \in Int
      BY <2>1
    <3>3. row \in Channel
      BY <2>1, <3>2, SpentRow
    <3> QED
      BY <2>1, <3>1, <3>3
  <2> HIDE DEF row
  <2>4. channels'[c] = row /\ \A d \in Channels \ {c} : channels'[d] = channels[d]
    BY <2>2
  <2>5. ChannelsTypeOK'
    BY <2>2, <2>3
  <2>6. ChannelConserved' /\ UnopenedIsBlank'
    BY <2>3, <2>4
  <2>7. ASSUME NEW d \in Channels
        PROVE  ChannelAdvances(d)
    BY <2>1, <2>3, <2>4
  <2> QED
    BY <2>5, <2>6, <2>7
<1>3. ASSUME NEW c \in Channels, CloseChannel(c)
      PROVE  ChannelsInv' /\ \A d \in Channels : ChannelAdvances(d)
  BY <1>3 DEF CloseChannel
<1>4. CASE UNCHANGED channels
  BY <1>4
<1> QED
  BY <1>1, <1>2, <1>3, <1>4 DEF ChannelsNext

\* No sequence of opens, spends and closes takes more from a channel than was
\* deposited, or loses track of it.
THEOREM ChannelsAreConserved == ChannelsSpec => []ChannelConserved
<1>1. ChannelsInv => ChannelConserved
  BY DEF ChannelsInv
<1>2. ChannelsInv /\ [ChannelsNext]_channels => ChannelsInv'
  BY ChannelsNextInv
<1> QED
  BY ChannelsInitInv, <1>1, <1>2, PTL DEF ChannelsSpec

\* Spends are strictly ordered by their sequence numbers and stop for good
\* when the channel is closed.
THEOREM ChannelSpendsAreOrdered == ChannelsSpec => SpendsAreOrdered
<1>1. ChannelsInv /\ [ChannelsNext]_channels => ChannelsInv'
  BY ChannelsNextInv
<1>2. ChannelsInv /\ [ChannelsNext]_channels =>
        [\A c \in Channels :
            /\ channels'[c].spent # channels[c].spent =>
                  /\ channels[c].status = "open"
                  /\ channels'[c].sequence > channels[c].sequence
            /\ channels[c].status = "closed" => channels'[c] = channels[c]
        ]_channels
  BY ChannelsNextInv DEF ChannelAdvances
<1> QED
  BY ChannelsInitInv, <1>1, <1>2, PTL DEF ChannelsSpec, SpendsAreOrdered

-----------------------------------------------------------------------------
(* Invoices *)

\* An invoice that was created has a price.
InvoicesPriced ==
    \A i \in Invoices : invoices[i].status # "none" => invoices[i].amount \in Amounts

InvoicesInv == InvoicesTypeOK /\ InvoicesPriced

\* The empty table satisfies the invariant of the invoices.
LEMMA InvoicesInitInv == InvoicesInit => InvoicesInv
  BY DEF InvoicesInit, InvoicesInv, InvoicesTypeOK, Invoice, NoInvoiceRow, InvoicesPriced

\* What a step does to any invoice, seen from outside.
InvoiceAdvances(i) ==
    /\ invoices[i].status \in {"paid", "expired"} =>
          /\ invoices'[i].status = invoices[i].status
          /\ invoices'[i].payer = invoices[i].payer
          /\ invoices'[i].proof_type = invoices[i].proof_type
    /\ invoices[i].status # "none" =>
          /\ invoices'[i].status # "none"
          /\ invoices'[i].amount = invoices[i].amount

\* Every operation of invoices.ts, and time, keeps the invariant.
LEMMA InvoicesNextInv ==
    InvoicesInv /\ [InvoicesNext]_invoices
        => InvoicesInv' /\ \A i \in Invoices : InvoiceAdvances(i)
<1> SUFFICES ASSUME InvoicesInv, [InvoicesNext]_invoices
             PROVE  InvoicesInv' /\ \A i \in Invoices : InvoiceAdvances(i)
  OBVIOUS
<1> USE DEF InvoicesInv, InvoicesTypeOK, InvoicesPriced, Invoice, InvoiceAdvances
<1>1. ASSUME NEW i \in Invoices, NEW amount \in Amounts, CreateInvoice(i, amount)
      PROVE  InvoicesInv' /\ \A j \in Invoices : InvoiceAdvances(j)
  BY <1>1 DEF CreateInvoice
<1>2. ASSUME NEW i \in Invoices, Lapse(i)
      PROVE  InvoicesInv' /\ \A j \in Invoices : InvoiceAdvances(j)
  BY <1>2 DEF Lapse
<1>3. ASSUME NEW i \in Invoices, NEW payer \in Wallets, NEW type \in ProofTypes,
             MarkInvoicePaid(i, payer, type)
      PROVE  InvoicesInv' /\ \A j \in Invoices : InvoiceAdvances(j)
  <2>1. CASE invoices[i].status # "pending"
    BY <1>3, <2>1 DEF MarkInvoicePaid
  <2>2. CASE invoices[i].status = "pending"
    <3> DEFINE row == [invoices[i] EXCEPT !.status = "paid", !.payer = payer,
                                          !.proof_type = type]
    <3>1. invoices' = [invoices EXCEPT ![i] = row]
      BY <1>3, <2>2 DEF MarkInvoicePaid
    <3>2. row \in Invoice /\ row.status = "paid" /\ row.amount = invoices[i].amount
      OBVIOUS
    <3> HIDE DEF row
    <3>3. invoices'[i] = row /\ \A j \in Invoices \ {i} : invoices'[j] = invoices[j]
      BY <3>1
    <3> QED
      BY <2>2, <3>1, <3>2, <3>3
  <2> QED
    BY <2>1, <2>2
<1>4. CASE ExpireInvoices
  BY <1>4 DEF ExpireInvoices, Overdue
<1>5. CASE UNCHANGED invoices
  BY <1>5
<1> QED
  BY <1>1, <1>2, <1>3, <1>4, <1>5 DEF InvoicesNext

\* Whichever of markInvoicePaid and expireInvoices comes first decides the
\* invoice for good, and its price never changes.
THEOREM InvoiceOutcomeIsFinal == InvoicesSpec => OutcomeIsFinal
<1>1. InvoicesInv /\ [InvoicesNext]_invoices => InvoicesInv'
  BY InvoicesNextInv
<1>2. InvoicesInv /\ [InvoicesNext]_invoices =>
        [\A i \in Invoices :
            /\ invoices[i].status \in {"paid", "expired"} =>
                  /\ invoices'[i].status = invoices[i].status
                  /\ invoices'[i].payer = invoices[i].payer
                  /\ invoices'[i].proof_type = invoices[i].proof_type
            /\ invoices[i].status # "none" => invoices'[i].amount = invoices[i].amount
        ]_invoices
  BY InvoicesNextInv DEF InvoiceAdvances
<1> QED
  BY InvoicesInitInv, <1>1, <1>2, PTL DEF InvoicesSpec, OutcomeIsFinal

=============================================================================
