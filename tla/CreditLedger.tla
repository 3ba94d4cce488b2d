---------------------------- MODULE CreditLedger ----------------------------
(***************************************************************************)
(* The prepaid credit accounts of the x402 facilitator and their journal:  *)
(* the tables credit_accounts and credit_transactions, and the operations  *)
(* of services/settle.ts on them.  Every operation of settle.ts that moves *)
(* money runs in one PostgreSQL transaction whose first statement is an    *)
(* UPDATE of the account's row, so the row stays locked until COMMIT and a *)
(* crash rolls everything back: such an operation is one action here (the  *)
(* module CreditTransactions has its statements and locks, and implements  *)
(* this one).  escrowLock and escrowRelease have no action: the schema     *)
(* refuses their journal entries, so that they always roll back.           *)
(*                                                                         *)
(* Data abstraction.  Timestamps, rail, tx_hash and the webhook that each  *)
(* operation announces are left out.                                       *)
(***************************************************************************)
EXTENDS X402Types, Sequences

CONSTANTS
    References,  \* what credit_transactions.reference holds (invoice ids, ...)
    MaxEntries   \* bound: no deposit once a journal is this long

ASSUME InvoicesAreReferences == Invoices \subseteq References
ASSUME MaxEntriesIsNat == MaxEntries \in Nat

VARIABLES
    accounts,    \* wallet -> its row of credit_accounts
    creditTx     \* wallet -> its rows of credit_transactions, oldest first

creditVars == <<accounts, creditTx>>

-----------------------------------------------------------------------------
\* Of the types that the CHECK of migration 002 allows, those that are written.
JournalTypes == {"deposit", "charge"}

Account == [exists  : BOOLEAN,
            balance : Int,
            frozen  : BOOLEAN,
            pubkey  : Keys \cup {None}]

JournalEntry == [type          : JournalTypes,
                 amount        : Amounts,
                 balance_after : Int,
                 reference     : References]

\* A wallet without a row: a balance of 0 for getBalance, and for the INSERT
\* with which deposit creates the row.
NoAccount == [exists |-> FALSE, balance |-> 0, frozen |-> FALSE, pubkey |-> None]

CreditsInit ==
    /\ accounts = [w \in Wallets |-> NoAccount]
    /\ creditTx = [w \in Wallets |-> << >>]

-----------------------------------------------------------------------------
\* getOrCreateAccount: SELECT, then INSERT ... ON CONFLICT DO UPDATE of
\* updated_at, which changes nothing when another call inserted the row first.
GetOrCreateAccount(w, key) ==
    /\ ~accounts[w].exists
    /\ accounts' = [accounts EXCEPT ![w] =
                      [NoAccount EXCEPT !.exists = TRUE, !.pubkey = key]]
    /\ UNCHANGED creditTx

\* registerPubkey: an UPDATE that matches the existing row only.
RegisterPubkey(w, key) ==
    /\ accounts[w].exists
    /\ accounts' = [accounts EXCEPT ![w].pubkey = key]
    /\ UNCHANGED creditTx

\* The row an operation appends to the journal; balance_after is the balance
\* that the UPDATE returned.
Journal(w, type, amount, balance, ref) ==
    creditTx' = [creditTx EXCEPT ![w] =
                   Append(@, [type          |-> type,
                              amount        |-> amount,
                              balance_after |-> balance,
                              reference     |-> ref])]

\* deposit: add to the balance, or insert the row when there is none.
Deposit(w, amount, ref) ==
    LET balance == accounts[w].balance + amount
    IN  /\ Len(creditTx[w]) < MaxEntries
        /\ accounts' = [accounts EXCEPT ![w].exists = TRUE, ![w].balance = balance]
        /\ Journal(w, "deposit", amount, balance, ref)

\* WHERE wallet_address = $1 AND balance >= $2 AND frozen = false
CanDebit(w, amount) ==
    /\ accounts[w].exists
    /\ accounts[w].balance >= amount
    /\ ~accounts[w].frozen

\* charge.  When the UPDATE matches no row the transaction rolls back and
\* InsufficientBalanceError is thrown: no step here.
Charge(w, amount, ref) ==
    LET balance == accounts[w].balance - amount
    IN  /\ CanDebit(w, amount)
        /\ accounts' = [accounts EXCEPT ![w].balance = balance]
        /\ Journal(w, "charge", amount, balance, ref)

\* External: the frozen column is read by charge and escrowLock, and no code
\* of the repository writes it: an administrator does, in the database.
SetFrozen(w, frozen) ==
    /\ accounts[w].exists
    /\ accounts[w].frozen # frozen
    /\ accounts' = [accounts EXCEPT ![w].frozen = frozen]
    /\ UNCHANGED creditTx

CreditsNext ==
    \E w \in Wallets :
        \/ \E key \in Keys \cup {None} : GetOrCreateAccount(w, key)
        \/ \E key \in Keys : RegisterPubkey(w, key)
        \/ \E frozen \in BOOLEAN : SetFrozen(w, frozen)
        \/ \E amount \in Amounts, ref \in References :
              \/ Deposit(w, amount, ref)
              \/ Charge(w, amount, ref)

CreditsSpec == CreditsInit /\ [][CreditsNext]_creditVars

-----------------------------------------------------------------------------
(* Properties *)

\* Type invariant of the two tables.
CreditsTypeOK ==
    /\ accounts \in [Wallets -> Account]
    /\ creditTx \in [Wallets -> Seq(JournalEntry)]

Signed(entry) ==
    IF entry.type = "deposit" THEN entry.amount ELSE -entry.amount

\* The balance that the first n entries of w's journal account for.
JournalBalance(w, n) ==
    IF n = 0 THEN 0 ELSE creditTx[w][n].balance_after

\* Every entry's balance_after is the previous entry's plus or minus its own
\* amount: concurrent deposits and charges never lose an update.
EntriesChain ==
    \A w \in Wallets : \A n \in 1..Len(creditTx[w]) :
        creditTx[w][n].balance_after
            = JournalBalance(w, n - 1) + Signed(creditTx[w][n])

\* The account's balance is the one its journal ends with: no money appears or
\* disappears without an entry in credit_transactions.
BalanceIsJournaled ==
    \A w \in Wallets : accounts[w].balance = JournalBalance(w, Len(creditTx[w]))

\* No interleaving of charges overdraws an account, at any point of
\* its history (the schema has no CHECK that would stop it).
NeverOverdrawn ==
    \A w \in Wallets :
        /\ accounts[w].balance >= 0
        /\ \A n \in 1..Len(creditTx[w]) : creditTx[w][n].balance_after >= 0

\* A wallet without a row counts as empty, so that creating its row moves no
\* money.
RowlessIsEmpty ==
    \A w \in Wallets : ~accounts[w].exists => accounts[w].balance = 0

\* The audit trail of settle.ts is complete and consistent.
LedgerAudit ==
    EntriesChain /\ BalanceIsJournaled /\ NeverOverdrawn /\ RowlessIsEmpty

=============================================================================
