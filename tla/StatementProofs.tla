--------------------------- MODULE StatementProofs ---------------------------
(***************************************************************************)
(* Theorems about the two components that are modelled statement by        *)
(* statement, with nothing in common but that: the transactions of         *)
(* settle.ts, and the receipts on their way to the chain.                  *)
(*                                                                         *)
(* Transactions: for any number of sessions, the row locks keep every open *)
(* transaction's work valid, and the committed tables change exactly as    *)
(* CreditLedger says, so that its audit holds with real concurrency and    *)
(* rollbacks.  TxnInv is inductive.  To LocksProtectWork it adds what a    *)
(* commit relies on: a debit that has passed its UPDATE still could be     *)
(* made (CanDebit, for nobody else can change the locked row), only        *)
(* allowed types of journal entry get to COMMIT, and a wallet without a    *)
(* row is blank, so that an INSERT writes what an UPDATE of the blank row  *)
(* would.  Room is about the model's bound alone.                          *)
(*                                                                         *)
(* Receipts (ReceiptBatcher over Anchoring): for any receipts, batches,    *)
(* batch size, callers, sweep limit and number of attempts, with restarts, *)
(* failed queries and lost answers.  ReceiptInv is inductive.  BatchedOnce *)
(* needs that whatever is queued or under a root is stored, so that a new  *)
(* receipt is fresh, and that an unused batch has no receipts;             *)
(* TagsMatchRoots needs BatchedOnce, and that a flush tags only after its  *)
(* root is stored; AnchorsAreReal needs that calls work on stored batches  *)
(* and record a transaction the chain has.                                 *)
(***************************************************************************)
EXTENDS CreditTransactions, ReceiptBatcher, LedgerProofs, FiniteSetTheorems

-----------------------------------------------------------------------------
(* The transactions *)

Statements == {"idle", "update", "insert", "journal", "commit", "rollback"}

\* The sessions that work on w's account.
Active(w) == {s \in Sessions : op(s).wallet = w}

\* What the work of a session promises at each of its statements.
SessionOK(s) ==
    /\ stmt[s] = "idle" => work[s] = Idle
    /\ stmt[s] # "idle" => work[s] \in Work
    /\ stmt[s] = "insert" => op(s).type \in CreditTypes
    /\ stmt[s] \in {"journal", "commit"} =>
          /\ rowLock[op(s).wallet] = s
          /\ work[s].row = [Updated(op(s), row(op(s).wallet)) EXCEPT !.exists = TRUE]
          /\ op(s).type \in DebitTypes => CanDebit(op(s).wallet, op(s).amount)
    /\ stmt[s] = "commit" => op(s).type \in JournalTypes

LockOK(w) ==
    rowLock[w] # None =>
        /\ stmt[rowLock[w]] \in {"journal", "commit", "rollback"}
        /\ op(rowLock[w]).wallet = w

RowlessIsBlank == \A w \in Wallets : ~accounts[w].exists => accounts[w] = NoAccount

TablesOK ==
    /\ stmt \in [Sessions -> Statements]
    /\ work \in [Sessions -> Work \cup {Idle}]
    /\ rowLock \in [Wallets -> Sessions \cup {None}]

\* The journal keeps room for the entries of the sessions at work.
Room ==
    \A w \in Wallets :
        Active(w) # {} => Len(creditTx[w]) + Cardinality(Active(w)) <= MaxEntries

TxnInv ==
    /\ CreditsInv
    /\ RowlessIsBlank
    /\ TablesOK
    /\ \A s \in Sessions : SessionOK(s)
    /\ \A w \in Wallets : LockOK(w)
    /\ Room

-----------------------------------------------------------------------------
(* Consequences of the invariant *)

\* A session that is not idle works on an operation of a wallet.
LEMMA WorkTypes ==
    ASSUME TxnInv, NEW s \in Sessions, stmt[s] # "idle"
    PROVE  /\ work[s] \in Work
           /\ op(s) \in Operations
           /\ op(s).wallet \in Wallets
           /\ op(s).amount \in Amounts
           /\ op(s).reference \in References
           /\ op(s).type \in CreditTypes \cup DebitTypes
           /\ s \in Active(op(s).wallet)
  BY DEF TxnInv, SessionOK, Work, Operations, op, Active

\* Who holds a lock is a session, at a statement that may hold one.
LEMMA LockHolder ==
    ASSUME TxnInv, NEW w \in Wallets, NEW s \in Sessions, rowLock[w] = s
    PROVE  /\ stmt[s] \in {"journal", "commit", "rollback"}
           /\ op(s).wallet = w
  BY NoneIsNoSession DEF TxnInv, LockOK

\* The number of sessions at work on an account.
LEMMA ActiveIsFinite ==
    ASSUME NEW w
    PROVE  /\ IsFiniteSet(Active(w))
           /\ Cardinality(Active(w)) \in Nat
<1>1. Active(w) \in SUBSET Sessions
  BY DEF Active
<1> QED
  BY <1>1, SessionsAreFinite, FS_Subset, FS_CardinalityType

\* A journal has a length.
LEMMA JournaledLength ==
    ASSUME TxnInv, NEW w \in Wallets
    PROVE  Len(creditTx[w]) \in Nat
  BY AppendEntry DEF TxnInv, CreditsInv, CreditsTypeOK

\* What COMMIT publishes is one deposit or one charge of the ledger.
LEMMA CommitIsOneOperation ==
    ASSUME TxnInv, NEW s \in Sessions, Commit(s)
    PROVE  \/ Deposit(op(s).wallet, op(s).amount, op(s).reference)
           \/ Charge(op(s).wallet, op(s).amount, op(s).reference)
<1> DEFINE w == op(s).wallet
           o == op(s)
<1>1. /\ w \in Wallets
      /\ o \in Operations
      /\ s \in Active(w)
      /\ accounts \in [Wallets -> Account]
      /\ accounts[w] \in Account
      /\ o.amount \in Nat
  BY WorkTypes, AmountsArePositive DEF Commit, TxnInv, CreditsInv, CreditsTypeOK
<1>2. /\ work[s].row = [Updated(o, accounts[w]) EXCEPT !.exists = TRUE]
      /\ o.type \in DebitTypes => CanDebit(w, o.amount)
      /\ o.type \in JournalTypes
  BY DEF Commit, TxnInv, SessionOK, row
<1>3. /\ accounts' = [accounts EXCEPT ![w] = work[s].row]
      /\ Journal(w, o.type, o.amount, work[s].row.balance, o.reference)
  BY DEF Commit
<1>4. Len(creditTx[w]) < MaxEntries
  <2>1. Cardinality(Active(w)) \in Nat /\ Cardinality(Active(w)) # 0
    BY <1>1, ActiveIsFinite, FS_EmptySet
  <2>2. Len(creditTx[w]) + Cardinality(Active(w)) <= MaxEntries
    BY <1>1 DEF TxnInv, Room
  <2> QED
    BY <1>1, <2>1, <2>2, JournaledLength, MaxEntriesIsNat
<1> HIDE DEF w, o
<1>5. CASE o.type = "deposit"
  <2>1. work[s].row = [accounts[w] EXCEPT !.balance = @ + o.amount, !.exists = TRUE]
    BY <1>1, <1>2, <1>5 DEF Updated, CreditTypes, Account
  <2>2. accounts' = [accounts EXCEPT ![w].exists = TRUE,
                                     ![w].balance = accounts[w].balance + o.amount]
    BY <1>1, <1>3, <2>1 DEF Account
  <2>3. work[s].row.balance = accounts[w].balance + o.amount
    BY <1>1, <2>1 DEF Account
  <2> QED
    BY <1>3, <1>4, <1>5, <2>2, <2>3 DEF Deposit, w, o
<1>6. CASE o.type = "charge"
  <2>1. /\ accounts[w].exists
        /\ CanDebit(w, o.amount)
    BY <1>2, <1>6 DEF DebitTypes, CanDebit
  <2>2. work[s].row = [accounts[w] EXCEPT !.balance = @ - o.amount]
    BY <1>1, <1>2, <1>6, <2>1 DEF Updated, CreditTypes, Account
  <2>3. /\ accounts' = [accounts EXCEPT ![w].balance = accounts[w].balance - o.amount]
        /\ work[s].row.balance = accounts[w].balance - o.amount
    BY <1>1, <1>3, <2>2 DEF Account
  <2> QED
    BY <1>3, <1>6, <2>1, <2>3 DEF Charge, w, o
<1> QED
  BY <1>2, <1>5, <1>6 DEF JournalTypes

\* Every step of a session or of a single statement is one operation of the
\* ledger, or none.
LEMMA StepOfCredits ==
    ASSUME TxnInv, [TxnNext]_sessionVars
    PROVE  [CreditsNext]_creditVars
<1>1. ASSUME SingleStatement PROVE CreditsNext
  BY <1>1 DEF SingleStatement, CreditsNext
<1>2. ASSUME NEW s \in Sessions, Commit(s) PROVE CreditsNext
  <2>1. stmt[s] # "idle"
    BY <1>2 DEF Commit
  <2> QED
    BY <1>2, <2>1, WorkTypes, CommitIsOneOperation DEF CreditsNext
<1>3. ASSUME NEW s \in Sessions,
             \/ \E o \in Operations : Begin(s, o)
             \/ UpdateRow(s) \/ UpdateNothing(s) \/ InsertRow(s) \/ InsertRefused(s)
             \/ InsertJournal(s) \/ Rollback(s) \/ Fail(s)
      PROVE  UNCHANGED creditVars
  BY <1>3 DEF Begin, UpdateRow, UpdateNothing, InsertRow, InsertRefused, InsertJournal,
              Rollback, Fail, Undo, creditVars
<1>4. ASSUME UNCHANGED sessionVars PROVE UNCHANGED creditVars
  BY <1>4 DEF sessionVars, creditVars
<1> QED
  BY <1>1, <1>2, <1>3, <1>4 DEF TxnNext

-----------------------------------------------------------------------------
(* What a step leaves alone *)

\* The accounts keep their audit and stay blank without a row.
LEMMA TablesKept ==
    ASSUME TxnInv, [TxnNext]_sessionVars
    PROVE  CreditsInv' /\ RowlessIsBlank'
<1>1. [CreditsNext]_creditVars
  BY StepOfCredits
<1>2. CreditsInv'
  BY <1>1, CreditsNextInv DEF TxnInv
<1>3. RowlessIsBlank'
  <2> SUFFICES ASSUME NEW v \in Wallets, ~accounts'[v].exists
               PROVE  accounts'[v] = NoAccount
    BY DEF RowlessIsBlank
  <2>1. accounts \in [Wallets -> Account]
    BY DEF TxnInv, CreditsInv, CreditsTypeOK
  <2>2. ~accounts[v].exists => accounts[v] = NoAccount
    BY DEF TxnInv, RowlessIsBlank
  <2>3. accounts'[v] = accounts[v]
    BY <1>1, <2>1
       DEF CreditsNext, creditVars, GetOrCreateAccount, RegisterPubkey, SetFrozen, Deposit,
           Charge, CanDebit, NoAccount, Account
  <2> QED
    BY <2>2, <2>3
<1> QED
  BY <1>2, <1>3

\* A session that does not move keeps its promise as long as the rows it has
\* locked stay as they are, and stay locked by it.
LEMMA SessionKept ==
    ASSUME TxnInv, NEW t \in Sessions,
           stmt'[t] = stmt[t], work'[t] = work[t],
           \A w \in Wallets : rowLock[w] = t => /\ rowLock'[w] = t
                                               /\ accounts'[w] = accounts[w]
    PROVE  SessionOK(t)'
<1>1. SessionOK(t)
  BY DEF TxnInv
<1>2. CASE stmt[t] \in {"journal", "commit"}
  <2>1. op(t).wallet \in Wallets /\ rowLock[op(t).wallet] = t
    BY <1>1, <1>2, WorkTypes DEF SessionOK
  <2>2. /\ op(t)' = op(t)
        /\ rowLock'[op(t).wallet] = t
        /\ accounts'[op(t).wallet] = accounts[op(t).wallet]
    BY <2>1 DEF op
  <2> QED
    BY <1>1, <1>2, <2>2 DEF SessionOK, Updated, CanDebit, row
<1>3. CASE stmt[t] \notin {"journal", "commit"}
  BY <1>1, <1>3 DEF SessionOK, op
<1> QED
  BY <1>2, <1>3

\* What is left to show of a step of session s: that its own promise and its
\* own locks are right, and that it takes no other session's lock or row.
LEMMA SessionStep ==
    ASSUME TxnInv, TxnNext, NEW s \in Sessions,
           TablesOK', Room', SessionOK(s)',
           \A t \in Sessions \ {s} : stmt'[t] = stmt[t] /\ work'[t] = work[t],
           \A w \in Wallets :
               /\ rowLock'[w] \in {rowLock[w], s, None}
               /\ rowLock[w] \notin {s, None} => /\ rowLock'[w] = rowLock[w]
                                                /\ accounts'[w] = accounts[w]
               /\ rowLock'[w] = s => /\ stmt'[s] \in {"journal", "commit", "rollback"}
                                     /\ op(s)'.wallet = w
    PROVE  TxnInv'
<1>1. ASSUME NEW t \in Sessions, t # s PROVE SessionOK(t)'
  <2>1. \A w \in Wallets : rowLock[w] = t => /\ rowLock'[w] = t
                                            /\ accounts'[w] = accounts[w]
    BY <1>1, NoneIsNoSession
  <2> QED
    BY <1>1, <2>1, SessionKept
<1>2. ASSUME NEW w \in Wallets PROVE LockOK(w)'
  <2> SUFFICES ASSUME rowLock'[w] # None, rowLock'[w] # s
               PROVE  /\ stmt'[rowLock'[w]] \in {"journal", "commit", "rollback"}
                      /\ work'[rowLock'[w]].op.wallet = w
    BY DEF LockOK, op
  <2>1. rowLock'[w] = rowLock[w] /\ rowLock[w] \in Sessions
    BY DEF TxnInv, TablesOK
  <2>2. /\ stmt'[rowLock[w]] = stmt[rowLock[w]]
        /\ work'[rowLock[w]] = work[rowLock[w]]
    BY <2>1
  <2> QED
    BY <2>1, <2>2, LockHolder DEF op
<1>3. CreditsInv' /\ RowlessIsBlank'
  BY TablesKept
<1> QED
  BY <1>1, <1>2, <1>3 DEF TxnInv

\* A step that starts no operation and appends no entry leaves the room.
LEMMA RoomKept ==
    ASSUME TxnInv, UNCHANGED creditTx,
           \A t \in Sessions : op(t)'.wallet \in {op(t).wallet, None}
    PROVE  Room'
<1> SUFFICES ASSUME NEW w \in Wallets, Active(w)' # {}
             PROVE  Len(creditTx'[w]) + Cardinality(Active(w)') <= MaxEntries
  BY DEF Room
<1>1. Active(w)' \in SUBSET Active(w)
  BY NoneIsNoValue DEF Active
<1>2. /\ Cardinality(Active(w)') \in Nat
      /\ Cardinality(Active(w)') <= Cardinality(Active(w))
  BY <1>1, ActiveIsFinite, FS_Subset, FS_CardinalityType
<1>3. Len(creditTx[w]) + Cardinality(Active(w)) <= MaxEntries
  BY <1>1 DEF TxnInv, Room
<1> QED
  BY <1>2, <1>3, ActiveIsFinite, JournaledLength, MaxEntriesIsNat

\* The bound admits an operation only when its entry has room too.
LEMMA RoomAfterBegin ==
    ASSUME TxnInv, NEW s \in Sessions, NEW o \in Operations, Begin(s, o)
    PROVE  Room'
<1> SUFFICES ASSUME NEW w \in Wallets, Active(w)' # {}
             PROVE  Len(creditTx'[w]) + Cardinality(Active(w)') <= MaxEntries
  BY DEF Room
<1>1. /\ creditTx' = creditTx
      /\ op(s)' = o
      /\ \A t \in Sessions \ {s} : op(t)' = op(t)
  BY DEF Begin, TxnInv, TablesOK, op
<1>2. op(s) = NoOperation
  <2>1. work[s] = Idle
    BY DEF Begin, TxnInv, SessionOK
  <2> QED
    BY <2>1 DEF Idle, op
<1>3. CASE w = o.wallet
  <2>1. Active(w)' = Active(w) \cup {s}
    BY <1>1, <1>3 DEF Active
  <2>2. Cardinality(Active(w) \cup {s})
          \in {Cardinality(Active(w)), Cardinality(Active(w)) + 1}
    BY ActiveIsFinite, FS_AddElement
  <2>3. Len(creditTx[w]) + Cardinality(Active(w)) < MaxEntries
    BY <1>3 DEF Begin, WithinBound, Active
  <2> QED
    BY <1>1, <2>1, <2>2, <2>3, ActiveIsFinite, JournaledLength, MaxEntriesIsNat
<1>4. CASE w # o.wallet
  <2>1. Active(w)' = Active(w)
    BY <1>2, <1>1, <1>4, NoneIsNoValue DEF Active, NoOperation
  <2> QED
    BY <1>1, <2>1 DEF TxnInv, Room
<1> QED
  BY <1>3, <1>4

\* A commit uses the room that was kept for it.
LEMMA RoomAfterCommit ==
    ASSUME TxnInv, NEW s \in Sessions, Commit(s)
    PROVE  Room'
<1> DEFINE v == op(s).wallet
<1> SUFFICES ASSUME NEW w \in Wallets, Active(w)' # {}
             PROVE  Len(creditTx'[w]) + Cardinality(Active(w)') <= MaxEntries
  BY DEF Room
<1>1. /\ v \in Wallets
      /\ s \in Active(v)
      /\ op(s)' = NoOperation
      /\ \A t \in Sessions \ {s} : op(t)' = op(t)
  BY WorkTypes DEF Commit, TxnInv, TablesOK, Idle, op
<1>2. CASE w = v
  <2>1. Active(w)' = Active(w) \ {s}
    BY <1>1, <1>2, NoneIsNoValue DEF Active, NoOperation
  <2>2. Cardinality(Active(w)') = Cardinality(Active(w)) - 1
    BY <1>1, <1>2, <2>1, ActiveIsFinite, FS_RemoveElement
  <2>3. Len(creditTx[w]) + Cardinality(Active(w)) <= MaxEntries
    BY <1>1, <1>2 DEF TxnInv, Room
  <2>4. Len(creditTx'[w]) = Len(creditTx[w]) + 1
    <3> DEFINE e == [type |-> op(s).type, amount |-> op(s).amount,
                     balance_after |-> work[s].row.balance, reference |-> op(s).reference]
    <3>1. creditTx' = [creditTx EXCEPT ![v] = Append(@, e)]
      BY DEF Commit, Journal
    <3> HIDE DEF e
    <3>2. creditTx \in [Wallets -> Seq(JournalEntry)]
      BY DEF TxnInv, CreditsInv, CreditsTypeOK
    <3>3. creditTx'[w] = Append(creditTx[w], e)
      BY <1>1, <1>2, <3>1, <3>2
    <3> QED
      BY <3>2, <3>3
  <2> QED
    BY <2>2, <2>3, <2>4, ActiveIsFinite, JournaledLength, MaxEntriesIsNat
<1>3. CASE w # v
  <2>1. Active(w)' = Active(w)
    BY <1>1, <1>3, NoneIsNoValue DEF Active, NoOperation
  <2>2. creditTx'[w] = creditTx[w]
    BY <1>1, <1>3 DEF Commit, Journal, TxnInv, CreditsInv, CreditsTypeOK
  <2> QED
    BY <2>1, <2>2 DEF TxnInv, Room
<1> QED
  BY <1>2, <1>3

-----------------------------------------------------------------------------
(* Each step preserves the invariant *)

\* BEGIN promises nothing yet.
LEMMA BeginInv ==
    ASSUME TxnInv, NEW s \in Sessions, NEW o \in Operations, Begin(s, o)
    PROVE  TxnInv'
<1>1. TxnNext
  BY DEF TxnNext
<1>2. [op |-> o, row |-> NoAccount] \in Work
  BY DEF Work, NoAccount, Account
<1>3. TablesOK'
  BY <1>2 DEF Begin, TxnInv, TablesOK, Statements
<1>4. SessionOK(s)'
  BY <1>2 DEF Begin, TxnInv, TablesOK, SessionOK
<1>5. \A w \in Wallets : rowLock'[w] # s
  BY LockHolder DEF Begin
<1> QED
  BY <1>1, <1>3, <1>4, <1>5, RoomAfterBegin, SessionStep DEF Begin, TxnInv, TablesOK

\* Between BEGIN and COMMIT a session changes its own work alone: the tables
\* stay, and it keeps its operation.
LEMMA InnerStep ==
    ASSUME TxnInv, TxnNext, NEW s \in Sessions, stmt[s] # "idle",
           UNCHANGED creditVars,
           NEW next \in Statements \ {"idle"}, stmt' = [stmt EXCEPT ![s] = next],
           NEW newRow \in Account, work' = [work EXCEPT ![s].row = newRow],
           rowLock' \in {rowLock, [rowLock EXCEPT ![op(s).wallet] = s]},
           rowLock' # rowLock => rowLock[op(s).wallet] = None,
           (\E w \in Wallets : rowLock'[w] = s) => next \in {"journal", "commit", "rollback"},
           SessionOK(s)'
    PROVE  TxnInv'
<1>1. /\ op(s).wallet \in Wallets
      /\ work[s] \in Work
      /\ op(s) \in Operations
      /\ TablesOK
  BY WorkTypes DEF TxnInv
<1>2. /\ work'[s] = [op |-> op(s), row |-> newRow]
      /\ work'[s] \in Work
      /\ \A t \in Sessions \ {s} : work'[t] = work[t]
  BY <1>1 DEF TablesOK, Work, op
<1>3. TablesOK'
  BY <1>1, <1>2 DEF TablesOK
<1>4. \A t \in Sessions : op(t)' = op(t)
  BY <1>2 DEF op
<1>5. Room'
  BY <1>4, RoomKept DEF creditVars
<1>6. ASSUME NEW w \in Wallets
      PROVE  /\ rowLock'[w] \in {rowLock[w], s, None}
             /\ rowLock[w] \notin {s, None} => rowLock'[w] = rowLock[w]
             /\ rowLock'[w] = s => op(s)'.wallet = w
  BY <1>1, <1>4, LockHolder DEF TablesOK
<1> QED
  BY <1>1, <1>2, <1>3, <1>5, <1>6, SessionStep DEF creditVars, TablesOK

\* A statement that writes nothing: an UPDATE without a match, a refused
\* INSERT, or the journal entry that waits for its commit.
LEMMA QuietStatement ==
    ASSUME TxnInv, TxnNext, NEW s \in Sessions,
           NEW next \in {"insert", "commit", "rollback"},
           stmt[s] \in {"update", "insert", "journal"},
           stmt' = [stmt EXCEPT ![s] = next],
           UNCHANGED <<accounts, creditTx, work, rowLock>>,
           next = "insert" => op(s).type \in CreditTypes,
           next = "insert" => stmt[s] = "update",
           next = "commit" => stmt[s] = "journal" /\ op(s).type \in JournalTypes
    PROVE  TxnInv'
<1>1. work[s] \in Work /\ TablesOK /\ SessionOK(s)
  BY WorkTypes DEF TxnInv
<1>2. work[s].row \in Account /\ work' = [work EXCEPT ![s].row = work[s].row]
  BY <1>1 DEF TablesOK, Work
<1>3. stmt'[s] = next
  BY <1>1 DEF TablesOK
<1>4. SessionOK(s)'
  BY <1>1, <1>3 DEF SessionOK, op, row, Updated, CanDebit
<1>5. (\E w \in Wallets : rowLock'[w] = s) => next \in {"journal", "commit", "rollback"}
  BY LockHolder
<1> QED
  BY <1>2, <1>4, <1>5, InnerStep DEF Statements, creditVars

\* UPDATE: the row it takes is the committed one, and it alone may change it now.
LEMMA UpdateRowInv ==
    ASSUME TxnInv, NEW s \in Sessions, UpdateRow(s)
    PROVE  TxnInv'
<1> DEFINE o == op(s)
           w == op(s).wallet
           new == Updated(o, accounts[w])
<1>1. /\ TxnNext
      /\ TablesOK
      /\ w \in Wallets
      /\ work[s] \in Work
      /\ accounts[w] \in Account
      /\ o.amount \in Nat
      /\ o.type \in CreditTypes \cup DebitTypes
      /\ rowLock[w] = None
      /\ Matches(o)
  BY WorkTypes, AmountsArePositive
     DEF TxnNext, TxnInv, UpdateRow, CreditsInv, CreditsTypeOK
<1>2. new \in Account /\ accounts[w].exists
  BY <1>1 DEF Updated, Account, Matches, CanDebit, row
<1>3. new = [new EXCEPT !.exists = TRUE]
  BY <1>1, <1>2 DEF Updated, Account
<1>4. /\ stmt' = [stmt EXCEPT ![s] = "journal"]
      /\ work' = [work EXCEPT ![s].row = new]
      /\ rowLock' = [rowLock EXCEPT ![w] = s]
      /\ UNCHANGED creditVars
  BY DEF UpdateRow, row, creditVars
<1>5. /\ stmt'[s] = "journal"
      /\ work'[s] = [op |-> o, row |-> new]
      /\ rowLock'[w] = s
  BY <1>1, <1>4 DEF TablesOK, Work, op
<1>6. o.type \in DebitTypes => CanDebit(w, o.amount)
  BY <1>1 DEF Matches, CreditTypes, DebitTypes
<1> HIDE DEF new
<1>7. SessionOK(s)'
  <2>1. op(s)' = o
    BY <1>5 DEF op
  <2>2. accounts' = accounts
    BY <1>4 DEF creditVars
  <2>3. work'[s] \in Work
    BY <1>1, <1>2, <1>5 DEF Work, op
  <2>4. work'[s].row = [Updated(o, accounts[w]) EXCEPT !.exists = TRUE]
    BY <1>3, <1>5 DEF new
  <2> QED
    BY <1>5, <1>6, <2>1, <2>2, <2>3, <2>4 DEF SessionOK, Updated, CanDebit, row
<1> QED
  BY <1>1, <1>2, <1>4, <1>7, InnerStep DEF UpdateRow, Statements

\* The row of a first deposit: an INSERT of the amount, and an UPDATE of an
\* empty row by it, make the same.
LEMMA FirstRow ==
    ASSUME NEW r \in Account, r.balance = 0, NEW n \in Int
    PROVE  /\ [r EXCEPT !.exists = TRUE, !.balance = n] \in Account
           /\ [r EXCEPT !.exists = TRUE, !.balance = n]
                = [[r EXCEPT !.balance = @ + n] EXCEPT !.exists = TRUE]
<1>1. [r EXCEPT !.exists = TRUE, !.balance = n] \in Account
  BY DEF Account
<1>2. r.balance + n = n
  OBVIOUS
<1>3. [r EXCEPT !.exists = TRUE, !.balance = n]
        = [[r EXCEPT !.balance = n] EXCEPT !.exists = TRUE]
  BY DEF Account
<1> QED
  BY <1>1, <1>2, <1>3

\* INSERT of the account's row: what an UPDATE of the blank row would have left.
LEMMA InsertRowInv ==
    ASSUME TxnInv, NEW s \in Sessions, InsertRow(s)
    PROVE  TxnInv'
<1> DEFINE o == op(s)
           w == op(s).wallet
           new == [NoAccount EXCEPT !.exists = TRUE, !.balance = o.amount]
<1>1. /\ TxnNext
      /\ TablesOK
      /\ w \in Wallets
      /\ work[s] \in Work
      /\ o.amount \in Nat
      /\ o.type \in CreditTypes
      /\ accounts[w] = NoAccount
  BY WorkTypes, AmountsArePositive
     DEF TxnNext, TxnInv, InsertRow, SessionOK, RowlessIsBlank, row
<1>2. NoAccount \in Account /\ NoAccount.balance = 0 /\ o.amount \in Int
  BY <1>1 DEF NoAccount, Account
<1>3. new \in Account
  BY <1>2, FirstRow
<1>4. new = [Updated(o, NoAccount) EXCEPT !.exists = TRUE]
  BY <1>1, <1>2, FirstRow DEF Updated
<1>5. /\ stmt' = [stmt EXCEPT ![s] = "journal"]
      /\ work' = [work EXCEPT ![s].row = new]
      /\ rowLock' = [rowLock EXCEPT ![w] = s]
      /\ UNCHANGED creditVars
  BY DEF InsertRow, creditVars
<1> HIDE DEF new
<1>6. /\ stmt'[s] = "journal"
      /\ work'[s] = [op |-> o, row |-> new]
      /\ work'[s] \in Work
      /\ rowLock'[w] = s
  BY <1>1, <1>3, <1>5 DEF TablesOK, Work, op
<1>7. SessionOK(s)'
  <2>1. op(s)' = o
    BY <1>6 DEF op
  <2>2. accounts' = accounts
    BY <1>5 DEF creditVars
  <2>3. o.type \notin DebitTypes
    BY <1>1 DEF CreditTypes, DebitTypes
  <2>4. work'[s].row = [Updated(o, accounts[w]) EXCEPT !.exists = TRUE]
    BY <1>1, <1>4, <1>6
  <2> QED
    BY <1>6, <2>1, <2>2, <2>3, <2>4 DEF SessionOK, Updated, row
<1> QED
  BY <1>1, <1>3, <1>5, <1>7, InnerStep DEF InsertRow, Statements

\* The transition out of a transaction: the session forgets its work and its locks.
LEMMA BackToIdle ==
    ASSUME TxnInv, NEW s \in Sessions,
           stmt' = [stmt EXCEPT ![s] = "idle"], work' = [work EXCEPT ![s] = Idle]
    PROVE  /\ stmt' \in [Sessions -> Statements]
           /\ work' \in [Sessions -> Work \cup {Idle}]
           /\ SessionOK(s)'
           /\ op(s)'.wallet = None
           /\ \A t \in Sessions \ {s} : /\ stmt'[t] = stmt[t]
                                        /\ work'[t] = work[t]
                                        /\ op(t)' = op(t)
<1>1. TablesOK
  BY DEF TxnInv
<1>2. work'[s] = Idle /\ stmt'[s] = "idle"
  BY <1>1 DEF TablesOK
<1>3. SessionOK(s)'
  BY <1>2 DEF SessionOK
<1>4. op(s)'.wallet = None
  BY <1>2 DEF op, Idle, NoOperation
<1> QED
  BY <1>1, <1>3, <1>4 DEF TablesOK, Statements, op

\* COMMIT: the row was the session's alone, and is free again.
LEMMA CommitInv ==
    ASSUME TxnInv, NEW s \in Sessions, Commit(s)
    PROVE  TxnInv'
<1> DEFINE v == op(s).wallet
<1>1. /\ TxnNext
      /\ TablesOK
      /\ v \in Wallets
      /\ rowLock[v] = s
      /\ accounts \in [Wallets -> Account]
  BY WorkTypes DEF TxnNext, TxnInv, Commit, SessionOK, CreditsInv, CreditsTypeOK
<1>2. /\ accounts' = [accounts EXCEPT ![v] = work[s].row]
      /\ rowLock' = [rowLock EXCEPT ![v] = None]
      /\ stmt' = [stmt EXCEPT ![s] = "idle"]
      /\ work' = [work EXCEPT ![s] = Idle]
  BY DEF Commit
<1>3. TablesOK'
  BY <1>1, <1>2, BackToIdle DEF TablesOK
<1>4. ASSUME NEW w \in Wallets
      PROVE  /\ rowLock'[w] \in {rowLock[w], None}
             /\ rowLock'[w] # s
             /\ rowLock[w] \notin {s, None} => /\ rowLock'[w] = rowLock[w]
                                              /\ accounts'[w] = accounts[w]
  <2>1. rowLock[w] = s => w = v
    BY LockHolder
  <2> QED
    BY <1>1, <1>2, <2>1, NoneIsNoSession DEF TablesOK
<1> QED
  BY <1>1, <1>2, <1>3, <1>4, BackToIdle, RoomAfterCommit, SessionStep

\* ROLLBACK, for whatever reason.
LEMMA UndoInv ==
    ASSUME TxnInv, NEW s \in Sessions, Rollback(s) \/ Fail(s)
    PROVE  TxnInv'
<1>1. /\ TxnNext
      /\ TablesOK
      /\ Undo(s)
  BY DEF TxnNext, TxnInv, Rollback, Fail
<1>2. /\ UNCHANGED <<accounts, creditTx>>
      /\ rowLock' = [w \in Wallets |-> IF rowLock[w] = s THEN None ELSE rowLock[w]]
      /\ stmt' = [stmt EXCEPT ![s] = "idle"]
      /\ work' = [work EXCEPT ![s] = Idle]
  BY <1>1 DEF Undo
<1>3. TablesOK'
  BY <1>1, <1>2, BackToIdle DEF TablesOK
<1>4. ASSUME NEW w \in Wallets
      PROVE  /\ rowLock'[w] \in {rowLock[w], None}
             /\ rowLock'[w] # s
             /\ rowLock[w] \notin {s, None} => rowLock'[w] = rowLock[w]
  BY <1>2, NoneIsNoSession
<1>5. Room'
  BY <1>2, BackToIdle, RoomKept
<1> QED
  BY <1>1, <1>2, <1>3, <1>4, <1>5, BackToIdle, SessionStep

\* A statement on its own changes a row that no session has locked.
LEMMA SingleStatementInv ==
    ASSUME TxnInv, SingleStatement
    PROVE  TxnInv'
<1>1. /\ UNCHANGED <<creditTx, stmt, work, rowLock>>
      /\ \A w \in Wallets : rowLock[w] # None => accounts'[w] = accounts[w]
  BY DEF SingleStatement, txnVars, GetOrCreateAccount, RegisterPubkey, SetFrozen,
         TxnInv, CreditsInv, CreditsTypeOK
<1>2. CreditsInv' /\ RowlessIsBlank'
  BY TablesKept DEF TxnNext
<1>3. \A s \in Sessions : SessionOK(s)'
  BY <1>1, SessionKept, NoneIsNoSession
<1>4. TablesOK' /\ \A w \in Wallets : LockOK(w)'
  BY <1>1 DEF TxnInv, TablesOK, LockOK, op
<1>5. Room'
  BY <1>1, RoomKept DEF op
<1> QED
  BY <1>2, <1>3, <1>4, <1>5 DEF TxnInv

-----------------------------------------------------------------------------
(* The theorems *)

\* Idle sessions and empty tables satisfy the invariant.
LEMMA TxnInitInv == TxnInit => TxnInv
<1> SUFFICES ASSUME TxnInit
             PROVE  TxnInv
  OBVIOUS
<1>1. CreditsInv /\ RowlessIsBlank
  BY CreditsInitInv DEF TxnInit, CreditsInit, RowlessIsBlank
<1>2. TablesOK /\ \A s \in Sessions : SessionOK(s)
  BY DEF TxnInit, TablesOK, Statements, SessionOK
<1>3. \A w \in Wallets : LockOK(w)
  BY DEF TxnInit, LockOK
<1>4. \A w \in Wallets : Active(w) = {}
  <2>1. \A s \in Sessions : op(s).wallet = None
    BY DEF TxnInit, op, Idle, NoOperation
  <2> QED
    BY <2>1, NoneIsNoValue DEF Active
<1> QED
  BY <1>1, <1>2, <1>3, <1>4 DEF TxnInv, Room

\* Every step of every session preserves the invariant.
LEMMA TxnNextInv == TxnInv /\ [TxnNext]_sessionVars => TxnInv'
<1> SUFFICES ASSUME TxnInv, [TxnNext]_sessionVars
             PROVE  TxnInv'
  OBVIOUS
<1>1. ASSUME NEW s \in Sessions, UpdateNothing(s) PROVE TxnInv'
  BY <1>1, QuietStatement DEF UpdateNothing, TxnNext
<1>2. ASSUME NEW s \in Sessions, InsertRefused(s) PROVE TxnInv'
  BY <1>2, QuietStatement DEF InsertRefused, TxnNext
<1>3. ASSUME NEW s \in Sessions, InsertJournal(s) PROVE TxnInv'
  BY <1>3, QuietStatement DEF InsertJournal, TxnNext
<1>4. ASSUME UNCHANGED sessionVars PROVE TxnInv'
  <2>1. UNCHANGED creditVars /\ UNCHANGED <<stmt, work, rowLock>>
    BY <1>4 DEF sessionVars, creditVars
  <2>2. CreditsInv' /\ RowlessIsBlank'
    BY <1>4, TablesKept
  <2>3. \A s \in Sessions : SessionOK(s)'
    BY <2>1, SessionKept DEF creditVars
  <2>4. TablesOK' /\ \A w \in Wallets : LockOK(w)'
    BY <2>1 DEF TxnInv, TablesOK, LockOK, op
  <2>5. Room'
    BY <2>1, RoomKept DEF op, creditVars
  <2> QED
    BY <2>2, <2>3, <2>4, <2>5 DEF TxnInv
<1> QED
  BY <1>1, <1>2, <1>3, <1>4, SingleStatementInv, BeginInv, UpdateRowInv, InsertRowInv,
     CommitInv, UndoInv DEF TxnNext

\* The invariant of the sessions, for any number of them.
THEOREM TxnInvariant == TxnSpec => []TxnInv
  BY TxnInitInv, TxnNextInv, PTL DEF TxnSpec

\* Type correctness of the statement-level ledger.
THEOREM TxnTypeCorrect == TxnSpec => []TxnTypeOK
<1>1. TxnInv => TxnTypeOK
  BY DEF TxnInv, TxnTypeOK, CreditsInv, TablesOK, SessionOK, Statements
<1> QED
  BY <1>1, TxnInvariant, PTL

\* From its UPDATE to its COMMIT a transaction holds its account's row, and the
\* row it is going to publish is never stale, whatever the other sessions of
\* the pool do and whichever of them fail.
THEOREM LocksAreEnough == TxnSpec => []LocksProtectWork
<1>1. TxnInv => LocksProtectWork
  BY DEF TxnInv, LocksProtectWork, SessionOK, LockOK
<1> QED
  BY <1>1, TxnInvariant, PTL

\* The transactions of settle.ts are atomic: whatever their statements'
\* interleaving, the committed tables change by one operation at a time.
THEOREM TransactionsImplementLedger == TxnSpec => CreditsSpec
<1>1. TxnInit => CreditsInit
  BY DEF TxnInit
<1>2. TxnInv /\ [TxnNext]_sessionVars => [CreditsNext]_creditVars
  BY StepOfCredits
<1> QED
  BY <1>1, <1>2, TxnInvariant, PTL DEF TxnSpec, CreditsSpec

\* So no update of a balance is lost and no account is overdrawn.
THEOREM NoUpdateIsLost == TxnSpec => []LedgerAudit
  BY TransactionsImplementLedger, CreditsAreAudited, PTL

-----------------------------------------------------------------------------
(* The receipts *)

RowsTypeOK ==
    /\ Stored \subseteq Receipts
    /\ rows \in [Stored -> Batches \cup {NoBatch}]
QueueTypeOK == receiptQueue \in Seq(Receipts)
FlushTypeOK ==
    /\ flushes \in [Batches -> {"unused", "insert", "update", "done"}]
    /\ merkleRoot \in [Batches -> Seq(Receipts)]
AnchorTypeOK ==
    /\ created \in Seq(Batches)
    /\ anchorTx \in [Batches -> Nat]
    /\ chain \in [Batches -> 0..MaxCopies]
    /\ calls \in [Callers -> Call]
    /\ circuit \in {"closed", "open", "lapsed"}

\* What is queued or under a root is stored; an unused batch is empty.
KnownReceipts ==
    /\ ToSet(receiptQueue) \subseteq Stored
    /\ \A b \in Batches : ToSet(merkleRoot[b]) \subseteq Stored
    /\ \A b \in Batches : flushes[b] = "unused" => merkleRoot[b] = << >>

\* The UPDATE of a flush comes after its INSERT.
RootsFirst == \A b \in Batches : flushes[b] = "update" => b \in ToSet(created)

\* A call anchors stored batches, and records what the chain has.
CallsAreBacked ==
    \A c \in Callers :
        /\ calls[c].todo \subseteq ToSet(created)
        /\ calls[c].at # "idle" => calls[c].batch \in calls[c].todo
        /\ calls[c].at = "record" => calls[c].tx <= chain[calls[c].batch]

BatchingInv == RowsTypeOK /\ QueueTypeOK /\ FlushTypeOK /\ KnownReceipts /\ BatchedOnce
TaggingInv == RootsFirst /\ TagsMatchRoots
AnchoringInv == AnchorTypeOK /\ CallsAreBacked /\ AnchorsAreReal
ReceiptInv == BatchingInv /\ TaggingInv /\ AnchoringInv

-----------------------------------------------------------------------------
(* Sequences *)

\* The elements of a sequence and one more.
LEMMA AppendSet ==
    ASSUME NEW S, NEW s \in Seq(S), NEW e \in S
    PROVE  /\ Append(s, e) \in Seq(S)
           /\ ToSet(Append(s, e)) = ToSet(s) \cup {e}
           /\ IsInjective(s) /\ e \notin ToSet(s) => IsInjective(Append(s, e))
<1>1. /\ Append(s, e) \in Seq(S)
      /\ Len(s) \in Nat
      /\ DOMAIN s = 1..Len(s)
      /\ DOMAIN Append(s, e) = 1..(Len(s) + 1)
      /\ \A n \in 1..Len(s) : Append(s, e)[n] = s[n]
      /\ Append(s, e)[Len(s) + 1] = e
  OBVIOUS
<1>2. 1..(Len(s) + 1) = 1..Len(s) \cup {Len(s) + 1}
  BY <1>1
<1>3. ToSet(Append(s, e)) = ToSet(s) \cup {e}
  BY <1>1, <1>2 DEF ToSet
<1>4. IsInjective(s) /\ e \notin ToSet(s) => IsInjective(Append(s, e))
  BY <1>1, <1>2 DEF ToSet, IsInjective
<1>. QED  BY <1>1, <1>3, <1>4

\* splice: the first n elements and the others share nothing.
LEMMA SpliceSets ==
    ASSUME NEW S, NEW s \in Seq(S), NEW n \in 0..Len(s), IsInjective(s)
    PROVE  LET head == SubSeq(s, 1, n)
               tail == SubSeq(s, n + 1, Len(s))
           IN  /\ head \in Seq(S) /\ tail \in Seq(S)
               /\ IsInjective(head) /\ IsInjective(tail)
               /\ ToSet(head) \cap ToSet(tail) = {}
               /\ ToSet(head) \subseteq ToSet(s) /\ ToSet(tail) \subseteq ToSet(s)
<1>. DEFINE head == SubSeq(s, 1, n)
            tail == SubSeq(s, n + 1, Len(s))
<1>1. /\ Len(s) \in Nat /\ DOMAIN s = 1..Len(s)
      /\ head \in Seq(S) /\ tail \in Seq(S)
      /\ DOMAIN head = 1..n /\ DOMAIN tail = 1..(Len(s) - n)
      /\ \A i \in 1..n : head[i] = s[i]
      /\ \A i \in 1..(Len(s) - n) : tail[i] = s[n + i]
  OBVIOUS
<1>2. \A i \in 1..n : i \in DOMAIN s
  BY <1>1
<1>3. \A i \in 1..(Len(s) - n) : n + i \in DOMAIN s
  BY <1>1
<1>4. \A i \in 1..n, j \in 1..(Len(s) - n) : i # n + j
  BY <1>1
<1>. HIDE DEF head, tail
<1>5. ToSet(head) \subseteq ToSet(s) /\ ToSet(tail) \subseteq ToSet(s)
  BY <1>1, <1>2, <1>3 DEF ToSet
<1>6. ToSet(head) \cap ToSet(tail) = {}
  <2>. SUFFICES ASSUME NEW i \in 1..n, NEW j \in 1..(Len(s) - n), head[i] = tail[j]
                PROVE  FALSE
    BY <1>1 DEF ToSet
  <2>1. s[i] = s[n + j]
    BY <1>1
  <2>. QED  BY <2>1, <1>2, <1>3, <1>4 DEF IsInjective
<1>7. IsInjective(head)
  BY <1>1, <1>2 DEF IsInjective
<1>8. IsInjective(tail)
  <2>. SUFFICES ASSUME NEW i \in 1..(Len(s) - n), NEW j \in 1..(Len(s) - n), tail[i] = tail[j]
                PROVE  i = j
    BY <1>1 DEF IsInjective
  <2>1. s[n + i] = s[n + j]
    BY <1>1
  <2>2. n + i = n + j
    BY <2>1, <1>3 DEF IsInjective
  <2>. QED  BY <2>2, <1>1
<1>. QED  BY <1>1, <1>5, <1>6, <1>7, <1>8 DEF head, tail

\* The empty sequence.
LEMMA EmptySet == ToSet(<< >>) = {} /\ IsInjective(<< >>) /\ \A S : << >> \in Seq(S)
  BY DEF ToSet, IsInjective

-----------------------------------------------------------------------------
(* BatchedOnce *)

\* splice hands the receipts of a queue of fresh ones to one unused batch.
LEMMA SpliceBatches ==
    ASSUME FlushTypeOK, NEW q \in Seq(Receipts), NEW known,
           IsInjective(q), ToSet(q) \subseteq known,
           \A b \in Batches : /\ ToSet(merkleRoot[b]) \subseteq known
                              /\ IsInjective(merkleRoot[b])
                              /\ ToSet(merkleRoot[b]) \cap ToSet(q) = {}
                              /\ flushes[b] = "unused" => merkleRoot[b] = << >>,
           \A b \in Batches : \A b2 \in Batches \ {b} :
              ToSet(merkleRoot[b]) \cap ToSet(merkleRoot[b2]) = {},
           Splice(q)
    PROVE  /\ QueueTypeOK' /\ FlushTypeOK' /\ BatchedOnce'
           /\ ToSet(receiptQueue') \subseteq known
           /\ \A b \in Batches :
                 /\ ToSet(merkleRoot'[b]) \subseteq known
                 /\ flushes'[b] = "unused" => merkleRoot'[b] = << >>
                 /\ flushes'[b] = "update" => flushes[b] = "update"
                 /\ flushes[b] # "unused" => merkleRoot'[b] = merkleRoot[b]
<1>1. CASE q = << >>
  BY <1>1 DEF Splice, QueueTypeOK, FlushTypeOK, BatchedOnce
<1>2. CASE q # << >>
  <2>. DEFINE n == IF Len(q) < BATCH_SIZE THEN Len(q) ELSE BATCH_SIZE
              head == SubSeq(q, 1, n)
              tail == SubSeq(q, n + 1, Len(q))
  <2>1. PICK b \in Batches : /\ flushes[b] = "unused"
                             /\ flushes' = [flushes EXCEPT ![b] = "insert"]
                             /\ merkleRoot' = [merkleRoot EXCEPT ![b] = head]
                             /\ receiptQueue' = tail
    BY <1>2 DEF Splice
  <2>2. n \in 0..Len(q)
    BY BatchSizeIsPositive
  <2>3. /\ head \in Seq(Receipts) /\ tail \in Seq(Receipts)
        /\ IsInjective(head) /\ IsInjective(tail)
        /\ ToSet(head) \cap ToSet(tail) = {}
        /\ ToSet(head) \subseteq ToSet(q) /\ ToSet(tail) \subseteq ToSet(q)
    BY <2>2, SpliceSets
  <2>. HIDE DEF n, head, tail
  <2>4. QueueTypeOK' /\ FlushTypeOK'
    BY <2>1, <2>3 DEF QueueTypeOK, FlushTypeOK
  <2>5. /\ merkleRoot'[b] = head
        /\ \A x \in Batches \ {b} : merkleRoot'[x] = merkleRoot[x]
        /\ flushes'[b] = "insert"
        /\ \A x \in Batches \ {b} : flushes'[x] = flushes[x]
    BY <2>1 DEF FlushTypeOK
  <2>6. BatchedOnce'
    BY <2>1, <2>3, <2>5 DEF BatchedOnce
  <2>. QED  BY <2>1, <2>3, <2>4, <2>5, <2>6
<1>. QED  BY <1>1, <1>2

\* The receipts in the table when a row without a batch is added.
WithReceipt(r) == [x \in Stored \cup {r} |-> IF x = r THEN NoBatch ELSE rows[x]]

\* A new row has no batch, and the flush it may begin takes an unused one.
LEMMA NewReceipt ==
    ASSUME BatchingInv, TagsMatchRoots, NEW r \in Receipts, r \notin Stored, rows' = WithReceipt(r)
    PROVE  /\ RowsTypeOK' /\ Stored' = Stored \cup {r}
           /\ created' = created
              /\ (\A b \in Batches : flushes[b] # "unused" => merkleRoot'[b] = merkleRoot[b])
              => TagsMatchRoots'
<1>1. RowsTypeOK' /\ Stored' = Stored \cup {r}
  BY DEF BatchingInv, RowsTypeOK, Stored, WithReceipt
<1>2. ASSUME created' = created,
             \A b \in Batches : flushes[b] # "unused" => merkleRoot'[b] = merkleRoot[b]
      PROVE  TagsMatchRoots'
  <2>. SUFFICES ASSUME NEW x \in Stored', rows'[x] # NoBatch
                PROVE  /\ rows'[x] \in ToSet(created')
                       /\ {y \in Stored' : rows'[y] = rows'[x]} = ToSet(merkleRoot'[rows'[x]])
    BY DEF TagsMatchRoots
  <2>1. x \in Stored /\ rows'[x] = rows[x] /\ rows[x] \in Batches
    BY <1>1 DEF BatchingInv, RowsTypeOK, WithReceipt
  <2>. DEFINE b == rows[x]
  <2>2. b \in ToSet(created) /\ {y \in Stored : rows[y] = b} = ToSet(merkleRoot[b])
    BY <2>1 DEF TagsMatchRoots
  <2>3. flushes[b] # "unused"
    BY <2>1, <2>2, EmptySet DEF BatchingInv, KnownReceipts
  <2>4. \A y \in Stored' : rows'[y] = b <=> y \in Stored /\ rows[y] = b
    BY <1>1, <2>1, NoBatchIsNoBatch DEF BatchingInv, RowsTypeOK, WithReceipt
  <2>. QED  BY <1>1, <1>2, <2>1, <2>2, <2>3, <2>4
<1>. QED  BY <1>1, <1>2

\* createReceipt keeps the books of the batches.
LEMMA CreateReceiptInv ==
    ASSUME BatchingInv, TaggingInv, NEW r \in Receipts, CreateReceipt(r)
    PROVE  BatchingInv' /\ TaggingInv'
<1>. DEFINE q == Append(receiptQueue, r)
<1>1. r \notin Stored /\ rows' = WithReceipt(r) /\ created' = created
  BY DEF CreateReceipt, WithReceipt, anchorVars
<1>2. RowsTypeOK' /\ Stored' = Stored \cup {r}
  BY <1>1, NewReceipt DEF TaggingInv
<1>3. /\ q \in Seq(Receipts) /\ ToSet(q) = ToSet(receiptQueue) \cup {r} /\ IsInjective(q)
      /\ ToSet(q) \subseteq Stored'
  BY <1>1, <1>2, AppendSet DEF BatchingInv, QueueTypeOK, KnownReceipts, BatchedOnce
<1>4. \A b \in Batches : /\ ToSet(merkleRoot[b]) \subseteq Stored'
                         /\ IsInjective(merkleRoot[b])
                         /\ ToSet(merkleRoot[b]) \cap ToSet(q) = {}
                         /\ flushes[b] = "unused" => merkleRoot[b] = << >>
  BY <1>1, <1>2, <1>3 DEF BatchingInv, KnownReceipts, BatchedOnce
<1>5. \A b \in Batches : \A b2 \in Batches \ {b} :
         ToSet(merkleRoot[b]) \cap ToSet(merkleRoot[b2]) = {}
  BY DEF BatchingInv, BatchedOnce
<1>. HIDE DEF q
<1>6. CASE Splice(q)
  <2>1. /\ QueueTypeOK' /\ FlushTypeOK' /\ BatchedOnce'
        /\ ToSet(receiptQueue') \subseteq Stored'
        /\ \A b \in Batches :
              /\ ToSet(merkleRoot'[b]) \subseteq Stored'
              /\ flushes'[b] = "unused" => merkleRoot'[b] = << >>
              /\ flushes'[b] = "update" => flushes[b] = "update"
              /\ flushes[b] # "unused" => merkleRoot'[b] = merkleRoot[b]
    BY <1>3, <1>4, <1>5, <1>6, SpliceBatches DEF BatchingInv
  <2>2. BatchingInv' /\ RootsFirst'
    BY <1>1, <1>2, <2>1 DEF BatchingInv, TaggingInv, KnownReceipts, RootsFirst
  <2>. QED  BY <1>1, <2>1, <2>2, NewReceipt DEF TaggingInv
<1>7. CASE receiptQueue' = q /\ UNCHANGED <<flushes, merkleRoot>>
  <2>1. BatchingInv' /\ RootsFirst'
    BY <1>1, <1>2, <1>3, <1>4, <1>5, <1>7
       DEF BatchingInv, TaggingInv, QueueTypeOK, FlushTypeOK, KnownReceipts, BatchedOnce, RootsFirst
  <2>. QED  BY <1>1, <1>7, <2>1, NewReceipt DEF TaggingInv
<1>. QED  BY <1>6, <1>7 DEF CreateReceipt, q

\* A row whose receipt is not queued.
LEMMA CreateUnqueuedInv ==
    ASSUME BatchingInv, TaggingInv, NEW r \in Receipts, CreateReceiptUnqueued(r)
    PROVE  BatchingInv' /\ TaggingInv'
<1>1. /\ r \notin Stored /\ rows' = WithReceipt(r)
      /\ UNCHANGED <<receiptQueue, flushes, merkleRoot, created>>
  BY DEF CreateReceiptUnqueued, WithReceipt, anchorVars
<1>2. RowsTypeOK' /\ Stored' = Stored \cup {r} /\ TagsMatchRoots'
  BY <1>1, NewReceipt DEF TaggingInv
<1>3. BatchingInv'
  BY <1>1, <1>2 DEF BatchingInv, QueueTypeOK, FlushTypeOK, KnownReceipts, BatchedOnce
<1>. QED  BY <1>1, <1>2, <1>3 DEF TaggingInv, RootsFirst

\* What tables and roots say stays true while they do not change.
LEMMA SameRows ==
    ASSUME TagsMatchRoots, RowsTypeOK, KnownReceipts, rows' = rows, 
           ToSet(created) \subseteq ToSet(created'),
           \A b \in Batches : flushes[b] # "unused" => merkleRoot'[b] = merkleRoot[b]
    PROVE  RowsTypeOK' /\ Stored' = Stored /\ TagsMatchRoots'
<1>1. RowsTypeOK' /\ Stored' = Stored
  BY DEF RowsTypeOK, Stored
<1>2. ASSUME NEW x \in Stored, rows[x] # NoBatch
      PROVE  merkleRoot'[rows[x]] = merkleRoot[rows[x]]
  BY <1>2, EmptySet DEF TagsMatchRoots, RowsTypeOK, KnownReceipts
<1>. QED  BY <1>1, <1>2 DEF TagsMatchRoots

\* The timer and the route flush the queue.
LEMMA FlushBatchInv ==
    ASSUME BatchingInv, TaggingInv, FlushBatch
    PROVE  BatchingInv' /\ TaggingInv'
<1>1. Splice(receiptQueue) /\ rows' = rows /\ created' = created
  BY DEF FlushBatch, anchorVars
<1>2. Stored' = Stored /\ RowsTypeOK'
  BY <1>1 DEF Stored, RowsTypeOK, BatchingInv
<1>3. /\ QueueTypeOK' /\ FlushTypeOK' /\ BatchedOnce'
      /\ ToSet(receiptQueue') \subseteq Stored
      /\ \A b \in Batches :
            /\ ToSet(merkleRoot'[b]) \subseteq Stored
            /\ flushes'[b] = "unused" => merkleRoot'[b] = << >>
            /\ flushes'[b] = "update" => flushes[b] = "update"
            /\ flushes[b] # "unused" => merkleRoot'[b] = merkleRoot[b]
  <2>1. FlushTypeOK /\ receiptQueue \in Seq(Receipts)
    BY DEF BatchingInv, QueueTypeOK
  <2>2. IsInjective(receiptQueue) /\ ToSet(receiptQueue) \subseteq Stored
    BY DEF BatchingInv, KnownReceipts, BatchedOnce
  <2>3. \A b \in Batches : /\ ToSet(merkleRoot[b]) \subseteq Stored
                           /\ IsInjective(merkleRoot[b])
                           /\ ToSet(merkleRoot[b]) \cap ToSet(receiptQueue) = {}
                           /\ flushes[b] = "unused" => merkleRoot[b] = << >>
    BY DEF BatchingInv, KnownReceipts, BatchedOnce
  <2>4. \A b \in Batches : \A b2 \in Batches \ {b} :
           ToSet(merkleRoot[b]) \cap ToSet(merkleRoot[b2]) = {}
    BY DEF BatchingInv, BatchedOnce
  <2>. QED  BY <1>1, <2>1, <2>2, <2>3, <2>4, SpliceBatches
<1>4. BatchingInv' /\ RootsFirst'
  BY <1>1, <1>2, <1>3 DEF BatchingInv, TaggingInv, KnownReceipts, RootsFirst
<1>. QED  BY <1>1, <1>3, <1>4, SameRows DEF BatchingInv, TaggingInv

-----------------------------------------------------------------------------
(* TagsMatchRoots *)

\* The UPDATE of a flush whose root is stored.
LEMMA TaggedRows ==
    ASSUME BatchingInv, TagsMatchRoots, NEW b \in Batches, b \in ToSet(created),
           rows' = Tagged(b), merkleRoot' = merkleRoot, created' = created
    PROVE  RowsTypeOK' /\ Stored' = Stored /\ TagsMatchRoots'
<1>1. RowsTypeOK' /\ Stored' = Stored
  BY DEF BatchingInv, RowsTypeOK, Stored, Tagged
<1>2. \A x \in Stored : rows'[x] = IF x \in ToSet(merkleRoot[b]) THEN b ELSE rows[x]
  BY DEF Tagged
<1>3. \A x \in Stored : rows[x] # NoBatch => x \in ToSet(merkleRoot[rows[x]])
  BY DEF TagsMatchRoots
<1>4. ToSet(merkleRoot[b]) \subseteq Stored
  BY DEF BatchingInv, KnownReceipts
<1>5. ASSUME NEW x \in Stored, rows'[x] # NoBatch
      PROVE  /\ rows'[x] \in ToSet(created)
             /\ {y \in Stored : rows'[y] = rows'[x]} = ToSet(merkleRoot[rows'[x]])
  <2>1. CASE rows'[x] = b
    <3>1. \A y \in Stored : rows'[y] = b <=> y \in ToSet(merkleRoot[b])
      BY <1>2, <1>3, NoBatchIsNoBatch
    <3>. QED  BY <2>1, <3>1, <1>4
  <2>2. CASE rows'[x] # b
    <3>. DEFINE d == rows[x]
    <3>1. rows'[x] = d /\ d \in Batches \ {b}
      BY <1>2, <1>5, <2>2 DEF BatchingInv, RowsTypeOK
    <3>2. d \in ToSet(created) /\ {y \in Stored : rows[y] = d} = ToSet(merkleRoot[d])
      BY <1>5, <3>1 DEF TagsMatchRoots
    <3>3. ToSet(merkleRoot[b]) \cap ToSet(merkleRoot[d]) = {}
      BY <3>1 DEF BatchingInv, BatchedOnce
    <3>4. \A y \in Stored : rows'[y] = d <=> rows[y] = d
      BY <1>2, <3>1, <3>2, <3>3
    <3>. QED  BY <3>1, <3>2, <3>4
  <2>. QED  BY <2>1, <2>2
<1>. QED  BY <1>1, <1>5 DEF TagsMatchRoots

\* The queue and the roots stay as they are, and no flush becomes unused.
LEMMA SameBatches ==
    ASSUME BatchingInv, RowsTypeOK', Stored' = Stored, UNCHANGED <<receiptQueue, merkleRoot>>,
           flushes' \in [Batches -> {"unused", "insert", "update", "done"}],
           \A b \in Batches : flushes'[b] = "unused" => flushes[b] = "unused"
    PROVE  BatchingInv'
  BY DEF BatchingInv, QueueTypeOK, FlushTypeOK, KnownReceipts, BatchedOnce

\* A stored root is in the table.
LEMMA AppendCreated ==
    ASSUME created \in Seq(Batches), NEW b \in Batches, created' = Append(created, b)
    PROVE  created' \in Seq(Batches) /\ ToSet(created') = ToSet(created) \cup {b}
  BY AppendSet

\* The INSERT of the root.
LEMMA StoreRootInv ==
    ASSUME BatchingInv, TaggingInv, AnchorTypeOK, NEW b \in Batches, StoreRoot(b)
    PROVE  BatchingInv' /\ TaggingInv'
<1>1. ToSet(created') = ToSet(created) \cup {b}
  BY AppendCreated DEF StoreRoot, AnchorTypeOK
<1>2. RowsTypeOK' /\ Stored' = Stored /\ TagsMatchRoots'
  BY <1>1, SameRows DEF StoreRoot, BatchingInv, TaggingInv
<1>3. /\ flushes' \in [Batches -> {"unused", "insert", "update", "done"}]
      /\ \A x \in Batches : flushes'[x] = IF x = b THEN "update" ELSE flushes[x]
  BY DEF StoreRoot, BatchingInv, FlushTypeOK
<1>4. BatchingInv'
  BY <1>2, <1>3, SameBatches DEF StoreRoot
<1>5. RootsFirst'
  BY <1>1, <1>3 DEF TaggingInv, RootsFirst
<1>. QED  BY <1>2, <1>4, <1>5 DEF TaggingInv

\* The UPDATE of the rows.
LEMMA TagReceiptsInv ==
    ASSUME BatchingInv, TaggingInv, NEW b \in Batches, TagReceipts(b)
    PROVE  BatchingInv' /\ TaggingInv'
<1>1. b \in ToSet(created)
  BY DEF TagReceipts, TaggingInv, RootsFirst
<1>2. RowsTypeOK' /\ Stored' = Stored /\ TagsMatchRoots'
  BY <1>1, TaggedRows DEF TagReceipts, TaggingInv
<1>3. /\ flushes' \in [Batches -> {"unused", "insert", "update", "done"}]
      /\ \A x \in Batches : flushes'[x] = IF x = b THEN "done" ELSE flushes[x]
  BY DEF TagReceipts, BatchingInv, FlushTypeOK
<1>4. BatchingInv'
  BY <1>2, <1>3, SameBatches DEF TagReceipts
<1>5. RootsFirst'
  BY <1>3 DEF TaggingInv, RootsFirst, TagReceipts
<1>. QED  BY <1>2, <1>4, <1>5 DEF TaggingInv

\* A query of a flush throws, committed or not.
LEMMA FlushFailsInv ==
    ASSUME BatchingInv, TaggingInv, AnchorTypeOK, NEW b \in Batches, FlushFails(b)
    PROVE  BatchingInv' /\ TaggingInv'
<1>1. /\ flushes' \in [Batches -> {"unused", "insert", "update", "done"}]
      /\ \A x \in Batches : flushes'[x] = IF x = b THEN "done" ELSE flushes[x]
      /\ flushes[b] # "unused"
  BY DEF FlushFails, BatchingInv, FlushTypeOK
<1>2. /\ ToSet(created) \subseteq ToSet(created')
      /\ RowsTypeOK' /\ Stored' = Stored /\ TagsMatchRoots'
  <2>1. CASE UNCHANGED <<created, rows>>
    BY <2>1, SameRows DEF FlushFails, BatchingInv, TaggingInv
  <2>2. CASE created' = Append(created, b) /\ UNCHANGED rows
    <3>1. ToSet(created') = ToSet(created) \cup {b}
      BY <2>2, AppendCreated DEF AnchorTypeOK
    <3>. QED  BY <2>2, <3>1, SameRows DEF FlushFails, BatchingInv, TaggingInv
  <2>3. CASE flushes[b] = "update" /\ rows' = Tagged(b) /\ UNCHANGED created
    <3>1. b \in ToSet(created)
      BY <2>3 DEF TaggingInv, RootsFirst
    <3>. QED  BY <2>3, <3>1, TaggedRows DEF FlushFails, TaggingInv
  <2>. QED  BY <2>1, <2>2, <2>3 DEF FlushFails
<1>3. BatchingInv'
  BY <1>1, <1>2, SameBatches DEF FlushFails
<1>4. RootsFirst'
  BY <1>1, <1>2 DEF TaggingInv, RootsFirst
<1>. QED  BY <1>2, <1>3, <1>4 DEF TaggingInv

\* A restart empties the queue and ends the flushes.
LEMMA RestartInv ==
    ASSUME BatchingInv, TaggingInv, Restart
    PROVE  BatchingInv' /\ TaggingInv'
<1>1. RowsTypeOK' /\ Stored' = Stored /\ TagsMatchRoots'
  BY SameRows DEF Restart, BatchingInv, TaggingInv
<1>2. /\ flushes' \in [Batches -> {"unused", "insert", "update", "done"}]
      /\ \A b \in Batches : flushes'[b] = IF flushes[b] = "unused" THEN "unused" ELSE "done"
  BY DEF Restart
<1>3. QueueTypeOK' /\ ToSet(receiptQueue') = {} /\ IsInjective(receiptQueue')
  BY EmptySet DEF Restart, QueueTypeOK
<1>4. BatchingInv'
  BY <1>1, <1>2, <1>3 DEF Restart, BatchingInv, FlushTypeOK, KnownReceipts, BatchedOnce
<1>5. RootsFirst'
  BY <1>2 DEF RootsFirst
<1>. QED  BY <1>1, <1>4, <1>5 DEF TaggingInv

\* The calls of the adapter leave the books of the batches alone.
LEMMA OthersKeepBatches ==
    ASSUME BatchingInv, TaggingInv, UNCHANGED <<batcherVars, created>>
    PROVE  BatchingInv' /\ TaggingInv'
<1>1. RowsTypeOK' /\ Stored' = Stored /\ TagsMatchRoots'
  BY SameRows DEF batcherVars, BatchingInv, TaggingInv
<1>2. BatchingInv'
  BY <1>1, SameBatches DEF batcherVars, BatchingInv, FlushTypeOK
<1>. QED  BY <1>1, <1>2 DEF TaggingInv, RootsFirst, batcherVars

-----------------------------------------------------------------------------
(* AnchorsAreReal *)

\* A call goes on with stored batches, and records nothing yet.
LEMMA LoadNextCall ==
    ASSUME calls \in [Callers -> Call], NEW c \in Callers, NEW rest \in SUBSET Batches,
           LoadNext(c, rest)
    PROVE  /\ calls' \in [Callers -> Call]
           /\ calls'[c].todo = rest
           /\ calls'[c].at \in {"idle", "load"}
           /\ calls'[c].at # "idle" => calls'[c].batch \in rest
           /\ \A d \in Callers \ {c} : calls'[d] = calls[d]
<1>1. NoCall \in Call
  BY LimitsArePositive DEF NoCall, Call
<1>2. CASE rest = {}
  <2>1. calls' = [calls EXCEPT ![c] = NoCall]
    BY <1>2 DEF LoadNext, Step
  <2>. QED  BY <1>1, <1>2, <2>1 DEF NoCall
<1>3. CASE rest # {}
  <2>1. PICK b \in rest : calls' = [calls EXCEPT ![c] =
            [at |-> "load", batch |-> b, todo |-> rest, attempt |-> 1, tx |-> 0]]
    BY <1>3 DEF LoadNext, Step
  <2>2. [at |-> "load", batch |-> b, todo |-> rest, attempt |-> 1, tx |-> 0] \in Call
    BY LimitsArePositive DEF Call
  <2>. QED  BY <2>1, <2>2
<1>. QED  BY <1>2, <1>3

\* As LoadNextCall, for a call that is over or has dropped batches.
LEMMA ThrowCall ==
    ASSUME calls \in [Callers -> Call], circuit \in {"closed", "open", "lapsed"},
           NEW c \in Callers, Throw(c)
    PROVE  /\ calls' \in [Callers -> Call]
           /\ circuit' \in {"closed", "open", "lapsed"}
           /\ calls'[c].todo \subseteq calls[c].todo
           /\ calls'[c].at \in {"idle", "load"}
           /\ calls'[c].at # "idle" => calls'[c].batch \in calls'[c].todo
           /\ \A d \in Callers \ {c} : calls'[d] = calls[d]
<1>1. circuit' \in {"closed", "open", "lapsed"}
  BY DEF Throw, CircuitRead
<1>2. CASE IsCircuitOpen
  <2>1. calls' = [calls EXCEPT ![c] = NoCall] /\ NoCall \in Call
    BY <1>2, LimitsArePositive DEF Throw, Step, NoCall, Call
  <2>. QED  BY <1>1, <2>1 DEF NoCall
<1>3. CASE ~IsCircuitOpen
  <2>1. LoadNext(c, calls[c].todo \ {batch(c)})
    BY <1>3 DEF Throw, Return
  <2>2. calls[c].todo \ {batch(c)} \in SUBSET Batches
    BY DEF Call
  <2>. QED  BY <1>1, <2>1, <2>2, LoadNextCall
<1>. QED  BY <1>2, <1>3

\* One call changes in a way that leaves it backed, and the chain only grows.
LEMMA OneCall ==
    ASSUME AnchoringInv, NEW c \in Callers, calls' \in [Callers -> Call],
           circuit' \in {"closed", "open", "lapsed"}, created' \in Seq(Batches),
           ToSet(created) \subseteq ToSet(created'),
           chain' \in [Batches -> 0..MaxCopies], \A b \in Batches : chain[b] <= chain'[b],
           \A d \in Callers \ {c} : calls'[d] = calls[d],
           calls'[c].todo \subseteq ToSet(created'),
           calls'[c].at # "idle" => calls'[c].batch \in calls'[c].todo,
           calls'[c].at = "record" => calls'[c].tx <= chain'[calls'[c].batch],
           anchorTx' \in [Batches -> Nat], \A b \in Batches : anchorTx'[b] <= chain'[b],
           \A b \in Batches : chain'[b] > 0 => b \in ToSet(created')
    PROVE  AnchoringInv'
<1>1. AnchorTypeOK' /\ AnchorsAreReal'
  BY DEF AnchorTypeOK, AnchorsAreReal
<1>2. ASSUME NEW d \in Callers
      PROVE  /\ calls'[d].todo \subseteq ToSet(created')
             /\ calls'[d].at # "idle" => calls'[d].batch \in calls'[d].todo
             /\ calls'[d].at = "record" => calls'[d].tx <= chain'[calls'[d].batch]
  <2>1. CASE d = c
    BY <2>1
  <2>2. CASE d # c
    <3>1. calls'[d] = calls[d] /\ calls[d] \in Call
      BY <2>2 DEF AnchoringInv, AnchorTypeOK
    <3>2. /\ calls[d].todo \subseteq ToSet(created)
          /\ calls[d].at # "idle" => calls[d].batch \in calls[d].todo
          /\ calls[d].at = "record" => calls[d].tx <= chain[calls[d].batch]
      BY DEF AnchoringInv, CallsAreBacked
    <3>3. calls[d].at = "record" => calls[d].tx <= chain'[calls[d].batch]
      <4>. SUFFICES ASSUME calls[d].at = "record"
                    PROVE  calls[d].tx <= chain'[calls[d].batch]
        OBVIOUS
      <4>1. calls[d].batch \in Batches /\ calls[d].tx \in Nat
        BY <3>1, <3>2, LimitsArePositive DEF Call
      <4>. QED  BY <3>2, <4>1 DEF AnchoringInv, AnchorTypeOK
    <3>. QED  BY <3>1, <3>2, <3>3
  <2>. QED  BY <2>1, <2>2
<1>. QED  BY <1>1, <1>2 DEF AnchoringInv, CallsAreBacked

\* The same, when tables and chain stay as they are and nothing is to be recorded.
LEMMA CallOnly ==
    ASSUME AnchoringInv, NEW c \in Callers, UNCHANGED <<created, anchorTx, chain>>,
           calls' \in [Callers -> Call], circuit' \in {"closed", "open", "lapsed"},
           \A d \in Callers \ {c} : calls'[d] = calls[d],
           calls'[c].todo \subseteq ToSet(created),
           calls'[c].at # "idle" => calls'[c].batch \in calls'[c].todo,
           calls'[c].at # "record"
    PROVE  AnchoringInv'
<1>1. /\ created' \in Seq(Batches) /\ ToSet(created') = ToSet(created)
      /\ chain' \in [Batches -> 0..MaxCopies] /\ anchorTx' \in [Batches -> Nat]
  BY DEF AnchoringInv, AnchorTypeOK
<1>2. \A b \in Batches : chain[b] <= chain'[b]
  BY LimitsArePositive DEF AnchoringInv, AnchorTypeOK
<1>3. \A b \in Batches : anchorTx'[b] <= chain'[b] /\ (chain'[b] > 0 => b \in ToSet(created'))
  BY <1>1 DEF AnchoringInv, AnchorsAreReal
<1>. QED  BY <1>1, <1>2, <1>3, OneCall

\* Copies are counted in naturals.
LEMMA Copies ==
    ASSUME NEW f \in [Batches -> 0..MaxCopies]
    PROVE  \A b \in Batches : f[b] \in Nat /\ f[b] <= f[b]
<1>1. MaxCopies \in Nat
  BY LimitsArePositive
<1>. QED  BY <1>1

\* Anchors stay below a chain that grows.
LEMMA StillBelow ==
    ASSUME NEW tx \in [Batches -> Nat], NEW old \in [Batches -> 0..MaxCopies],
           NEW new \in [Batches -> 0..MaxCopies],
           \A b \in Batches : tx[b] <= old[b], \A b \in Batches : old[b] <= new[b]
    PROVE  \A b \in Batches : tx[b] <= new[b]
<1>1. \A b \in Batches : old[b] \in Nat /\ new[b] \in Nat
  BY Copies
<1>. QED  BY <1>1

\* What the table of batches and the chain know of each other.
LEMMA TableFacts ==
    ASSUME AnchoringInv
    PROVE  /\ anchorTx \in [Batches -> Nat]
           /\ chain \in [Batches -> 0..MaxCopies]
           /\ \A x \in Batches : anchorTx[x] <= chain[x]
           /\ \A x \in Batches : chain[x] > 0 => x \in ToSet(created)
BY DEF AnchoringInv, AnchorTypeOK, AnchorsAreReal

\* What a caller's call knows before its step.
LEMMA CallFacts ==
    ASSUME AnchoringInv, NEW c \in Callers
    PROVE  /\ calls \in [Callers -> Call] /\ calls[c] \in Call
           /\ circuit \in {"closed", "open", "lapsed"}
           /\ created \in Seq(Batches) /\ ToSet(created) \subseteq Batches
           /\ anchorTx \in [Batches -> Nat] /\ chain \in [Batches -> 0..MaxCopies]
           /\ calls[c].todo \subseteq ToSet(created)
           /\ calls[c].at # "idle" => /\ batch(c) \in calls[c].todo
                                      /\ batch(c) \in Batches /\ batch(c) \in ToSet(created)
           /\ calls[c].at = "record" => calls[c].tx <= chain[batch(c)]
<1>1. ToSet(created) \subseteq Batches
  BY DEF AnchoringInv, AnchorTypeOK, ToSet
<1>. QED  BY <1>1 DEF AnchoringInv, AnchorTypeOK, CallsAreBacked, AnchorsAreReal, batch

\* The breaker is timed out, or a sweep begins.
LEMMA SweepsInv ==
    ASSUME AnchoringInv, CircuitLapses \/ \E c \in Sweepers : StartSweep(c)
    PROVE  AnchoringInv'
<1>1. CASE CircuitLapses
  BY <1>1 DEF CircuitLapses, AnchoringInv, AnchorTypeOK, CallsAreBacked, AnchorsAreReal
<1>2. ASSUME NEW c \in Sweepers, StartSweep(c)
      PROVE  AnchoringInv'
  <2>. c \in Callers
    BY DEF Callers
  <2>1. Pending \subseteq ToSet(created)
    BY DEF Pending, ToSet
  <2>2. Pending \in SUBSET Batches
    BY <2>1, CallFacts
  <2>3. /\ calls' \in [Callers -> Call]
        /\ calls'[c].todo = Pending
        /\ calls'[c].at \in {"idle", "load"}
        /\ calls'[c].at # "idle" => calls'[c].batch \in Pending
        /\ \A d \in Callers \ {c} : calls'[d] = calls[d]
    <3>. HIDE DEF Pending
    <3>. QED  BY <1>2, <2>2, LoadNextCall DEF StartSweep, AnchoringInv, AnchorTypeOK
  <2>4. circuit' \in {"closed", "open", "lapsed"} /\ UNCHANGED <<created, anchorTx, chain>>
    BY <1>2, CallFacts DEF StartSweep, CircuitRead
  <2>. QED  BY <2>1, <2>3, <2>4, CallOnly
<1>. QED  BY <1>1, <1>2

\* SELECT of a batch.
LEMMA LoadBatchInv ==
    ASSUME AnchoringInv, NEW c \in Callers, LoadBatch(c)
    PROVE  AnchoringInv'
<1>1. UNCHANGED <<created, anchorTx, chain>>
  BY DEF LoadBatch
<1>2. CASE Return(c) /\ UNCHANGED circuit
  <2>1. calls[c].todo \ {batch(c)} \in SUBSET Batches
    BY CallFacts
  <2>2. /\ calls' \in [Callers -> Call]
        /\ calls'[c].todo = calls[c].todo \ {batch(c)}
        /\ calls'[c].at \in {"idle", "load"}
        /\ calls'[c].at # "idle" => calls'[c].batch \in calls[c].todo \ {batch(c)}
        /\ \A d \in Callers \ {c} : calls'[d] = calls[d]
    BY <1>2, <2>1, CallFacts, LoadNextCall DEF Return
  <2>. QED  BY <1>1, <1>2, <2>2, CallFacts, CallOnly
<1>3. CASE Throw(c)
  BY <1>1, <1>3, CallFacts, ThrowCall, CallOnly
<1>4. CASE calls[c].at = "load" /\ CircuitRead /\ Step(c, [calls[c] EXCEPT !.at = "rpc"])
  <2>1. [calls[c] EXCEPT !.at = "rpc"] \in Call
    BY CallFacts DEF Call
  <2>2. /\ calls' \in [Callers -> Call]
        /\ calls'[c] = [calls[c] EXCEPT !.at = "rpc"]
        /\ \A d \in Callers \ {c} : calls'[d] = calls[d]
    BY <1>4, <2>1, CallFacts DEF Step
  <2>3. calls'[c].todo = calls[c].todo /\ calls'[c].batch = calls[c].batch /\ calls'[c].at = "rpc"
    BY <2>2, CallFacts DEF Call
  <2>4. circuit' \in {"closed", "open", "lapsed"}
    BY <1>4, CallFacts DEF CircuitRead
  <2>. QED  BY <1>1, <1>4, <2>2, <2>3, <2>4, CallFacts, CallOnly DEF batch
<1>. QED  BY <1>2, <1>3, <1>4 DEF LoadBatch

\* The chain executes a request for a stored batch, and the cap is no reduction.
LEMMA Executed ==
    ASSUME AnchoringInv, NEW b \in Batches, b \in ToSet(created), Execute(b)
    PROVE  /\ chain' \in [Batches -> 0..MaxCopies]
           /\ \A x \in Batches : chain[x] <= chain'[x]
           /\ \A x \in Batches : chain'[x] > 0 => x \in ToSet(created)
<1>1. chain \in [Batches -> 0..MaxCopies] /\ MaxCopies \in Nat
  BY LimitsArePositive DEF AnchoringInv, AnchorTypeOK
<1>2. \A x \in Batches : chain'[x] = IF x = b /\ chain[b] < MaxCopies THEN chain[b] + 1 ELSE chain[x]
  BY <1>1 DEF Execute
<1>. QED  BY <1>1, <1>2 DEF Execute, AnchoringInv, AnchorsAreReal

\* An answer brings the transaction the chain has just executed.
LEMMA RpcAnsweredInv ==
    ASSUME AnchoringInv, NEW c \in Callers, RpcAnswered(c)
    PROVE  AnchoringInv'
<1>. DEFINE b == batch(c)
            call == [calls[c] EXCEPT !.at = "record", !.tx = chain'[b]]
<1>1. calls[c].at = "rpc" /\ b \in Batches /\ b \in ToSet(created)
  BY CallFacts DEF RpcAnswered
<1>2. /\ chain' \in [Batches -> 0..MaxCopies]
      /\ \A x \in Batches : chain[x] <= chain'[x]
      /\ \A x \in Batches : chain'[x] > 0 => x \in ToSet(created)
  BY <1>1, Executed DEF RpcAnswered
<1>3. call \in Call
  BY <1>1, <1>2, CallFacts DEF Call
<1>4. /\ calls' \in [Callers -> Call] /\ calls'[c] = call
      /\ \A d \in Callers \ {c} : calls'[d] = calls[d]
  BY <1>3, CallFacts DEF RpcAnswered, Step
<1>5. /\ call.todo = calls[c].todo /\ call.batch = b /\ call.tx = chain'[b]
  BY CallFacts DEF Call, batch
<1>6. UNCHANGED <<created, anchorTx>> /\ circuit' = "closed"
  BY DEF RpcAnswered
<1>7. ToSet(created') = ToSet(created) /\ created' \in Seq(Batches)
  BY <1>6, CallFacts
<1>8. anchorTx' \in [Batches -> Nat] /\ \A x \in Batches : anchorTx'[x] <= chain'[x]
  <2>1. \A x \in Batches : anchorTx[x] <= chain'[x]
    BY <1>2, TableFacts, StillBelow
  <2>. QED  BY <1>6, <2>1, CallFacts
<1>9. chain'[b] <= chain'[b]
  BY <1>1, <1>2, Copies
<1>. HIDE DEF b, call
<1>10. /\ calls'[c].todo \subseteq ToSet(created')
       /\ calls'[c].batch \in calls'[c].todo
       /\ calls'[c].tx <= chain'[calls'[c].batch]
  <2>1. b \in calls[c].todo /\ calls[c].todo \subseteq ToSet(created)
    BY <1>1, CallFacts DEF b
  <2>. QED  BY <1>4, <1>5, <1>7, <1>9, <2>1
<1>. QED  BY <1>2, <1>4, <1>6, <1>7, <1>8, <1>10, OneCall

\* An attempt fails, executed or not; the call tries again or gives up.
LEMMA RpcFailsInv ==
    ASSUME AnchoringInv, NEW c \in Callers, RpcFails(c)
    PROVE  AnchoringInv'
<1>1. calls[c].at = "rpc" /\ batch(c) \in Batches /\ batch(c) \in ToSet(created)
  BY CallFacts DEF RpcFails
<1>2. /\ chain' \in [Batches -> 0..MaxCopies]
      /\ \A x \in Batches : chain[x] <= chain'[x]
      /\ \A x \in Batches : chain'[x] > 0 => x \in ToSet(created)
  <2>1. CASE UNCHANGED chain
    BY <2>1, TableFacts, Copies
  <2>2. CASE Execute(batch(c))
    BY <1>1, <2>2, Executed
  <2>. QED  BY <2>1, <2>2 DEF RpcFails
<1>3. /\ calls' \in [Callers -> Call]
      /\ \A d \in Callers \ {c} : calls'[d] = calls[d]
      /\ calls'[c].at \in {"rpc", "idle"}
      /\ calls'[c].todo \subseteq calls[c].todo
      /\ calls'[c].at # "idle" => calls'[c].batch \in calls'[c].todo
      /\ circuit' \in {"closed", "open", "lapsed"}
  <2>1. CASE /\ calls[c].attempt < MaxAttempts
             /\ Step(c, [calls[c] EXCEPT !.attempt = @ + 1]) /\ UNCHANGED circuit
    <3>. DEFINE call == [calls[c] EXCEPT !.attempt = @ + 1]
    <3>. calls[c] \in Call /\ MaxAttempts \in Nat
      BY CallFacts, LimitsArePositive
    <3>1. call \in Call /\ call.at = "rpc" /\ call.todo = calls[c].todo /\ call.batch = batch(c)
      BY <1>1, <2>1 DEF Call, batch
    <3>2. calls' = [calls EXCEPT ![c] = call]
      BY <2>1 DEF Step
    <3>. HIDE DEF call
    <3>. QED  BY <1>1, <2>1, <3>1, <3>2, CallFacts
  <2>2. CASE circuit' = "open" /\ Step(c, NoCall)
    <3>1. calls' = [calls EXCEPT ![c] = NoCall] /\ NoCall \in Call
      BY <2>2, LimitsArePositive DEF Step, NoCall, Call
    <3>2. NoCall.at = "idle" /\ NoCall.todo = {}
      BY DEF NoCall
    <3>. QED  BY <2>2, <3>1, <3>2, CallFacts
  <2>. QED  BY <2>1, <2>2 DEF RpcFails
<1>4. UNCHANGED <<created, anchorTx>>
  BY DEF RpcFails
<1>5. ToSet(created') = ToSet(created) /\ created' \in Seq(Batches)
  BY <1>4, CallFacts
<1>6. anchorTx' \in [Batches -> Nat] /\ \A x \in Batches : anchorTx'[x] <= chain'[x]
  <2>1. \A x \in Batches : anchorTx[x] <= chain'[x]
    BY <1>2, TableFacts, StillBelow
  <2>. QED  BY <1>4, <2>1, CallFacts
<1>7. calls'[c].todo \subseteq ToSet(created') /\ calls'[c].at # "record"
  BY <1>3, <1>5, CallFacts
<1>. QED  BY <1>2, <1>3, <1>5, <1>6, <1>7, OneCall

\* The chain does not know the method.
LEMMA RpcMethodMissingInv ==
    ASSUME AnchoringInv, NEW c \in Callers, RpcMethodMissing(c)
    PROVE  AnchoringInv'
<1>1. Throw(c) /\ UNCHANGED <<created, anchorTx, chain>>
  BY DEF RpcMethodMissing
<1>. QED  BY <1>1, CallFacts, ThrowCall, CallOnly

\* The UPDATE of an anchor keeps to what the chain has.
LEMMA RecordedAnchor ==
    ASSUME AnchoringInv, NEW c \in Callers, calls[c].at = "record",
           anchorTx' = [anchorTx EXCEPT ![batch(c)] = calls[c].tx]
    PROVE  anchorTx' \in [Batches -> Nat] /\ \A b \in Batches : anchorTx'[b] <= chain[b]
<1>1. calls[c] \in Call /\ MaxCopies \in Nat
  BY CallFacts, LimitsArePositive
<1>2. calls[c].tx \in Nat
  BY <1>1 DEF Call
<1>3. /\ anchorTx \in [Batches -> Nat] /\ batch(c) \in Batches
      /\ \A b \in Batches : anchorTx[b] <= chain[b]
      /\ calls[c].tx <= chain[batch(c)]
  BY CallFacts, TableFacts
<1>4. \A b \in Batches : anchorTx'[b] = IF b = batch(c) THEN calls[c].tx ELSE anchorTx[b]
  BY <1>3
<1>. QED  BY <1>2, <1>3, <1>4

\* The call is over with its batch, and the table may have its anchor.
LEMMA RecordsInv ==
    ASSUME AnchoringInv, NEW c \in Callers, RecordAnchor(c) \/ AnchorQueryFails(c)
    PROVE  AnchoringInv'
<1>1. UNCHANGED <<created, chain>>
  BY DEF RecordAnchor, AnchorQueryFails
<1>2. anchorTx' \in [Batches -> Nat] /\ \A b \in Batches : anchorTx'[b] <= chain[b]
  <2>1. CASE UNCHANGED anchorTx
    BY <2>1, TableFacts
  <2>2. CASE calls[c].at = "record" /\ anchorTx' = [anchorTx EXCEPT ![batch(c)] = calls[c].tx]
    BY <2>2, RecordedAnchor
  <2>. QED  BY <2>1, <2>2 DEF RecordAnchor, AnchorQueryFails
<1>3. /\ calls' \in [Callers -> Call]
      /\ circuit' \in {"closed", "open", "lapsed"}
      /\ calls'[c].todo \subseteq calls[c].todo
      /\ calls'[c].at \in {"idle", "load"}
      /\ calls'[c].at # "idle" => calls'[c].batch \in calls'[c].todo
      /\ \A d \in Callers \ {c} : calls'[d] = calls[d]
  <2>1. CASE RecordAnchor(c)
    <3>1. calls[c].todo \ {batch(c)} \in SUBSET Batches
      BY CallFacts
    <3>2. LoadNext(c, calls[c].todo \ {batch(c)}) /\ circuit' = circuit
      BY <2>1 DEF RecordAnchor, Return
    <3>. QED  BY <3>1, <3>2, CallFacts, LoadNextCall
  <2>2. CASE AnchorQueryFails(c)
    BY <2>2, CallFacts, ThrowCall DEF AnchorQueryFails
  <2>. QED  BY <2>1, <2>2
<1>4. /\ created' \in Seq(Batches) /\ ToSet(created') = ToSet(created)
      /\ chain' \in [Batches -> 0..MaxCopies]
      /\ \A b \in Batches : chain[b] <= chain'[b]
      /\ \A b \in Batches : chain'[b] > 0 => b \in ToSet(created')
      /\ \A b \in Batches : anchorTx'[b] <= chain'[b]
  <2>1. \A b \in Batches : chain[b] <= chain[b]
    BY TableFacts, Copies
  <2>. QED  BY <1>1, <1>2, <2>1, CallFacts, TableFacts
<1>5. calls'[c].todo \subseteq ToSet(created') /\ calls'[c].at # "record"
  BY <1>3, <1>4, CallFacts
<1>. QED  BY <1>2, <1>3, <1>4, <1>5, OneCall

\* The flush stores its batch, or fails: the table of batches may grow.
LEMMA GrowsInv ==
    ASSUME AnchoringInv, NEW b \in Batches, UNCHANGED <<anchorTx, chain, calls, circuit>>,
           created' = created \/ created' = Append(created, b)
    PROVE  AnchoringInv'
<1>1. created' \in Seq(Batches) /\ ToSet(created) \subseteq ToSet(created')
  BY AppendCreated DEF AnchoringInv, AnchorTypeOK
<1>. QED  BY <1>1 DEF AnchoringInv, AnchorTypeOK, CallsAreBacked, AnchorsAreReal

\* The flush ends, and its call begins with the batch it has stored.
LEMMA StartAnchorInv ==
    ASSUME AnchoringInv, RootsFirst, NEW b \in Batches, TagReceipts(b)
    PROVE  AnchoringInv'
<1>1. b \in Callers /\ b \in ToSet(created) /\ {b} \in SUBSET Batches
  BY DEF Callers, TagReceipts, RootsFirst
<1>2. UNCHANGED <<created, anchorTx, chain>> /\ circuit' = circuit /\ LoadNext(b, {b})
  BY DEF TagReceipts, StartAnchor
<1>3. /\ calls' \in [Callers -> Call]
      /\ calls'[b].todo = {b}
      /\ calls'[b].at \in {"idle", "load"}
      /\ calls'[b].at # "idle" => calls'[b].batch \in {b}
      /\ \A d \in Callers \ {b} : calls'[d] = calls[d]
  BY <1>1, <1>2, CallFacts, LoadNextCall
<1>. QED  BY <1>1, <1>2, <1>3, CallFacts, CallOnly

\* A restart forgets every call, and neither the table nor the chain.
LEMMA ForgetsInv ==
    ASSUME AnchoringInv, Restart
    PROVE  AnchoringInv'
<1>1. NoCall \in Call /\ NoCall.todo = {} /\ NoCall.at = "idle"
  BY LimitsArePositive DEF NoCall, Call
<1>2. calls' = [c \in Callers |-> NoCall] /\ circuit' = "closed"
      /\ UNCHANGED <<created, anchorTx, chain>>
  BY DEF Restart
<1>. QED  BY <1>1, <1>2 DEF AnchoringInv, AnchorTypeOK, CallsAreBacked, AnchorsAreReal

\* A step of nobody who anchors.
LEMMA SameAnchors ==
    ASSUME AnchoringInv, UNCHANGED anchorVars
    PROVE  AnchoringInv'
BY DEF anchorVars, AnchoringInv, AnchorTypeOK, CallsAreBacked, AnchorsAreReal

-----------------------------------------------------------------------------
(* The specification *)

\* The invariant of the receipts holds at the start.
LEMMA ReceiptInvInit ==
    ASSUME Init
    PROVE  ReceiptInv
<1>1. NoCall \in Call /\ NoCall.todo = {} /\ NoCall.at = "idle"
  BY LimitsArePositive DEF NoCall, Call
<1>2. BatchingInv
  BY EmptySet DEF Init, BatchingInv, RowsTypeOK, QueueTypeOK, FlushTypeOK, KnownReceipts,
                  BatchedOnce, Stored
<1>3. TaggingInv
  BY DEF Init, TaggingInv, RootsFirst, TagsMatchRoots, Stored
<1>4. AnchoringInv
  BY <1>1, EmptySet, LimitsArePositive
  DEF Init, AnchorInit, AnchoringInv, AnchorTypeOK, CallsAreBacked, AnchorsAreReal
<1>. QED  BY <1>2, <1>3, <1>4 DEF ReceiptInv

\* The steps of the L1 adapter.
LEMMA AnchorNextInv ==
    ASSUME ReceiptInv,
           AnchorNext \/ ((\E c \in Callers : AnchorQueryFails(c)) /\ UNCHANGED batcherVars)
    PROVE  ReceiptInv'
<1>1. UNCHANGED <<batcherVars, created>>
  BY DEF AnchorNext, CircuitLapses, StartSweep, AnchorStep, LoadBatch, RpcAnswered, RpcFails,
         RecordAnchor, RpcMethodMissing, AnchorQueryFails
<1>2. BatchingInv' /\ TaggingInv'
  BY <1>1, OthersKeepBatches DEF ReceiptInv
<1>3. AnchoringInv
  BY DEF ReceiptInv
<1>4. AnchoringInv'
  <2>1. CASE CircuitLapses \/ \E c \in Sweepers : StartSweep(c)
    BY <1>3, <2>1, SweepsInv
  <2>2. ASSUME NEW c \in Callers, LoadBatch(c)
        PROVE  AnchoringInv'
    BY <1>3, <2>2, LoadBatchInv
  <2>3. ASSUME NEW c \in Callers, RpcAnswered(c)
        PROVE  AnchoringInv'
    BY <1>3, <2>3, RpcAnsweredInv
  <2>4. ASSUME NEW c \in Callers, RpcFails(c)
        PROVE  AnchoringInv'
    BY <1>3, <2>4, RpcFailsInv
  <2>5. ASSUME NEW c \in Callers, RpcMethodMissing(c)
        PROVE  AnchoringInv'
    BY <1>3, <2>5, RpcMethodMissingInv
  <2>6. ASSUME NEW c \in Callers, RecordAnchor(c) \/ AnchorQueryFails(c)
        PROVE  AnchoringInv'
    BY <1>3, <2>6, RecordsInv
  <2>. QED  BY <2>1, <2>2, <2>3, <2>4, <2>5, <2>6 DEF AnchorNext, AnchorStep
<1>. QED  BY <1>2, <1>4 DEF ReceiptInv

\* Every step of the receipts and the adapter.
LEMMA ReceiptInvNext ==
    ASSUME ReceiptInv, [Next]_vars
    PROVE  ReceiptInv'
<1>. BatchingInv /\ TaggingInv /\ AnchoringInv /\ AnchorTypeOK /\ RootsFirst
  BY DEF ReceiptInv, AnchoringInv, TaggingInv
<1>1. ASSUME NEW r \in Receipts, CreateReceipt(r)
      PROVE  ReceiptInv'
  BY <1>1, CreateReceiptInv, SameAnchors DEF CreateReceipt, ReceiptInv
<1>2. ASSUME NEW r \in Receipts, CreateReceiptUnqueued(r)
      PROVE  ReceiptInv'
  BY <1>2, CreateUnqueuedInv, SameAnchors DEF CreateReceiptUnqueued, ReceiptInv
<1>3. CASE FlushBatch
  BY <1>3, FlushBatchInv, SameAnchors DEF FlushBatch, ReceiptInv
<1>4. ASSUME NEW b \in Batches, StoreRoot(b)
      PROVE  ReceiptInv'
  BY <1>4, StoreRootInv, GrowsInv DEF StoreRoot, ReceiptInv
<1>5. ASSUME NEW b \in Batches, TagReceipts(b)
      PROVE  ReceiptInv'
  BY <1>5, TagReceiptsInv, StartAnchorInv DEF ReceiptInv
<1>6. ASSUME NEW b \in Batches, FlushFails(b)
      PROVE  ReceiptInv'
  BY <1>6, FlushFailsInv, GrowsInv DEF FlushFails, ReceiptInv
<1>7. CASE Restart
  BY <1>7, RestartInv, ForgetsInv DEF ReceiptInv
<1>8. CASE AnchorNext \/ ((\E c \in Callers : AnchorQueryFails(c)) /\ UNCHANGED batcherVars)
  BY <1>8, AnchorNextInv DEF ReceiptInv
<1>9. CASE UNCHANGED vars
  BY <1>9, OthersKeepBatches, SameAnchors DEF vars, anchorVars, ReceiptInv
<1>. QED
  BY <1>1, <1>2, <1>3, <1>4, <1>5, <1>6, <1>7, <1>8, <1>9
  DEF Next, ReliableNext, Fault, FlushStep

\* The invariant everything below follows from.
THEOREM ReceiptsInvariant == Spec => []ReceiptInv
<1>1. Init => ReceiptInv
  BY ReceiptInvInit
<1>2. ReceiptInv /\ [Next]_vars => ReceiptInv'
  BY ReceiptInvNext
<1>. QED  BY <1>1, <1>2, PTL DEF Spec

\* However the full queue, the timer and the route flush at once, and whatever
\* fails or restarts, flushBatch gives a receipt to one root and once.
THEOREM ReceiptsBatchedOnce == Spec => []BatchedOnce
<1>1. ReceiptInv => BatchedOnce
  BY DEF ReceiptInv, BatchingInv
<1>. QED  BY <1>1, ReceiptsInvariant, PTL

\* The batch that a receipt's row names is stored, and all the rows that name
\* it are the leaves of its root.
THEOREM TagsFollowRoots == Spec => []TagsMatchRoots
<1>1. ReceiptInv => TagsMatchRoots
  BY DEF ReceiptInv, TaggingInv
<1>. QED  BY <1>1, ReceiptsInvariant, PTL

\* anchorBatchOnChain records only anchors the chain has, and the chain anchors
\* only stored batches, for any number of overlapping calls, attempts and lost
\* answers.
THEOREM AnchorsStayReal == Spec => []AnchorsAreReal
<1>1. ReceiptInv => AnchorsAreReal
  BY DEF ReceiptInv, AnchoringInv
<1>. QED  BY <1>1, ReceiptsInvariant, PTL
=============================================================================
