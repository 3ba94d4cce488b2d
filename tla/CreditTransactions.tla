------------------------- MODULE CreditTransactions -------------------------
(***************************************************************************)
(* The money-moving operations of services/settle.ts statement by          *)
(* statement, as concurrent sessions of the connection pool (db.ts: up to  *)
(* 20 connections) run them against PostgreSQL under READ COMMITTED:       *)
(*                                                                         *)
(*     BEGIN; UPDATE credit_accounts ... RETURNING *;                      *)
(*     [INSERT INTO credit_accounts ...;]                                  *)
(*     INSERT INTO credit_transactions ...;  COMMIT                        *)
(*                                                                         *)
(* The variables accounts and creditTx are what is committed.  A session's *)
(* own writes stay in its work record until COMMIT publishes both.  The    *)
(* UPDATE waits for the row's lock and then sees the last committed row;   *)
(* every later statement relies on that lock.  The module implements       *)
(* CreditLedger, where each of these transactions is one action.           *)
(*                                                                         *)
(* charge and escrowLock run the same statements, and so do deposit and    *)
(* escrowRelease; but the CHECK of migration 002 allows no journal entry   *)
(* of the types escrow_lock and escrow_release, which rolls back an escrow *)
(* after its UPDATE.                                                       *)
(***************************************************************************)
EXTENDS CreditLedger, FiniteSets

CONSTANTS
    Sessions    \* connections that run one operation at a time

ASSUME SessionsAreFinite == IsFiniteSet(Sessions)   \* the pool's max is 20
ASSUME NoneIsNoSession == None \notin Sessions

VARIABLES
    stmt,       \* session -> the statement it executes next
    work,       \* session -> its operation and its uncommitted row and balance
    rowLock     \* wallet -> the session that locks its row, or None

txnVars == <<stmt, work, rowLock>>
sessionVars == <<accounts, creditTx, stmt, work, rowLock>>

CreditTypes == {"deposit", "escrow_release"}
DebitTypes  == {"charge", "escrow_lock"}

Operations == [type : CreditTypes \cup DebitTypes, wallet : Wallets,
               amount : Amounts, reference : References]

\* An operation with the row it has written and not yet committed.
Work == [op : Operations, row : Account]

NoOperation == [type |-> None, wallet |-> None, amount |-> 0, reference |-> None]
Idle == [op |-> NoOperation, row |-> NoAccount]

TxnInit ==
    /\ CreditsInit
    /\ stmt = [s \in Sessions |-> "idle"]
    /\ work = [s \in Sessions |-> Idle]
    /\ rowLock = [w \in Wallets |-> None]

op(s) == work[s].op
row(w) == accounts[w]

-----------------------------------------------------------------------------
\* Bound: an operation begins only when the journal has room for it and for
\* those that are under way on the same wallet.
WithinBound(o) ==
    Len(creditTx[o.wallet]) + Cardinality({s \in Sessions : op(s).wallet = o.wallet})
        < MaxEntries

\* pool.connect and BEGIN.
Begin(s, o) ==
    /\ stmt[s] = "idle"
    /\ WithinBound(o)
    /\ stmt' = [stmt EXCEPT ![s] = "update"]
    /\ work' = [work EXCEPT ![s] = [op |-> o, row |-> NoAccount]]
    /\ UNCHANGED <<accounts, creditTx, rowLock>>

\* The row an UPDATE of operation o leaves, given the committed row.
Updated(o, r) ==
    [r EXCEPT !.balance = IF o.type \in CreditTypes THEN @ + o.amount ELSE @ - o.amount]

\* The WHERE clause: the wallet alone for a credit, also the balance and the
\* freeze for a debit.
Matches(o) ==
    IF o.type \in CreditTypes THEN row(o.wallet).exists ELSE CanDebit(o.wallet, o.amount)

\* Mutant of UpdateRow: a read without a lock, and a write of what it gave.
UpdateUnlocked(s) ==
    LET o == op(s) IN
    /\ stmt[s] = "update"
    /\ Matches(o)
    /\ work' = [work EXCEPT ![s].row = Updated(o, row(o.wallet))]
    /\ stmt' = [stmt EXCEPT ![s] = "journal"]
    /\ UNCHANGED <<accounts, creditTx, rowLock>>

\* UPDATE ... RETURNING: waits while another session holds the row, then locks
\* it and works on its committed version.
UpdateRow(s) ==
    LET o == op(s) IN
    /\ stmt[s] = "update"
    /\ rowLock[o.wallet] = None
    /\ Matches(o)
    /\ rowLock' = [rowLock EXCEPT ![o.wallet] = s]
    /\ work' = [work EXCEPT ![s].row = Updated(o, row(o.wallet))]
    /\ stmt' = [stmt EXCEPT ![s] = "journal"]
    /\ UNCHANGED <<accounts, creditTx>>

\* The UPDATE finds no row that matches, for which it need not wait: a row
\* another session has inserted and not committed is invisible to it.  A debit
\* rolls back with InsufficientBalanceError, a credit goes on to insert the row.
UpdateNothing(s) ==
    /\ stmt[s] = "update"
    /\ ~Matches(op(s))
    /\ stmt' = [stmt EXCEPT ![s] = IF op(s).type \in CreditTypes THEN "insert" ELSE "rollback"]
    /\ UNCHANGED <<accounts, creditTx, work, rowLock>>

\* INSERT INTO credit_accounts: waits for another session that is inserting the
\* same wallet.
InsertRow(s) ==
    LET o == op(s) IN
    /\ stmt[s] = "insert"
    /\ rowLock[o.wallet] = None
    /\ ~row(o.wallet).exists
    /\ rowLock' = [rowLock EXCEPT ![o.wallet] = s]
    /\ work' = [work EXCEPT ![s].row = [NoAccount EXCEPT !.exists = TRUE,
                                                         !.balance = o.amount]]
    /\ stmt' = [stmt EXCEPT ![s] = "journal"]
    /\ UNCHANGED <<accounts, creditTx>>

\* The wallet exists by now: the UNIQUE column refuses the INSERT, and the
\* catch block rolls back.  The deposit fails, and is not retried.
InsertRefused(s) ==
    /\ stmt[s] = "insert"
    /\ rowLock[op(s).wallet] = None
    /\ row(op(s).wallet).exists
    /\ stmt' = [stmt EXCEPT ![s] = "rollback"]
    /\ UNCHANGED <<accounts, creditTx, work, rowLock>>

\* INSERT INTO credit_transactions, with the balance the UPDATE returned: held
\* in work until the commit; or refused by the CHECK of the type column.
InsertJournal(s) ==
    /\ stmt[s] = "journal"
    /\ stmt' = [stmt EXCEPT ![s] = IF op(s).type \in JournalTypes THEN "commit" ELSE "rollback"]
    /\ UNCHANGED <<accounts, creditTx, work, rowLock>>

\* Mutant of Commit: the connection goes back to the pool before its COMMIT has
\* released the lock.
CommitKeepsLock(s) ==
    LET o == op(s) IN
    /\ stmt[s] = "commit"
    /\ accounts' = [accounts EXCEPT ![o.wallet] = work[s].row]
    /\ Journal(o.wallet, o.type, o.amount, work[s].row.balance, o.reference)
    /\ stmt' = [stmt EXCEPT ![s] = "idle"]
    /\ work' = [work EXCEPT ![s] = Idle]
    /\ UNCHANGED rowLock

\* COMMIT publishes the row and the journal entry and releases the lock.
Commit(s) ==
    LET o == op(s) IN
    /\ stmt[s] = "commit"
    /\ accounts' = [accounts EXCEPT ![o.wallet] = work[s].row]
    /\ Journal(o.wallet, o.type, o.amount, work[s].row.balance, o.reference)
    /\ rowLock' = [rowLock EXCEPT ![o.wallet] = None]
    /\ stmt' = [stmt EXCEPT ![s] = "idle"]
    /\ work' = [work EXCEPT ![s] = Idle]

\* ROLLBACK: nothing of the transaction remains.
Undo(s) ==
    /\ rowLock' = [w \in Wallets |-> IF rowLock[w] = s THEN None ELSE rowLock[w]]
    /\ stmt' = [stmt EXCEPT ![s] = "idle"]
    /\ work' = [work EXCEPT ![s] = Idle]
    /\ UNCHANGED <<accounts, creditTx>>

Rollback(s) == stmt[s] = "rollback" /\ Undo(s)

\* Another statement throws and the catch block rolls back, or the process or
\* its connection dies and the server does.
Fail(s) == stmt[s] # "idle" /\ Undo(s)

\* The operations that are one autocommitted statement; each waits for the lock.
SingleStatement ==
    /\ \E w \in Wallets :
          /\ rowLock[w] = None
          /\ \/ \E key \in Keys \cup {None} : GetOrCreateAccount(w, key)
             \/ \E key \in Keys : RegisterPubkey(w, key)
             \/ \E frozen \in BOOLEAN : SetFrozen(w, frozen)
    /\ UNCHANGED txnVars

TxnNext ==
    \/ SingleStatement
    \/ \E s \in Sessions :
          \/ \E o \in Operations : Begin(s, o)
          \/ UpdateRow(s)
          \/ UpdateNothing(s)
          \/ InsertRow(s)
          \/ InsertRefused(s)
          \/ InsertJournal(s)
          \/ Commit(s)
          \/ Rollback(s)
          \/ Fail(s)

TxnSpec == TxnInit /\ [][TxnNext]_sessionVars

\* Every session that may execute its statement eventually does: PostgreSQL
\* queues the waiters of a lock, so one that is passed over while others take
\* the lock gets it in the end.
TxnFairSpec ==
    /\ TxnSpec
    /\ \A s \in Sessions :
          /\ WF_sessionVars(InsertJournal(s) \/ Commit(s) \/ Rollback(s))
          /\ SF_sessionVars(UpdateRow(s) \/ UpdateNothing(s))
          /\ SF_sessionVars(InsertRow(s) \/ InsertRefused(s))

-----------------------------------------------------------------------------
(* Properties *)

\* Type invariant of the sessions.
TxnTypeOK ==
    /\ CreditsTypeOK
    /\ stmt \in [Sessions -> {"idle", "update", "insert", "journal", "commit", "rollback"}]
    /\ \A s \in Sessions : stmt[s] # "idle" => work[s] \in Work
    /\ rowLock \in [Wallets -> Sessions \cup {None}]

\* A session past its UPDATE (or INSERT) holds the lock of its wallet's row, a
\* lock has such a session until it has rolled back, and the row it will commit
\* is still the committed one with its own change applied.
LocksProtectWork ==
    /\ \A s \in Sessions : stmt[s] \in {"journal", "commit"} =>
          /\ rowLock[op(s).wallet] = s
          /\ work[s].row = [Updated(op(s), row(op(s).wallet)) EXCEPT !.exists = TRUE]
    /\ \A w \in Wallets : rowLock[w] # None =>
          /\ stmt[rowLock[w]] \in {"journal", "commit", "rollback"}
          /\ op(rowLock[w]).wallet = w

\* Every operation ends: no session waits for a lock for ever, the transactions
\* never wait on each other in a circle.
EveryOperationEnds == \A s \in Sessions : stmt[s] # "idle" ~> stmt[s] = "idle"

=============================================================================
