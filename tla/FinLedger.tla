----------------------------- MODULE FinLedger ------------------------------
(***************************************************************************)
(* The ledger engine of fth-financial-core (crates/fth-ledger): journal    *)
(* entries, the balances of credit_accounts they change, and the balance   *)
(* cache that is read instead of the table.                                *)
(*                                                                         *)
(* submit writes the entry, its legs and the two balances in one database  *)
(* transaction (one action here: its UPDATEs add to the row they lock) and *)
(* applies the legs to the cache after the COMMIT, each leg atomically,    *)
(* while other calls run.                                                  *)
(*                                                                         *)
(* Data abstraction.  One asset; amounts are natural numbers; an entry has *)
(* the two legs that its builders give it.  The sequence number (reset by  *)
(* a restart, only displayed) is left out.                                 *)
(***************************************************************************)
EXTENDS Integers, Sequences

CONSTANTS
    Accounts,    \* rows of credit_accounts
    References,  \* what an entry may refer to
    Calls,       \* requests the API serves at the same time
    Openings     \* the balances the tables may start with

ASSUME OpeningsAreNat == Openings \subseteq [Accounts -> Nat]

VARIABLES
    balance,   \* account -> credit_accounts.balance
    frozen,    \* the accounts that warmup skips
    journal,   \* ledger_entries and ledger_legs, oldest first
    cache,     \* account -> balance in BalanceCache; 0 without an entry
    posting,   \* call -> the legs of its committed entry that the cache lacks
    drifted    \* history: accounts of which the cache missed a leg

ledgerVars == <<balance, frozen, journal, cache, posting, drifted>>

-----------------------------------------------------------------------------
Leg == [account : Accounts, delta : Int]
Entry == [from : Accounts, to : Accounts, amount : Nat, reference : References]

Transfer(from, to, amount, ref) ==
    [from |-> from, to |-> to, amount |-> amount, reference |-> ref]

\* A debit of -amount and a credit of +amount, in the order they are built.
Legs(e) == << [account |-> e.from, delta |-> -e.amount],
              [account |-> e.to,   delta |-> e.amount] >>

\* warmup sets the balance of every account that is not frozen; without it
\* the cache is empty, and an account that is not in it counts as 0.
Warm == [a \in Accounts |-> IF a \in frozen THEN 0 ELSE balance[a]]
Cold == [a \in Accounts |-> 0]
Stale(contents) == {a \in Accounts : contents[a] # balance[a]}

LedgerInit ==
    /\ balance \in Openings
    /\ frozen \in SUBSET Accounts
    /\ journal = << >>
    /\ cache \in {Warm, Cold}
    /\ posting = [c \in Calls |-> << >>]
    /\ drifted = Stale(cache)

-----------------------------------------------------------------------------
\* Mutant of Commit: the debit is made only where it leaves no debt, the credit
\* always.
CommitLenient(c, e) ==
    /\ journal' = Append(journal, e)
    /\ balance' = [balance EXCEPT ![e.from] = IF @ < e.amount THEN @ ELSE @ - e.amount,
                                  ![e.to] = @ + e.amount]
    /\ posting' = [posting EXCEPT ![c] = Legs(e)]
    /\ UNCHANGED <<frozen, cache, drifted>>

\* submit, up to its COMMIT.
Commit(c, e) ==
    /\ journal' = Append(journal, e)
    /\ balance' = [balance EXCEPT ![e.from] = @ - e.amount, ![e.to] = @ + e.amount]
    /\ posting' = [posting EXCEPT ![c] = Legs(e)]
    /\ UNCHANGED <<frozen, cache, drifted>>

\* The accounts of which call c has not applied its leg yet.
Unposted(c) == {posting[c][i].account : i \in DOMAIN posting[c]}

\* Mutant of ApplyDelta: the cache takes the balance that the table has now.
ApplyDeltaReads(c) ==
    /\ posting[c] # << >>
    /\ cache' = [cache EXCEPT ![Head(posting[c]).account] = balance[Head(posting[c]).account]]
    /\ posting' = [posting EXCEPT ![c] = Tail(@)]
    /\ UNCHANGED <<balance, frozen, journal, drifted>>

\* apply_delta for the next leg of call c.  It refuses to make a cached balance
\* negative, and submit only logs that.
ApplyDelta(c) ==
    /\ posting[c] # << >>
    /\ LET leg == Head(posting[c])
           sum == cache[leg.account] + leg.delta
       IN  IF sum >= 0
           THEN /\ cache' = [cache EXCEPT ![leg.account] = sum]
                /\ UNCHANGED drifted
           ELSE /\ drifted' = drifted \cup {leg.account}
                /\ UNCHANGED cache
    /\ posting' = [posting EXCEPT ![c] = Tail(@)]
    /\ UNCHANGED <<balance, frozen, journal>>

\* The COMMIT was done, but its answer is lost, or the call is dropped while it
\* waits for it: submit does not come to the cache.
LoseCommit(c) ==
    /\ Len(posting[c]) = 2
    /\ drifted' = drifted \cup Unposted(c)
    /\ posting' = [posting EXCEPT ![c] = << >>]
    /\ UNCHANGED <<balance, frozen, journal, cache>>

\* The process starts again: with the balances of the table, or cold when the
\* SELECT of warmup fails.
RestartLedger ==
    /\ posting' = [c \in Calls |-> << >>]
    /\ cache' \in {Warm, Cold}
    /\ drifted' = Stale(cache')
    /\ UNCHANGED <<balance, frozen, journal>>

-----------------------------------------------------------------------------
\* What legs that wait for the cache still have to add to the balance of a.
InFlight(legs, a) ==
    LET mine == {i \in DOMAIN legs : legs[i].account = a}
    IN  IF mine = {} THEN 0 ELSE legs[CHOOSE i \in mine : TRUE].delta
=============================================================================
