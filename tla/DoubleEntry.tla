---------------------------- MODULE DoubleEntry -----------------------------
(***************************************************************************)
(* What the ledger of fth-financial-core promises its callers              *)
(* (crates/fth-ledger/src/lib.rs: "every financial mutation produces       *)
(* balanced journal entries"): money only moves from one account to        *)
(* another, and each move is in the journal.                               *)
(* FinCore implements this module.                                         *)
(***************************************************************************)
EXTENDS Integers, Sequences

CONSTANTS Accounts, References

VARIABLES
    position,   \* account -> what it holds; a debit may make it negative
    history     \* the entries, oldest first

\* An entry with its two legs: a debit of one account, a credit of another.
Entry == [from : Accounts, to : Accounts, amount : Nat, reference : References]

Open == /\ position \in [Accounts -> Int]
        /\ history = << >>

\* The entry that the next state adds, and what it does to the positions.
Latest == history'[Len(history')]
Post ==
    /\ Len(history') = Len(history) + 1
    /\ history' = Append(history, Latest)
    /\ Latest \in Entry /\ Latest.from # Latest.to
    /\ position' = [position EXCEPT ![Latest.from] = @ - Latest.amount,
                                   ![Latest.to] = @ + Latest.amount]

LedgerSpec == Open /\ [][Post]_<<position, history>>

=============================================================================
