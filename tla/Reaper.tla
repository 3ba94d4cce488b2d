------------------------------- MODULE Reaper -------------------------------
(***************************************************************************)
(* fth-guardian, daemons/reaper.ts: every minute a cycle asks the sources  *)
(* of revenue, all at one time, and counts what they name: in the memory   *)
(* of the daemon, in guardian_revenue, in the audit log, and as an event.  *)
(* Staking rewards are read, claimed, and counted as they were read; the   *)
(* other sources are counters, which nothing resets.  The next cycle does  *)
(* not wait for this one.                                                  *)
(*                                                                         *)
(* Data abstraction.  Amounts are small numbers; the books of a stream are *)
(* what was counted in each.                                               *)
(***************************************************************************)
EXTENDS Integers, FiniteSets

CONSTANTS
    Rounds,      \* bound: cycles at one time
    Counters,    \* streams that only count
    Audited,     \* the streams that the audit log is told of
    MaxRevenue,  \* bound: what a source has to name
    MaxRounds    \* bound: cycles

Staking == "staking_rewards"
ASSUME ReaperConstants ==
    /\ MaxRevenue \in Nat /\ MaxRounds \in Nat
    /\ Staking \notin Counters
    /\ IsFiniteSet(Rounds)
Streams == Counters \cup {Staking}
Books == {"memory", "rows", "audit", "events"}

VARIABLES
    source,     \* stream -> what the source names
    books,      \* stream -> book -> what was counted
    collector,  \* round -> stream -> where collect...() is
    claimed,    \* history: round -> what the claim has got; "refused"
    rounds      \* collectionCount
reaperVars == <<source, books, collector, claimed, rounds>>

Resting == [at |-> "idle", amount |-> 0, alone |-> TRUE]
ReaperInit ==
    /\ source = [s \in Streams |-> 0]
    /\ books = [s \in Streams |-> [b \in Books |-> 0]]
    /\ collector = [r \in Rounds |-> [s \in Streams |-> Resting]]
    /\ claimed = [r \in Rounds |-> 0]
    /\ rounds = 0

-----------------------------------------------------------------------------
(* The sources (external) *)

Earn(s) ==
    /\ source[s] < MaxRevenue
    /\ source' = [source EXCEPT ![s] = @ + 1]
    /\ UNCHANGED <<books, collector, claimed, rounds>>

\* Whoever takes rewards comes between the question and the claim of other rounds.
Surprised(c, r) ==
    [q \in Rounds |->
        IF q = r THEN c[q] ELSE [c[q] EXCEPT ![Staking].alone = FALSE]]

-----------------------------------------------------------------------------
(* collectAll *)

Move(r, s, at) == collector' = [collector EXCEPT ![r][s].at = at]

StartRound(r) ==
    /\ \A s \in Streams : collector[r][s].at = "idle"
    /\ rounds < MaxRounds
    /\ collector' = [collector EXCEPT ![r] = [s \in Streams |-> [Resting EXCEPT !.at = "ask"]]]
    /\ claimed' = [claimed EXCEPT ![r] = 0]
    /\ UNCHANGED <<source, books, rounds>>

\* Fees and oracle rewards: a source may not know the method, and nothing is counted
\* for 0.
CollectCounter(r, s) ==
    /\ s \in Counters /\ collector[r][s].at = "ask"
    /\ collector' = [collector EXCEPT
          ![r][s] = [@ EXCEPT !.at = IF source[s] = 0 THEN "done" ELSE "count",
                              !.amount = source[s]]]
    /\ UNCHANGED <<source, books, claimed, rounds>>
CollectStakingRewards(r) ==
    /\ collector[r][Staking].at = "ask"
    /\ collector' = [collector EXCEPT
          ![r][Staking] = [at |-> IF source[Staking] = 0 THEN "done" ELSE "claim",
                           amount |-> source[Staking], alone |-> TRUE]]
    /\ UNCHANGED <<source, books, claimed, rounds>>

\* staking_claimRewards takes what is there by now.
ClaimRewards(r) ==
    /\ collector[r][Staking].at = "claim"
    /\ claimed' = [claimed EXCEPT ![r] = source[Staking]]
    /\ source' = [source EXCEPT ![Staking] = 0]
    /\ collector' = [Surprised(collector, r) EXCEPT ![r][Staking].at = "count"]
    /\ UNCHANGED <<books, rounds>>

\* An answer that is an error is not looked at.
ClaimRefused(r) ==
    /\ collector[r][Staking].at = "claim"
    /\ collector' = [collector EXCEPT ![r][Staking].at = "count", ![r][Staking].alone = FALSE]
    /\ UNCHANGED <<source, books, claimed, rounds>>

\* The request of a source or of the claim throws.
CollectThrows(r, s) ==
    /\ collector[r][s].at \in {"ask", "claim"}
    /\ Move(r, s, "done")
    /\ UNCHANGED <<source, books, claimed, rounds>>

\* this.totalUny, updateStream.
UpdateStream(r, s) ==
    /\ collector[r][s].at = "count"
    /\ books' = [books EXCEPT ![s]["memory"] = @ + collector[r][s].amount]
    /\ Move(r, s, "row")
    /\ UNCHANGED <<source, claimed, rounds>>

\* recordRevenue, and then the audit log and the event.  Mutant: it tells of the
\* revenue before the row is there.
Tell(b, s, n) ==
    [b EXCEPT ![s]["audit"] = IF s \in Audited THEN @ + n ELSE @, ![s]["events"] = @ + n]
RecordRevenueTold(r, s) ==
    /\ collector[r][s].at = "row"
    /\ LET n == collector[r][s].amount IN
       \/ books' = Tell([books EXCEPT ![s]["rows"] = @ + n], s, n)
       \/ books' = Tell(books, s, n)
    /\ Move(r, s, "done")
    /\ UNCHANGED <<source, claimed, rounds>>
RecordRevenue(r, s) ==
    /\ collector[r][s].at = "row"
    /\ LET n == collector[r][s].amount IN
       \/ books' = Tell([books EXCEPT ![s]["rows"] = @ + n], s, n)
       \/ UNCHANGED books     \* the INSERT fails
    /\ Move(r, s, "done")
    /\ UNCHANGED <<source, claimed, rounds>>

\* Promise.allSettled
EndRound(r) ==
    /\ \A s \in Streams : collector[r][s].at = "done"
    /\ collector' = [collector EXCEPT ![r] = [s \in Streams |-> Resting]]
    /\ rounds' = rounds + 1
    /\ UNCHANGED <<source, books, claimed>>

\* The hourly timer restakes what the validators have earned.
CompoundEarnings ==
    /\ source[Staking] > 0
    /\ source' = [source EXCEPT ![Staking] = 0]
    /\ collector' = [q \in Rounds |-> [collector[q] EXCEPT ![Staking].alone = FALSE]]
    /\ UNCHANGED <<books, claimed, rounds>>

ReaperNext ==
    \/ \E s \in Streams : Earn(s)
    \/ CompoundEarnings
    \/ \E r \in Rounds :
          \/ StartRound(r) \/ EndRound(r)
          \/ CollectStakingRewards(r) \/ ClaimRewards(r) \/ ClaimRefused(r)
          \/ \E s \in Streams : CollectCounter(r, s) \/ CollectThrows(r, s)
                                \/ UpdateStream(r, s) \/ RecordRevenue(r, s)

-----------------------------------------------------------------------------
(* Properties *)

\* What is announced or audited as revenue is in the table, and what is in the table is
\* in the totals of the daemon, whichever statements fail and however cycles overlap; and
\* rewards are not counted that the node has not paid, unless it refused the claim or
\* somebody took them between the question and the claim (reaper.ts:146-327).
RevenueIsBacked ==
    /\ \A s \in Streams :
          /\ books[s]["events"] <= books[s]["rows"]
          /\ books[s]["audit"] <= books[s]["rows"]
          /\ books[s]["rows"] <= books[s]["memory"]
    /\ \A r \in Rounds :
          (collector[r][Staking].at = "row" /\ collector[r][Staking].alone)
              => collector[r][Staking].amount <= claimed[r]
=============================================================================
