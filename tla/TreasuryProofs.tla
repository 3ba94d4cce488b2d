--------------------------- MODULE TreasuryProofs ---------------------------
(***************************************************************************)
(* Theorems about the treasury service, for any wallets, policies, ticks   *)
(* of the worker and concurrent requests: what a refill was decided on may *)
(* be stale, but at its COMMIT it is authorized and within the daily limit,*)
(* and one refill of an agent at most goes through after a global halt.    *)
(*                                                                         *)
(* TreasuryInv is inductive.  CallsAreSound says what a call works on;     *)
(* RowsAreLocked that a transaction which is past a lock still holds it,   *)
(* which is why the row has not changed since it was read; ChecksStillHold *)
(* that the checks of fundAgent before the daily limit hold until the      *)
(* refill is written; HaltsAreCounted ties the refills under a halt to it. *)
(***************************************************************************)
EXTENDS Treasury, Sums

TreasuryTypeOK ==
    /\ accounts \in [Wallets -> Account]
    /\ agents \in [Wallets -> Agent]
    /\ registered \in Seq(Wallets)
    /\ refills \in [Wallets -> Seq(Refill)]
    /\ halts \subseteq Scopes
    /\ late \in [Wallets -> Nat]
    /\ today \in 1..MaxDays
    /\ calls \in [Callers -> Call]
    /\ agentLock \in [Wallets -> Callers \cup {None}]
    /\ accountLock \in [Wallets -> Callers \cup {None}]

\* What a call works on, where it stands.
Sound(c) ==
    /\ calls[c].at = "check" => calls[c].todo # << >>
    /\ calls[c].at \notin {"idle", "check"} => wallet(c) \in Wallets
    /\ calls[c].at \in {"lockAgent", "lockAccount", "halts", "fund"} => calls[c].day >= 1

CallsAreSound == \A c \in Callers : Sound(c)

HoldsRows(c) ==
    /\ calls[c].at \in {"lockAccount", "halts", "fund", "regCommit"} =>
          agentLock[wallet(c)] = c
    /\ calls[c].at \in {"halts", "fund", "regAgent", "regCommit"} =>
          accountLock[wallet(c)] = c

RowsAreLocked == \A c \in Callers : HoldsRows(c)

\* After the checks of fundAgent: no refill under a halt came first.
Checked(c) ==
    calls[c].at = "fund" =>
        /\ Eligible(wallet(c))
        /\ calls[c].amount > 0
        /\ calls[c].amount <= agents[wallet(c)].policy.max_single
        /\ late[wallet(c)] = 0

ChecksStillHold == \A c \in Callers : Checked(c)

HaltsAreCounted ==
    \A w \in Wallets : late[w] <= 1 /\ ("global" \notin halts => late[w] = 0)

TreasuryInv ==
    TreasuryTypeOK /\ CallsAreSound /\ RowsAreLocked /\ ChecksStillHold /\ HaltsAreCounted

-----------------------------------------------------------------------------
(* Operators *)

\* The least of a few integers is one of them.
LEMMA MinIsIn ==
    ASSUME NEW a \in Int, NEW b \in Int, NEW c \in Int
    PROVE  /\ Min({a, b}) \in {a, b} /\ Min({a, b}) <= a
           /\ Min({a, b, c}) \in {a, b, c}
<1>1. /\ \E x \in {a, b} : \A y \in {a, b} : x <= y
      /\ \E x \in {a, b, c} : \A y \in {a, b, c} : x <= y
  OBVIOUS
<1>. QED  BY <1>1 DEF Min

\* A finite set of numbers that is not empty has a least element.
LEMMA LeastExists ==
    ASSUME NEW S \in SUBSET Nat, IsFiniteSet(S), S # {}
    PROVE  \E n \in S : \A m \in S : n <= m
<1>. DEFINE F == {T \in SUBSET S : T # {} => \E n \in T : \A m \in T : n <= m}
<1>1. {} \in F
  OBVIOUS
<1>2. ASSUME NEW T \in SUBSET S, NEW x \in S \ T, T \in F PROVE T \cup {x} \in F
  <2>1. CASE T = {}
    BY <2>1
  <2>2. CASE T # {}
    <3>1. PICK n \in T : \A m \in T : n <= m
      BY <1>2, <2>2
    <3>2. CASE n <= x
      BY <3>1, <3>2
    <3>3. CASE x < n
      <4>1. \A m \in T \cup {x} : x <= m
        BY <3>1, <3>3
      <4>. QED  BY <4>1
    <3>. QED  BY <3>2, <3>3
  <2>. QED  BY <2>1, <2>2
<1>3. S \in F
  <2>. HIDE DEF F
  <2>. QED  BY <1>1, <1>2, SetInduction
<1>. QED  BY <1>3

\* A finite set of k numbers or more has a k-th largest.
LEMMA LargestIsIn ==
    ASSUME NEW S \in SUBSET Nat, IsFiniteSet(S), NEW k \in 1..Cardinality(S)
    PROVE  Largest(k, S) \in S
<1>. DEFINE Ranked(T) == \A j \in 1..Cardinality(T) :
                          \E n \in T : Cardinality({m \in T : m >= n}) = j
            F == {c \in Nat : \A T \in SUBSET S : Cardinality(T) = c => Ranked(T)}
<1>0. \A T \in SUBSET S : IsFiniteSet(T) /\ Cardinality(T) \in Nat
  BY FS_Subset, FS_CardinalityType
<1>1. 0 \in F
  OBVIOUS
<1>2. ASSUME NEW c \in Nat, c \in F PROVE c + 1 \in F
  <2>. SUFFICES ASSUME NEW T \in SUBSET S, Cardinality(T) = c + 1 PROVE Ranked(T)
    <3>. HIDE DEF Ranked
    <3>. QED  OBVIOUS
  <2>. SUFFICES ASSUME NEW j \in 1..(c + 1)
                PROVE  \E n \in T : Cardinality({m \in T : m >= n}) = j
    OBVIOUS
  <2>1. PICK a \in T : \A m \in T : a <= m
    <3>1. T # {}
      BY FS_EmptySet
    <3>. QED  BY <1>0, <3>1, LeastExists
  <2>2. CASE j = c + 1
    <3>1. {m \in T : m >= a} = T
      BY <2>1
    <3>. QED  BY <2>2, <3>1
  <2>3. CASE j \in 1..c
    <3>. DEFINE R == T \ {a}
    <3>1. R \in SUBSET S /\ Cardinality(R) = c
      BY <1>0, FS_RemoveElement
    <3>2. PICK n \in R : Cardinality({m \in R : m >= n}) = j
      BY <1>2, <2>3, <3>1
    <3>3. {m \in T : m >= n} = {m \in R : m >= n}
      BY <2>1
    <3>. QED  BY <3>2, <3>3
  <2>. QED  BY <2>2, <2>3
<1>3. Cardinality(S) \in F
  <2>. HIDE DEF F
  <2>. QED  BY <1>0, <1>1, <1>2, NatInduct
<1>. QED  BY <1>3 DEF Largest

\* What a tick lists.
LEMMA ListedAgentsType ==
    ASSUME TreasuryTypeOK
    PROVE  ListedAgents \in Seq(Wallets)
<1>. DEFINE active == {n \in 1..Len(registered) : agents[registered[n]].status = "active"}
            size == Min({Cardinality(active), AgentLimit})
<1>1. registered \in Seq(Wallets) /\ Len(registered) \in Nat
  BY DEF TreasuryTypeOK
<1>2. IsFiniteSet(active) /\ active \in SUBSET Nat /\ Cardinality(active) \in Nat
  <2>1. IsFiniteSet(1..Len(registered))
    BY <1>1, PositionsFinite
  <2>. QED  BY <1>1, <2>1, FS_Subset, FS_CardinalityType
<1>3. size \in Nat /\ size <= Cardinality(active)
  <2>. HIDE DEF active
  <2>. QED  BY <1>2, MinIsIn, BoundsArePositive
<1>4. \A k \in 1..size : Largest(k, active) \in active
  <2>. HIDE DEF active, size
  <2>1. \A k \in 1..size : k \in 1..Cardinality(active)
    BY <1>2, <1>3
  <2>. QED  BY <1>2, <2>1, LargestIsIn
<1>5. \A k \in 1..size : registered[Largest(k, active)] \in Wallets
  BY <1>1, <1>4
<1>6. ListedAgents = [k \in 1..size |-> registered[Largest(k, active)]]
  BY DEF ListedAgents
<1>. HIDE DEF active, size
<1>. QED  BY <1>3, <1>5, <1>6

\* The amounts of some rows add up like any sum.
LEMMA SumAmountsIsTotal ==
    ASSUME NEW r, NEW S, IsFiniteSet(S), NEW f, \A n \in S : f[n] = r[n].amount /\ f[n] \in Int
    PROVE  SumAmounts(r, S) = Total(f, S)
<1>. DEFINE P(g) == g = [s \in SUBSET S |->
                          IF s = {} THEN 0
                          ELSE r[CHOOSE x \in s : TRUE].amount + g[s \ {CHOOSE x \in s : TRUE}]]
            c == CHOOSE g : P(g)
<1>1. ASSUME NEW g PROVE P(g) <=> AddsUp(g, f, S)
  <2>1. \A s \in SUBSET S : s # {} => f[First(s)] = r[First(s)].amount
    BY FirstIsIn
  <2>2. [s \in SUBSET S |-> IF s = {} THEN 0 ELSE r[First(s)].amount + g[s \ {First(s)}]]
        = [s \in SUBSET S |-> IF s = {} THEN 0 ELSE f[First(s)] + g[s \ {First(s)}]]
    BY <2>1
  <2>. QED  BY <2>2 DEF AddsUp, First
<1>2. P(c)
  <2>1. PICK g : AddsUp(g, f, S)
    BY SumExists
  <2>. HIDE DEF P
  <2>. QED  BY <1>1, <2>1
<1>3. SumAmounts(r, S) = c[S]
  BY DEF SumAmounts, MapThenSumSet, MapThenFoldSet
<1>. HIDE DEF c, P
<1>4. SumOf(c, f, S)
  BY <1>1, <1>2 DEF SumOf
<1>5. PICK g : SumOf(g, f, S) /\ Total(f, S) = g[S]
  BY TotalIsSum
<1>. QED  BY <1>3, <1>4, <1>5, SumAgrees

\* What was refilled on a day is at most what was refilled since.
LEMMA RefillsOfOneDay ==
    ASSUME NEW r \in Seq(Refill), NEW day \in Nat
    PROVE  LET On == {n \in 1..Len(r) : r[n].day = day}
               Since == {n \in 1..Len(r) : r[n].day >= day}
           IN  /\ SumAmounts(r, On) \in Nat
               /\ SumAmounts(r, Since) \in Nat
               /\ SumAmounts(r, On) <= SumAmounts(r, Since)
<1>. DEFINE On == {n \in 1..Len(r) : r[n].day = day}
            Since == {n \in 1..Len(r) : r[n].day >= day}
            f == [n \in 1..Len(r) |-> r[n].amount]
<1>0. Len(r) \in Nat /\ \A n \in 1..Len(r) : r[n] \in Refill
  OBVIOUS
<1>1. /\ \A n \in 1..Len(r) : f[n] = r[n].amount /\ f[n] \in Nat
      /\ On \subseteq Since /\ Since \subseteq 1..Len(r)
  BY <1>0, BoundsArePositive DEF Refill
<1>. HIDE DEF On, Since, f
<1>2. IsFiniteSet(On) /\ IsFiniteSet(Since)
  <2>1. IsFiniteSet(1..Len(r))
    BY <1>0, PositionsFinite
  <2>. QED  BY <1>1, <2>1, FS_Subset
<1>3. SumAmounts(r, On) = Total(f, On) /\ SumAmounts(r, Since) = Total(f, Since)
  <2>1. \A n \in Since : f[n] = r[n].amount /\ f[n] \in Int
    BY <1>1
  <2>. QED  BY <1>1, <1>2, <2>1, SumAmountsIsTotal
<1>4. Total(f, On) \in Nat /\ Total(f, Since) \in Nat /\ Total(f, On) <= Total(f, Since)
  BY <1>1, <1>2, TotalNat, TotalPart
<1>. QED  BY <1>3, <1>4 DEF On, Since

\* A new refill adds its amount to what was refilled on its day.
LEMMA RefillAdded ==
    ASSUME NEW r \in Seq(Refill), NEW e \in Refill
    PROVE  RefilledOn(Append(r, e), e.day) = RefilledOn(r, e.day) + e.amount
<1>. DEFINE q == Append(r, e)
            n == Len(r) + 1
            On == {m \in 1..Len(r) : r[m].day = e.day}
            f == [m \in 1..Len(q) |-> q[m].amount]
<1>1. /\ Len(r) \in Nat /\ Len(q) = n /\ q[n] = e
      /\ \A m \in 1..Len(r) : q[m] = r[m]
  OBVIOUS
<1>2. \A m \in 1..n : q[m] \in Refill
  BY <1>1
<1>. HIDE DEF q
<1>3. {m \in 1..Len(q) : q[m].day = e.day} = On \cup {n}
  BY <1>1
<1>4. /\ \A m \in On \cup {n} : f[m] = q[m].amount /\ f[m] \in Int
      /\ \A m \in On : q[m] = r[m]
      /\ f[n] = e.amount
      /\ n \notin On
  BY <1>1, <1>2 DEF Refill
<1>5. IsFiniteSet(On) /\ IsFiniteSet(On \cup {n})
  <2>1. IsFiniteSet(On)
    <3>1. IsFiniteSet(1..Len(r)) /\ On \subseteq 1..Len(r)
      BY <1>1, PositionsFinite
    <3>. HIDE DEF On
    <3>. QED  BY <3>1, FS_Subset
  <2>. QED  BY <2>1, FS_AddElement
<1>. HIDE DEF On, f, n
<1>6. SumAmounts(q, On \cup {n}) = Total(f, On \cup {n})
  BY <1>4, <1>5, SumAmountsIsTotal
<1>7. SumAmounts(r, On) = Total(f, On)
  BY <1>4, <1>5, SumAmountsIsTotal
<1>8. Total(f, On \cup {n}) = Total(f, On) + f[n]
  BY <1>4, <1>5, TotalAdd
<1>. QED  BY <1>3, <1>4, <1>6, <1>7, <1>8 DEF RefilledOn, q, On

-----------------------------------------------------------------------------
(* The invariant: parts of steps *)

\* Empty tables and idle callers satisfy the invariant.
LEMMA TreasuryInitInv == Init => TreasuryInv
<1>. SUFFICES ASSUME Init PROVE TreasuryInv
  OBVIOUS
<1>1. /\ NoAccount \in Account /\ NoAgent \in Agent /\ NoCall \in Call
      /\ 1 \in 1..MaxDays
  BY BoundsArePositive DEF NoAccount, Account, NoAgent, Agent, NoCall, Call, Phases
<1>2. TreasuryTypeOK
  BY <1>1 DEF Init, CreditsInit, TreasuryTypeOK, Scopes
<1>3. CallsAreSound /\ RowsAreLocked /\ ChecksStillHold /\ HaltsAreCounted
  BY DEF Init, NoCall, CallsAreSound, Sound, RowsAreLocked, HoldsRows, ChecksStillHold,
         Checked, HaltsAreCounted
<1>. QED  BY <1>2, <1>3 DEF TreasuryInv

\* A step leaves d its locks and what they protect.
KeepsRowsOf(d) ==
    \A w \in Wallets :
        /\ agentLock[w] = d =>
              agentLock'[w] = d /\ agents'[w] = agents[w] /\ late'[w] \in {0, late[w]}
        /\ accountLock[w] = d =>
              accountLock'[w] = d /\ accounts'[w].frozen = accounts[w].frozen

\* Such a step leaves a call that it does not move as it was.
LEMMA RowsKept ==
    ASSUME TreasuryInv, NEW d \in Callers, KeepsRowsOf(d), calls'[d] = calls[d]
    PROVE  Sound(d)' /\ HoldsRows(d)' /\ Checked(d)'
<1>1. Sound(d) /\ HoldsRows(d) /\ Checked(d)
  BY DEF TreasuryInv, CallsAreSound, RowsAreLocked, ChecksStillHold
<1>2. Sound(d)'
  BY <1>1 DEF Sound, wallet
<1>3. HoldsRows(d)'
  BY <1>1 DEF Sound, HoldsRows, KeepsRowsOf, wallet
<1>4. Checked(d)'
  BY <1>1 DEF Sound, HoldsRows, Checked, Eligible, KeepsRowsOf, wallet
<1>. QED  BY <1>2, <1>3, <1>4

\* A step of c that keeps the types, c itself in order, the rows of the others
\* and the count of refills under a halt.
LEMMA CallMoved ==
    ASSUME TreasuryInv, NEW c \in Callers, TreasuryTypeOK', HaltsAreCounted',
           Sound(c)' /\ HoldsRows(c)' /\ Checked(c)',
           \A d \in Callers \ {c} : KeepsRowsOf(d) /\ calls'[d] = calls[d]
    PROVE  TreasuryInv'
<1>1. \A d \in Callers : Sound(d)' /\ HoldsRows(d)' /\ Checked(d)'
  BY RowsKept
<1>. QED  BY <1>1 DEF TreasuryInv, CallsAreSound, RowsAreLocked, ChecksStillHold

\* A step that moves no call.
LEMMA WorldMoved ==
    ASSUME TreasuryInv, TreasuryTypeOK', HaltsAreCounted', UNCHANGED calls,
           \A d \in Callers : KeepsRowsOf(d)
    PROVE  TreasuryInv'
<1>1. \A d \in Callers : Sound(d)' /\ HoldsRows(d)' /\ Checked(d)'
  BY RowsKept
<1>. QED  BY <1>1 DEF TreasuryInv, CallsAreSound, RowsAreLocked, ChecksStillHold

\* A step of c that only reads.
LEMMA ReadMoved ==
    ASSUME TreasuryInv, NEW c \in Callers, NEW k \in Call, calls' = [calls EXCEPT ![c] = k],
           ReadOnly, Sound(c)' /\ HoldsRows(c)' /\ Checked(c)'
    PROVE  TreasuryInv'
<1>1. TreasuryTypeOK'
  BY DEF TreasuryInv, TreasuryTypeOK, ReadOnly, treasury, locks
<1>2. HaltsAreCounted'
  BY DEF TreasuryInv, HaltsAreCounted, ReadOnly
<1>3. \A d \in Callers \ {c} : KeepsRowsOf(d) /\ calls'[d] = calls[d]
  BY DEF TreasuryInv, TreasuryTypeOK, KeepsRowsOf, ReadOnly, treasury, locks
<1>. QED  BY <1>1, <1>2, <1>3, CallMoved

\* A call that ends, or a tick that goes on with its next agent.
AtRest(k) == k \in Call /\ k.at \in {"idle", "check"} /\ (k.at = "check" => k.todo # << >>)

\* A call that ends keeps the invariant.
LEMMA FinishRests ==
    ASSUME TreasuryTypeOK, NEW c \in Callers, Finish(c)
    PROVE  \E k : AtRest(k) /\ calls' = [calls EXCEPT ![c] = k]
<1>1. calls[c] \in Call
  BY DEF TreasuryTypeOK
<1>2. calls[c].todo \in Seq(Wallets)
  BY <1>1 DEF Call
<1>3. NoCall \in Call
  BY BoundsArePositive DEF NoAgent, NoCall, Call, Phases
<1>4. AtRest(NoCall)
  BY <1>3 DEF AtRest, NoCall
<1>5. calls[c].todo # << >> =>
        AtRest([NoCall EXCEPT !.at = "check", !.todo = calls[c].todo])
  BY <1>2, <1>3 DEF AtRest, NoCall, Call, Phases
<1>. QED  BY <1>4, <1>5 DEF Finish

\* A call at rest needs no lock.
LEMMA RestNeedsNothing ==
    ASSUME TreasuryTypeOK, NEW c \in Callers, NEW k, AtRest(k), calls' = [calls EXCEPT ![c] = k]
    PROVE  Sound(c)' /\ HoldsRows(c)' /\ Checked(c)'
<1>1. calls'[c] = k
  BY DEF TreasuryTypeOK
<1>. QED  BY <1>1 DEF AtRest, Sound, HoldsRows, Checked, wallet

\* A COMMIT or ROLLBACK of c leaves the others their locks.
LEMMA LocksReleased ==
    ASSUME TreasuryTypeOK, NEW c \in Callers, ReleaseLocks(c)
    PROVE  /\ agentLock' \in [Wallets -> Callers \cup {None}]
           /\ accountLock' \in [Wallets -> Callers \cup {None}]
           /\ \A d \in Callers \ {c}, w \in Wallets :
                 /\ agentLock[w] = d => agentLock'[w] = d
                 /\ accountLock[w] = d => accountLock'[w] = d
  BY DEF TreasuryTypeOK, ReleaseLocks, Unlocked

\* A call that throws.
LEMMA ThrowInv ==
    ASSUME TreasuryInv, NEW c \in Callers, Throw(c)
    PROVE  TreasuryInv'
<1>1. NoCall \in Call /\ AtRest(NoCall)
  BY BoundsArePositive DEF AtRest, NoAgent, NoCall, Call, Phases
<1>2. TreasuryTypeOK'
  BY <1>1, LocksReleased DEF TreasuryInv, TreasuryTypeOK, Throw, treasury
<1>3. HaltsAreCounted'
  BY DEF TreasuryInv, HaltsAreCounted, Throw
<1>4. \A d \in Callers \ {c} : KeepsRowsOf(d) /\ calls'[d] = calls[d]
  BY LocksReleased DEF TreasuryInv, TreasuryTypeOK, KeepsRowsOf, Throw, treasury
<1>5. Sound(c)' /\ HoldsRows(c)' /\ Checked(c)'
  BY <1>1, RestNeedsNothing DEF TreasuryInv, Throw
<1>. QED  BY <1>2, <1>3, <1>4, <1>5, CallMoved

-----------------------------------------------------------------------------
(* The invariant: one lemma per action *)

\* The fields of a call.
LEMMA OneTreasuryCall ==
    ASSUME TreasuryInv, NEW c \in Callers
    PROVE  /\ calls[c] \in Call
           /\ Sound(c) /\ HoldsRows(c) /\ Checked(c)
           /\ wallet(c) \in Wallets \cup {None}
  BY DEF TreasuryInv, TreasuryTypeOK, CallsAreSound, RowsAreLocked, ChecksStillHold, Call, wallet

\* A read that ends a call.
LEMMA ReadFinishInv ==
    ASSUME TreasuryInv, NEW c \in Callers, Finish(c), ReadOnly
    PROVE  TreasuryInv'
<1>1. PICK k : AtRest(k) /\ calls' = [calls EXCEPT ![c] = k]
  BY FinishRests DEF TreasuryInv
<1>2. Sound(c)' /\ HoldsRows(c)' /\ Checked(c)'
  BY <1>1, RestNeedsNothing DEF TreasuryInv
<1>. QED  BY <1>1, <1>2, ReadMoved DEF AtRest

\* A tick that starts has agents to check.
LEMMA StartTickInv ==
    ASSUME TreasuryInv, NEW c \in Callers, StartTick(c)
    PROVE  TreasuryInv'
<1>. DEFINE k == [calls[c] EXCEPT !.at = "check", !.todo = ListedAgents]
<1>1. AtRest(k)
  BY OneTreasuryCall, ListedAgentsType DEF TreasuryInv, StartTick, AtRest, Call, Phases
<1>2. calls' = [calls EXCEPT ![c] = k] /\ ReadOnly
  BY DEF TreasuryInv, TreasuryTypeOK, StartTick
<1>. HIDE DEF k
<1>3. Sound(c)' /\ HoldsRows(c)' /\ Checked(c)'
  BY <1>1, <1>2, RestNeedsNothing DEF TreasuryInv
<1>. QED  BY <1>1, <1>2, <1>3, ReadMoved DEF AtRest

\* The agent that a tick checks is one of those it listed.
LEMMA WorkerCheckInv ==
    ASSUME TreasuryInv, NEW c \in Callers, WorkerCheck(c)
    PROVE  TreasuryInv'
<1>. DEFINE w == Head(calls[c].todo)
            rest == Tail(calls[c].todo)
            go == [NoCall EXCEPT !.at = "read", !.wallet = w, !.todo = rest]
            on == [NoCall EXCEPT !.todo = rest, !.at = IF rest = << >> THEN "idle" ELSE "check"]
<1>1. calls[c].todo \in Seq(Wallets) /\ calls[c].todo # << >>
  BY OneTreasuryCall DEF Sound, Call, WorkerCheck
<1>2. w \in Wallets /\ rest \in Seq(Wallets)
  BY <1>1
<1>. HIDE DEF w, rest
<1>0. NoCall \in Call
  BY BoundsArePositive DEF NoAgent, NoCall, Call, Phases
<1>3. go \in Call /\ AtRest(on)
  <2>1. go \in Call
    BY <1>0, <1>2 DEF Call, Phases
  <2>2. CASE rest = << >>
    BY <1>0, <1>2, <2>2 DEF AtRest, NoCall, Call, Phases
  <2>3. CASE rest # << >>
    BY <1>0, <1>2, <2>3 DEF AtRest, NoCall, Call, Phases
  <2>. QED  BY <2>1, <2>2, <2>3
<1>4. go.at = "read" /\ go.wallet \in Wallets
  BY <1>2 DEF NoCall
<1>5. ReadOnly /\ (calls' = [calls EXCEPT ![c] = go] \/ calls' = [calls EXCEPT ![c] = on])
  BY DEF WorkerCheck, w, rest
<1>. HIDE DEF go, on
<1>6. CASE calls' = [calls EXCEPT ![c] = go]
  <2>1. calls'[c] = go
    BY <1>6 DEF TreasuryInv, TreasuryTypeOK
  <2>2. Sound(c)' /\ HoldsRows(c)' /\ Checked(c)'
    BY <1>4, <2>1 DEF Sound, HoldsRows, Checked, wallet
  <2>. QED  BY <1>3, <1>5, <1>6, <2>2, ReadMoved
<1>7. CASE calls' = [calls EXCEPT ![c] = on]
  <2>1. Sound(c)' /\ HoldsRows(c)' /\ Checked(c)'
    BY <1>3, <1>7, RestNeedsNothing DEF TreasuryInv
  <2>. QED  BY <1>3, <1>5, <1>7, <2>1, ReadMoved DEF AtRest
<1>. QED  BY <1>5, <1>6, <1>7

\* A call that goes to a phase in which it needs no lock, for a wallet.
LEMMA LocklessMoved ==
    ASSUME TreasuryInv, NEW c \in Callers, NEW k \in Call, calls' = [calls EXCEPT ![c] = k],
           ReadOnly, k.wallet \in Wallets,
           k.at \in {"read", "decide", "begin", "regRead", "regUpdate", "regInsert"}
    PROVE  TreasuryInv'
<1>1. calls'[c] = k
  BY DEF TreasuryInv, TreasuryTypeOK
<1>2. Sound(c)' /\ HoldsRows(c)' /\ Checked(c)'
  BY <1>1 DEF Sound, HoldsRows, Checked, wallet
<1>. QED  BY <1>2, ReadMoved

\* A request starts a refill, a funding or a registration.
LEMMA RequestInv ==
    ASSUME TreasuryInv, NEW c \in Callers, Request(c)
    PROVE  TreasuryInv'
<1>1. PICK w \in Wallets :
        \/ StartRefill(c, w)
        \/ \E amount \in Amounts : StartFund(c, w, amount)
        \/ \E ns \in Namespaces \cup {None}, p \in Policies, key \in Keys \cup {None} :
              StartRegister(c, w, ns, p, key)
  BY DEF Request
<1>2. calls[c] \in Call /\ NoCall \in Call
  BY OneTreasuryCall, BoundsArePositive DEF NoAgent, NoCall, Call, Phases
<1>3. CASE StartRefill(c, w)
  <2>. DEFINE k == [calls[c] EXCEPT !.at = "read", !.wallet = w]
  <2>1. k \in Call /\ k.at = "read" /\ k.wallet = w
    BY <1>2 DEF Call, Phases
  <2>2. calls' = [calls EXCEPT ![c] = k] /\ ReadOnly
    BY <1>3 DEF StartRefill, TreasuryInv, TreasuryTypeOK
  <2>. HIDE DEF k
  <2>. QED  BY <2>1, <2>2, LocklessMoved
<1>4. ASSUME NEW amount \in Amounts, StartFund(c, w, amount) PROVE TreasuryInv'
  <2>. DEFINE k == [NoCall EXCEPT !.at = "begin", !.wallet = w, !.amount = amount]
  <2>1. k \in Call /\ k.at = "begin" /\ k.wallet = w
    <3>1. amount \in Int
      BY AmountsArePositive
    <3>. QED  BY <1>2, <3>1 DEF NoCall, Call, Phases
  <2>2. calls' = [calls EXCEPT ![c] = k] /\ ReadOnly
    BY <1>4 DEF StartFund
  <2>. HIDE DEF k
  <2>. QED  BY <2>1, <2>2, LocklessMoved
<1>5. ASSUME NEW ns \in Namespaces \cup {None}, NEW p \in Policies,
             NEW key \in Keys \cup {None}, StartRegister(c, w, ns, p, key)
      PROVE  TreasuryInv'
  <2>. DEFINE k == [NoCall EXCEPT !.at = "regRead", !.wallet = w, !.key = key,
                      !.agent = [status |-> "active", namespace |-> ns, policy |-> p]]
  <2>1. k \in Call /\ k.at = "regRead" /\ k.wallet = w
    BY <1>2 DEF Call, Phases, RegisterPhases
  <2>2. calls' = [calls EXCEPT ![c] = k] /\ ReadOnly
    BY <1>5 DEF StartRegister
  <2>. HIDE DEF k
  <2>. QED  BY <2>1, <2>2, LocklessMoved
<1>. QED  BY <1>1, <1>3, <1>4, <1>5

\* evaluateAgent reads the agent and its balance.
LEMMA ReadAgentInv ==
    ASSUME TreasuryInv, NEW c \in Callers, ReadAgent(c)
    PROVE  TreasuryInv'
<1>. DEFINE k == [calls[c] EXCEPT !.at = "decide", !.agent = agents[wallet(c)],
                                  !.balance = accounts[wallet(c)].balance]
<1>1. calls[c] \in Call /\ wallet(c) \in Wallets /\ calls[c].wallet = wallet(c)
  BY OneTreasuryCall DEF ReadAgent, Sound, wallet
<1>2. agents[wallet(c)] \in Agent /\ accounts[wallet(c)].balance \in Int
  BY <1>1 DEF TreasuryInv, TreasuryTypeOK, Account
<1>3. k \in Call /\ k.at = "decide" /\ k.wallet \in Wallets
  BY <1>1, <1>2 DEF Call, Phases, Agent
<1>4. ReadOnly /\ (calls' = [calls EXCEPT ![c] = k] \/ Finish(c))
  BY DEF ReadAgent, TreasuryInv, TreasuryTypeOK
<1>. HIDE DEF k
<1>. QED  BY <1>3, <1>4, LocklessMoved, ReadFinishInv

\* A recommendation is an integer.
LEMMA RecommendedType ==
    ASSUME TreasuryTypeOK, NEW w \in Wallets, NEW b \in Int, NEW p \in Policies \cup {NoPolicy},
           NEW day \in Nat
    PROVE  Recommended(b, p, DailyRefilled(w, day)) \in Int
<1>1. p \in Policy
  BY PoliciesAreOrdered DEF NoPolicy, Policy
<1>2. DailyRefilled(w, day) \in Nat
  <2>1. refills[w] \in Seq(Refill)
    BY DEF TreasuryTypeOK
  <2>. QED  BY <2>1, RefillsOfOneDay DEF DailyRefilled
<1>. DEFINE remaining == IF p.max_daily > DailyRefilled(w, day)
                         THEN p.max_daily - DailyRefilled(w, day) ELSE 0
<1>3. remaining \in Int /\ p.target - b \in Int /\ p.max_single \in Int
  BY <1>1, <1>2 DEF Policy
<1>4. Min({p.target - b, p.max_single, remaining}) \in Int
  <2>1. \A x, y, z \in Int : Min({x, y, z}) \in Int
    BY MinIsIn
  <2>. HIDE DEF remaining
  <2>. QED  BY <1>3, <2>1
<1>. QED  BY <1>4 DEF Recommended

\* triggerRecommendedRefill decides on an amount.
LEMMA DecideInv ==
    ASSUME TreasuryInv, NEW c \in Callers, Decide(c)
    PROVE  TreasuryInv'
<1>. DEFINE amount == Recommended(calls[c].balance, calls[c].agent.policy,
                                  DailyRefilled(wallet(c), today))
            k == [calls[c] EXCEPT !.at = "begin", !.amount = amount]
<1>1. calls[c] \in Call /\ wallet(c) \in Wallets /\ calls[c].wallet = wallet(c)
  BY OneTreasuryCall DEF Decide, Sound, wallet
<1>2. amount \in Int
  <2>1. calls[c].balance \in Int /\ calls[c].agent.policy \in Policies \cup {NoPolicy}
    BY <1>1 DEF Call
  <2>2. today \in Nat
    BY BoundsArePositive DEF TreasuryInv, TreasuryTypeOK
  <2>. QED  BY <1>1, <2>1, <2>2, RecommendedType DEF TreasuryInv
<1>3. ReadOnly /\ (calls' = [calls EXCEPT ![c] = k] \/ Finish(c))
  BY DEF Decide, TreasuryInv, TreasuryTypeOK
<1>. HIDE DEF amount
<1>4. k \in Call /\ k.at = "begin" /\ k.wallet \in Wallets
  BY <1>1, <1>2 DEF Call, Phases
<1>. HIDE DEF k
<1>. QED  BY <1>3, <1>4, LocklessMoved, ReadFinishInv

\* BEGIN dates the transaction.
LEMMA BeginInv ==
    ASSUME TreasuryInv, NEW c \in Callers, Begin(c)
    PROVE  TreasuryInv'
<1>. DEFINE k == [calls[c] EXCEPT !.at = "lockAgent", !.day = today]
<1>1. calls[c] \in Call /\ wallet(c) \in Wallets
  BY OneTreasuryCall DEF Begin, Sound
<1>2. today \in 0..MaxDays /\ today >= 1
  BY BoundsArePositive DEF TreasuryInv, TreasuryTypeOK
<1>3. k \in Call /\ k.at = "lockAgent" /\ k.wallet \in Wallets /\ k.day >= 1
  <2>1. calls[c].wallet \in Wallets
    BY <1>1 DEF wallet
  <2>. QED  BY <1>1, <1>2, <2>1 DEF Call, Phases
<1>4. calls' = [calls EXCEPT ![c] = k] /\ ReadOnly
  BY DEF Begin, TreasuryInv, TreasuryTypeOK
<1>. HIDE DEF k
<1>5. calls'[c] = k
  BY <1>4 DEF TreasuryInv, TreasuryTypeOK
<1>6. Sound(c)' /\ HoldsRows(c)' /\ Checked(c)'
  BY <1>3, <1>5 DEF Sound, HoldsRows, Checked, wallet
<1>. QED  BY <1>3, <1>4, <1>6, ReadMoved

\* What Goto does to the call and to the others.
LEMMA GotoCall ==
    ASSUME TreasuryTypeOK, NEW c \in Callers, NEW phase \in Phases, Goto(c, phase)
    PROVE  /\ calls' \in [Callers -> Call]
           /\ calls'[c].at = phase
           /\ calls'[c].wallet = calls[c].wallet
           /\ calls'[c].day = calls[c].day
           /\ calls'[c].amount = calls[c].amount
           /\ \A d \in Callers \ {c} : calls'[d] = calls[d]
<1>. DEFINE k == [calls[c] EXCEPT !.at = phase]
<1>1. calls' = [calls EXCEPT ![c] = k]
  BY DEF Goto, TreasuryTypeOK
<1>2. calls[c] \in Call
  BY DEF TreasuryTypeOK
<1>3. /\ k \in Call /\ k.at = phase /\ k.wallet = calls[c].wallet
      /\ k.day = calls[c].day /\ k.amount = calls[c].amount
  BY <1>2 DEF Call
<1>. HIDE DEF k
<1>. QED  BY <1>1, <1>3 DEF TreasuryTypeOK

\* A step that locks rows, or none, for c and goes to the next phase.
LEMMA LockMoved ==
    ASSUME TreasuryInv, NEW c \in Callers, NEW phase \in Phases, Goto(c, phase),
           UNCHANGED <<accounts, creditTx, treasury, halts, late, today>>,
           \/ UNCHANGED agentLock
           \/ agentLock[wallet(c)] = None /\ agentLock' = [agentLock EXCEPT ![wallet(c)] = c],
           \/ UNCHANGED accountLock
           \/ accountLock[wallet(c)] = None
              /\ accountLock' = [accountLock EXCEPT ![wallet(c)] = c],
           Sound(c)' /\ HoldsRows(c)' /\ Checked(c)'
    PROVE  TreasuryInv'
<1>1. TreasuryTypeOK'
  <2>1. calls' \in [Callers -> Call]
    BY GotoCall DEF TreasuryInv
  <2>2. /\ agentLock' \in [Wallets -> Callers \cup {None}]
        /\ accountLock' \in [Wallets -> Callers \cup {None}]
    BY DEF TreasuryInv, TreasuryTypeOK
  <2>. QED  BY <2>1, <2>2 DEF TreasuryInv, TreasuryTypeOK, treasury
<1>2. HaltsAreCounted'
  BY DEF TreasuryInv, HaltsAreCounted
<1>3. \A d \in Callers \ {c} : KeepsRowsOf(d)
  BY NoneIsNoCaller DEF TreasuryInv, TreasuryTypeOK, KeepsRowsOf, treasury
<1>4. \A d \in Callers \ {c} : calls'[d] = calls[d]
  BY GotoCall DEF TreasuryInv
<1>. QED  BY <1>1, <1>2, <1>3, <1>4, CallMoved

\* fundAgent locks the agent's row.
LEMMA LockAgentInv ==
    ASSUME TreasuryInv, NEW c \in Callers, LockAgent(c)
    PROVE  TreasuryInv'
<1>1. Sound(c) /\ wallet(c) \in Wallets /\ "lockAccount" \in Phases /\ calls[c].at = "lockAgent"
  BY OneTreasuryCall DEF LockAgent, Sound, Phases
<1>2. /\ calls'[c].at = "lockAccount" /\ calls'[c].wallet = calls[c].wallet
      /\ calls'[c].day = calls[c].day
  BY <1>1, GotoCall DEF TreasuryInv, LockAgent
<1>3. agentLock'[wallet(c)] = c
  BY <1>1 DEF LockAgent, TreasuryInv, TreasuryTypeOK
<1>4. Sound(c)' /\ HoldsRows(c)' /\ Checked(c)'
  BY <1>1, <1>2, <1>3 DEF Sound, HoldsRows, Checked, wallet
<1>. QED  BY <1>1, <1>4, LockMoved DEF LockAgent

\* ... and the account's.
LEMMA LockAccountInv ==
    ASSUME TreasuryInv, NEW c \in Callers, LockAccount(c)
    PROVE  TreasuryInv'
<1>1. /\ Sound(c) /\ HoldsRows(c) /\ wallet(c) \in Wallets
      /\ "halts" \in Phases /\ calls[c].at = "lockAccount"
  BY OneTreasuryCall DEF LockAccount, Sound, Phases
<1>2. /\ calls'[c].at = "halts" /\ calls'[c].wallet = calls[c].wallet
      /\ calls'[c].day = calls[c].day
  BY <1>1, GotoCall DEF TreasuryInv, LockAccount
<1>3. accountLock'[wallet(c)] = c /\ agentLock' = agentLock
  BY <1>1 DEF LockAccount, TreasuryInv, TreasuryTypeOK
<1>4. Sound(c)' /\ HoldsRows(c)' /\ Checked(c)'
  BY <1>1, <1>2, <1>3 DEF Sound, HoldsRows, Checked, wallet
<1>. QED  BY <1>1, <1>4, LockMoved DEF LockAccount

\* Without a halt no refill has come after it.
LEMMA CheckHaltsInv ==
    ASSUME TreasuryInv, NEW c \in Callers, CheckHalts(c)
    PROVE  TreasuryInv'
<1>1. /\ Sound(c) /\ HoldsRows(c) /\ wallet(c) \in Wallets /\ Fundable(c)
      /\ "fund" \in Phases /\ calls[c].at = "halts" /\ Goto(c, "fund") /\ ReadOnly
  BY OneTreasuryCall DEF CheckHalts, Sound, Phases
<1>2. /\ calls'[c].at = "fund" /\ calls'[c].wallet = calls[c].wallet
      /\ calls'[c].day = calls[c].day /\ calls'[c].amount = calls[c].amount
  BY <1>1, GotoCall DEF TreasuryInv
<1>3. late[wallet(c)] = 0
  BY <1>1 DEF Fundable, ActiveHalts, TreasuryInv, HaltsAreCounted
<1>4. Sound(c)' /\ HoldsRows(c)'
  BY <1>1, <1>2 DEF Sound, HoldsRows, ReadOnly, locks, wallet
<1>5. Checked(c)'
  BY <1>1, <1>2, <1>3 DEF Checked, Fundable, Eligible, ReadOnly, treasury, wallet
<1>. QED  BY <1>1, <1>4, <1>5, LockMoved DEF ReadOnly, locks

\* The COMMIT of a refill.
LEMMA FundInv ==
    ASSUME TreasuryInv, NEW c \in Callers, Fund(c)
    PROVE  TreasuryInv'
<1>. DEFINE w == wallet(c)
            e == [amount |-> calls[c].amount, day |-> calls[c].day]
<1>1. /\ w \in Wallets /\ calls[c] \in Call /\ calls[c].at = "fund"
      /\ Sound(c) /\ HoldsRows(c) /\ Checked(c)
  BY OneTreasuryCall DEF Fund, Sound
<1>2. calls[c].amount \in Nat /\ calls[c].day \in 1..MaxDays
  BY <1>1, BoundsArePositive DEF Call, Checked, Sound
<1>3. e \in Refill
  BY <1>2 DEF Refill
<1>4. PICK k : AtRest(k) /\ calls' = [calls EXCEPT ![c] = k]
  BY FinishRests DEF Fund, TreasuryInv
<1>5. refills' \in [Wallets -> Seq(Refill)]
  <2>1. refills' = [refills EXCEPT ![w] = Append(refills[w], e)]
    BY DEF Fund, TreasuryInv, TreasuryTypeOK
  <2>2. refills \in [Wallets -> Seq(Refill)]
    BY DEF TreasuryInv, TreasuryTypeOK
  <2>. HIDE DEF e, w
  <2>3. Append(refills[w], e) \in Seq(Refill)
    BY <1>1, <1>3, <2>2
  <2>. QED  BY <1>1, <2>1, <2>2, <2>3
<1>6. accounts' \in [Wallets -> Account] /\ \A v \in Wallets : accounts'[v].frozen = accounts[v].frozen
  <2>1. accounts' = [accounts EXCEPT ![w].exists = TRUE,
                                     ![w].balance = accounts[w].balance + calls[c].amount]
    BY DEF Fund, Deposit
  <2>2. accounts \in [Wallets -> Account] /\ accounts[w].balance + calls[c].amount \in Int
    BY <1>1, <1>2 DEF TreasuryInv, TreasuryTypeOK, Account
  <2>. HIDE DEF w
  <2>. QED  BY <1>1, <2>1, <2>2 DEF Account
<1>7. late' = [late EXCEPT ![w] = IF "global" \in halts /\ @ < 2 THEN @ + 1 ELSE @]
  BY DEF Fund
<1>8. TreasuryTypeOK'
  <2>1. late' \in [Wallets -> Nat]
    <3>1. late \in [Wallets -> Nat] /\ \A n \in Nat : n + 1 \in Nat
      BY DEF TreasuryInv, TreasuryTypeOK
    <3>. HIDE DEF w
    <3>. QED  BY <1>7, <3>1
  <2>2. calls' \in [Callers -> Call]
    BY <1>4 DEF AtRest, TreasuryInv, TreasuryTypeOK
  <2>3. /\ agentLock' \in [Wallets -> Callers \cup {None}]
        /\ accountLock' \in [Wallets -> Callers \cup {None}]
    BY LocksReleased DEF TreasuryInv, Fund
  <2>. QED  BY <1>5, <1>6, <2>1, <2>2, <2>3 DEF TreasuryInv, TreasuryTypeOK, Fund
<1>9. HaltsAreCounted'
  BY <1>1, <1>7 DEF TreasuryInv, TreasuryTypeOK, HaltsAreCounted, Checked, Fund
<1>10. \A d \in Callers \ {c} : KeepsRowsOf(d) /\ calls'[d] = calls[d]
  <2>1. \A v \in Wallets : agentLock[v] # c => late'[v] = late[v]
    BY <1>1, <1>7 DEF HoldsRows, TreasuryInv, TreasuryTypeOK
  <2>2. agents' = agents
    BY DEF Fund
  <2>3. \A d \in Callers \ {c}, v \in Wallets :
          /\ agentLock[v] = d => agentLock'[v] = d
          /\ accountLock[v] = d => accountLock'[v] = d
    BY LocksReleased DEF TreasuryInv, Fund
  <2>. QED  BY <1>4, <1>6, <2>1, <2>2, <2>3 DEF KeepsRowsOf, TreasuryInv, TreasuryTypeOK
<1>11. Sound(c)' /\ HoldsRows(c)' /\ Checked(c)'
  BY <1>4, RestNeedsNothing DEF TreasuryInv
<1>. QED  BY <1>8, <1>9, <1>10, <1>11, CallMoved

\* registerAgent finds an account, or none.
LEMMA RegReadInv ==
    ASSUME TreasuryInv, NEW c \in Callers, RegRead(c)
    PROVE  TreasuryInv'
<1>. DEFINE phase == IF accounts[wallet(c)].exists THEN "regUpdate" ELSE "regInsert"
            k == [calls[c] EXCEPT !.at = phase]
<1>1. calls[c] \in Call /\ calls[c].wallet \in Wallets
  BY OneTreasuryCall DEF RegRead, Sound, wallet
<1>2. phase \in {"regUpdate", "regInsert"}
  OBVIOUS
<1>3. calls' = [calls EXCEPT ![c] = k] /\ ReadOnly
  BY DEF RegRead, Goto, TreasuryInv, TreasuryTypeOK
<1>. HIDE DEF phase
<1>4. k \in Call /\ k.at \in {"regUpdate", "regInsert"} /\ k.wallet \in Wallets
  BY <1>1, <1>2 DEF Call, Phases, RegisterPhases
<1>. HIDE DEF k
<1>. QED  BY <1>3, <1>4, LocklessMoved

\* registerAgent writes, and so locks, the account's row.
LEMMA RegAccountInv ==
    ASSUME TreasuryInv, NEW c \in Callers, RegAccount(c)
    PROVE  TreasuryInv'
<1>1. /\ Sound(c) /\ wallet(c) \in Wallets /\ "regAgent" \in Phases
      /\ calls[c].at \in {"regUpdate", "regInsert"}
  BY OneTreasuryCall DEF RegAccount, Sound, Phases, RegisterPhases
<1>2. /\ calls'[c].at = "regAgent" /\ calls'[c].wallet = calls[c].wallet
  BY <1>1, GotoCall DEF TreasuryInv, RegAccount
<1>3. accountLock'[wallet(c)] = c
  BY <1>1 DEF RegAccount, TreasuryInv, TreasuryTypeOK
<1>4. Sound(c)' /\ HoldsRows(c)' /\ Checked(c)'
  BY <1>1, <1>2, <1>3 DEF Sound, HoldsRows, Checked, wallet
<1>. QED  BY <1>1, <1>4, LockMoved DEF RegAccount

\* ... and the agent's.
LEMMA RegAgentInv ==
    ASSUME TreasuryInv, NEW c \in Callers, RegAgent(c)
    PROVE  TreasuryInv'
<1>1. /\ Sound(c) /\ HoldsRows(c) /\ wallet(c) \in Wallets /\ "regCommit" \in Phases
      /\ calls[c].at = "regAgent"
  BY OneTreasuryCall DEF RegAgent, Sound, Phases, RegisterPhases
<1>2. /\ calls'[c].at = "regCommit" /\ calls'[c].wallet = calls[c].wallet
  BY <1>1, GotoCall DEF TreasuryInv, RegAgent
<1>3. agentLock'[wallet(c)] = c /\ accountLock' = accountLock
  BY <1>1 DEF RegAgent, TreasuryInv, TreasuryTypeOK
<1>4. Sound(c)' /\ HoldsRows(c)' /\ Checked(c)'
  BY <1>1, <1>2, <1>3 DEF Sound, HoldsRows, Checked, wallet
<1>. QED  BY <1>1, <1>4, LockMoved DEF RegAgent

\* The COMMIT of a registration: it holds both rows that it changes.
LEMMA RegCommitInv ==
    ASSUME TreasuryInv, NEW c \in Callers, RegCommit(c)
    PROVE  TreasuryInv'
<1>. DEFINE w == wallet(c)
<1>1. /\ w \in Wallets /\ calls[c] \in Call /\ calls[c].at = "regCommit"
      /\ Sound(c) /\ HoldsRows(c)
  BY OneTreasuryCall DEF RegCommit, Sound
<1>2. PICK k : AtRest(k) /\ calls' = [calls EXCEPT ![c] = k]
  BY FinishRests DEF RegCommit, TreasuryInv
<1>3. accounts' \in [Wallets -> Account] /\ \A v \in Wallets \ {w} : accounts'[v] = accounts[v]
  <2>1. accounts \in [Wallets -> Account] /\ calls[c].key \in Keys \cup {None}
    BY <1>1 DEF TreasuryInv, TreasuryTypeOK, Call
  <2>2. \/ GetOrCreateAccount(w, calls[c].key) \/ RegisterPubkey(w, calls[c].key)
        \/ UNCHANGED accounts
    BY DEF RegCommit
  <2>. HIDE DEF w
  <2>. DEFINE new == [NoAccount EXCEPT !.exists = TRUE, !.pubkey = calls[c].key]
              keyed == [accounts[w] EXCEPT !.pubkey = calls[c].key]
  <2>3. new \in Account /\ keyed \in Account
    <3>1. NoAccount \in Account /\ accounts[w] \in Account
      BY <1>1, <2>1 DEF Account, NoAccount
    <3>2. ASSUME NEW a \in Account
          PROVE  /\ [a EXCEPT !.pubkey = calls[c].key] \in Account
                 /\ [a EXCEPT !.exists = TRUE, !.pubkey = calls[c].key] \in Account
      BY <2>1 DEF Account
    <3>. QED  BY <3>1, <3>2
  <2>4. \/ accounts' = [accounts EXCEPT ![w] = new] \/ accounts' = [accounts EXCEPT ![w] = keyed]
        \/ accounts' = accounts
    BY <2>1, <2>2 DEF GetOrCreateAccount, RegisterPubkey
  <2>. HIDE DEF new, keyed
  <2>. QED  BY <1>1, <2>1, <2>3, <2>4
<1>4. agents' \in [Wallets -> Agent] /\ \A v \in Wallets \ {w} : agents'[v] = agents[v]
  <2>1. calls[c].agent \in Agent
    BY <1>1 DEF Call, Agent
  <2>. QED  BY <1>1, <2>1 DEF RegCommit, TreasuryInv, TreasuryTypeOK
<1>5. TreasuryTypeOK'
  <2>1. calls' \in [Callers -> Call]
    BY <1>2 DEF AtRest, TreasuryInv, TreasuryTypeOK
  <2>2. /\ agentLock' \in [Wallets -> Callers \cup {None}]
        /\ accountLock' \in [Wallets -> Callers \cup {None}]
    BY LocksReleased DEF TreasuryInv, RegCommit
  <2>3. registered' \in Seq(Wallets)
    BY <1>1 DEF RegCommit, TreasuryInv, TreasuryTypeOK
  <2>. QED  BY <1>3, <1>4, <2>1, <2>2, <2>3 DEF TreasuryInv, TreasuryTypeOK, RegCommit
<1>6. HaltsAreCounted'
  BY DEF TreasuryInv, HaltsAreCounted, RegCommit
<1>7. \A d \in Callers \ {c} : KeepsRowsOf(d) /\ calls'[d] = calls[d]
  <2>1. agentLock[w] = c /\ accountLock[w] = c
    BY <1>1 DEF HoldsRows
  <2>2. \A d \in Callers \ {c}, v \in Wallets :
          /\ agentLock[v] = d => agentLock'[v] = d
          /\ accountLock[v] = d => accountLock'[v] = d
    BY LocksReleased DEF TreasuryInv, RegCommit
  <2>3. late' = late
    BY DEF RegCommit
  <2>. QED  BY <1>2, <1>3, <1>4, <2>1, <2>2, <2>3 DEF KeepsRowsOf, TreasuryInv, TreasuryTypeOK
<1>8. Sound(c)' /\ HoldsRows(c)' /\ Checked(c)'
  BY <1>2, RestNeedsNothing DEF TreasuryInv
<1>. QED  BY <1>5, <1>6, <1>7, <1>8, CallMoved

\* A halt that is set or cleared.
LEMMA SetTreasuryHaltInv ==
    ASSUME TreasuryInv, NEW scope \in Scopes, NEW active \in BOOLEAN, SetTreasuryHalt(scope, active)
    PROVE  TreasuryInv'
<1>1. TreasuryTypeOK'
  BY DEF TreasuryInv, TreasuryTypeOK, SetTreasuryHalt, treasury, locks
<1>2. HaltsAreCounted'
  BY DEF TreasuryInv, TreasuryTypeOK, HaltsAreCounted, SetTreasuryHalt
<1>3. \A d \in Callers : KeepsRowsOf(d)
  BY DEF TreasuryInv, TreasuryTypeOK, KeepsRowsOf, SetTreasuryHalt, treasury, locks
<1>. QED  BY <1>1, <1>2, <1>3, WorldMoved DEF SetTreasuryHalt

\* Midnight.
LEMMA NextDayInv ==
    ASSUME TreasuryInv, NextDay
    PROVE  TreasuryInv'
<1>1. TreasuryTypeOK'
  BY BoundsArePositive DEF TreasuryInv, TreasuryTypeOK, NextDay, treasury, locks
<1>2. HaltsAreCounted'
  BY DEF TreasuryInv, HaltsAreCounted, NextDay
<1>3. \A d \in Callers : KeepsRowsOf(d)
  BY DEF TreasuryInv, TreasuryTypeOK, KeepsRowsOf, NextDay, treasury, locks
<1>. QED  BY <1>1, <1>2, <1>3, WorldMoved DEF NextDay

\* An administrator waits for the agent's row.
LEMMA PauseAgentInv ==
    ASSUME TreasuryInv, NEW w \in Wallets, PauseAgent(w)
    PROVE  TreasuryInv'
<1>1. TreasuryTypeOK'
  BY DEF TreasuryInv, TreasuryTypeOK, PauseAgent, locks, Agent
<1>2. HaltsAreCounted'
  BY DEF TreasuryInv, HaltsAreCounted, PauseAgent
<1>3. \A d \in Callers : KeepsRowsOf(d)
  BY NoneIsNoCaller DEF TreasuryInv, TreasuryTypeOK, KeepsRowsOf, PauseAgent, locks
<1>. QED  BY <1>1, <1>2, <1>3, WorldMoved DEF PauseAgent

\* The facilitator waits for the account's row.
LEMMA FacilitatorMoved ==
    ASSUME TreasuryInv, NEW w \in Wallets, accountLock[w] = None,
           accounts' \in [Wallets -> Account],
           \A v \in Wallets \ {w} : accounts'[v] = accounts[v],
           UNCHANGED <<treasury, halts, late, today, calls, locks>>
    PROVE  TreasuryInv'
<1>1. TreasuryTypeOK'
  BY DEF TreasuryInv, TreasuryTypeOK, treasury, locks
<1>2. HaltsAreCounted'
  BY DEF TreasuryInv, HaltsAreCounted
<1>3. \A d \in Callers : KeepsRowsOf(d)
  BY NoneIsNoCaller DEF TreasuryInv, TreasuryTypeOK, KeepsRowsOf, treasury, locks
<1>. QED  BY <1>1, <1>2, <1>3, WorldMoved

\* Its deposits and charges.
LEMMA MoneyStepInv ==
    ASSUME TreasuryInv, NEW w \in Wallets, MoneyStep(w)
    PROVE  TreasuryInv'
<1>1. PICK amount \in Amounts, ref \in References : Deposit(w, amount, ref) \/ Charge(w, amount, ref)
  BY DEF MoneyStep
<1>2. accounts \in [Wallets -> Account] /\ amount \in Int /\ accounts[w].balance \in Int
  BY AmountsArePositive DEF TreasuryInv, TreasuryTypeOK, Account
<1>3. accounts' \in [Wallets -> Account] /\ \A v \in Wallets \ {w} : accounts'[v] = accounts[v]
  <2>0. ASSUME NEW b \in Int
        PROVE  /\ [accounts[w] EXCEPT !.exists = TRUE, !.balance = b] \in Account
               /\ [accounts[w] EXCEPT !.balance = b] \in Account
    BY <1>2 DEF Account
  <2>1. CASE Deposit(w, amount, ref)
    <3>. DEFINE b == accounts[w].balance + amount
                row == [accounts[w] EXCEPT !.exists = TRUE, !.balance = b]
    <3>1. b \in Int
      BY <1>2
    <3>2. accounts' = [accounts EXCEPT ![w] = row]
      BY <1>2, <2>1 DEF Deposit
    <3>3. row \in Account
      BY <2>0, <3>1
    <3>. HIDE DEF row
    <3>. QED  BY <1>2, <3>2, <3>3
  <2>2. CASE Charge(w, amount, ref)
    <3>. DEFINE b == accounts[w].balance - amount
                row == [accounts[w] EXCEPT !.balance = b]
    <3>1. b \in Int
      BY <1>2
    <3>2. accounts' = [accounts EXCEPT ![w] = row]
      BY <1>2, <2>2 DEF Charge
    <3>3. row \in Account
      BY <2>0, <3>1
    <3>. HIDE DEF row
    <3>. QED  BY <1>2, <3>2, <3>3
  <2>. QED  BY <1>1, <2>1, <2>2
<1>. QED  BY <1>3, FacilitatorMoved DEF MoneyStep

\* New accounts, and accounts that are frozen.
LEMMA AccountStepInv ==
    ASSUME TreasuryInv, NEW w \in Wallets, AccountStep(w)
    PROVE  TreasuryInv'
<1>1. accounts \in [Wallets -> Account]
  BY DEF TreasuryInv, TreasuryTypeOK
<1>2. accounts' \in [Wallets -> Account] /\ \A v \in Wallets \ {w} : accounts'[v] = accounts[v]
  <2>1. ASSUME NEW key \in Keys \cup {None}, GetOrCreateAccount(w, key)
        PROVE  <1>2!:
    <3>1. NoAccount \in Account
      BY DEF NoAccount, Account
    <3>. DEFINE row == [NoAccount EXCEPT !.exists = TRUE, !.pubkey = key]
    <3>2. row \in Account
      BY <3>1 DEF Account
    <3>3. accounts' = [accounts EXCEPT ![w] = row]
      BY <2>1 DEF GetOrCreateAccount
    <3>. HIDE DEF row
    <3>. QED  BY <1>1, <3>2, <3>3
  <2>2. ASSUME NEW frozen \in BOOLEAN, SetFrozen(w, frozen)
        PROVE  <1>2!:
    BY <1>1, <2>2 DEF SetFrozen, Account
  <2>. QED  BY <2>1, <2>2 DEF AccountStep
<1>. QED  BY <1>2, FacilitatorMoved DEF AccountStep

\* The steps of a call.
LEMMA CallStepInv ==
    ASSUME TreasuryInv, NEW c \in Callers, CallStep(c) \/ Fail(c)
    PROVE  TreasuryInv'
<1>1. CASE DecideStep(c)
  BY <1>1, WorkerCheckInv, ReadAgentInv, DecideInv DEF DecideStep
<1>2. CASE FundStep(c)
  BY <1>2, BeginInv, LockAgentInv, LockAccountInv, CheckHaltsInv, FundInv, ThrowInv
     DEF FundStep, FundRefused
<1>3. CASE RegisterStep(c)
  BY <1>3, RegReadInv, RegAccountInv, RegAgentInv, RegCommitInv, ThrowInv
     DEF RegisterStep, RegRefused
<1>4. CASE DeadlockVictim(c) \/ Fail(c)
  BY <1>4, ThrowInv DEF DeadlockVictim, Fail
<1>. QED  BY <1>1, <1>2, <1>3, <1>4 DEF CallStep

-----------------------------------------------------------------------------
(* Theorems *)

\* TreasuryInv is inductive.
LEMMA TreasuryStepInv == TreasuryInv /\ [Next]_vars => TreasuryInv'
<1>. SUFFICES ASSUME TreasuryInv, [Next]_vars PROVE TreasuryInv'
  OBVIOUS
<1>1. CASE UNCHANGED vars
  <2>1. TreasuryTypeOK' /\ HaltsAreCounted' /\ UNCHANGED calls
    BY <1>1 DEF vars, treasury, locks, TreasuryInv, TreasuryTypeOK, HaltsAreCounted
  <2>2. \A d \in Callers : KeepsRowsOf(d)
    BY <1>1 DEF vars, treasury, locks, TreasuryInv, TreasuryTypeOK, KeepsRowsOf
  <2>. QED  BY <2>1, <2>2, WorldMoved
<1>2. CASE \E c \in Callers : CallStep(c) \/ Fail(c)
  BY <1>2, CallStepInv
<1>3. CASE \E c \in Workers : StartTick(c)
  BY <1>3, StartTickInv DEF Callers
<1>4. CASE \E c \in Routes : Request(c)
  BY <1>4, RequestInv DEF Callers
<1>5. CASE \E scope \in Scopes, active \in BOOLEAN : SetTreasuryHalt(scope, active)
  BY <1>5, SetTreasuryHaltInv
<1>6. CASE NextDay
  BY <1>6, NextDayInv
<1>7. CASE \E w \in Wallets : PauseAgent(w) \/ AccountStep(w) \/ MoneyStep(w)
  BY <1>7, PauseAgentInv, AccountStepInv, MoneyStepInv
<1>. QED  BY <1>1, <1>2, <1>3, <1>4, <1>5, <1>6, <1>7 DEF Next, ReliableNext

\* The inductive invariant holds in every state.
THEOREM TreasuryInvariant == Spec => []TreasuryInv
  BY TreasuryInitInv, TreasuryStepInv, PTL DEF Spec

\* However many ticks and requests are under way, for any agents and policies, a
\* global halt lets at most one refill of an agent through.
THEOREM HaltsStopRefills == Spec => []HaltLetsOneThrough
<1>1. TreasuryInv => HaltLetsOneThrough
  BY DEF TreasuryInv, HaltsAreCounted, HaltLetsOneThrough
<1>. QED  BY <1>1, TreasuryInvariant, PTL

\* Only the COMMIT of fundAgent writes a refill: one, of the agent it holds.
LEMMA OnlyFundRefills ==
    ASSUME TreasuryInv, [Next]_vars, NEW w \in Wallets, refills'[w] # refills[w]
    PROVE  \E c \in Callers : Fund(c) /\ w = wallet(c)
<1>1. refills' # refills
  OBVIOUS
<1>2. PICK c \in Callers : Fund(c)
  <2>1. ~ UNCHANGED vars
    BY <1>1 DEF vars, treasury
  <2>2. \A c \in Callers : ~Fund(c) /\ (CallStep(c) \/ Fail(c)) => UNCHANGED refills
    BY DEF CallStep, DecideStep, FundStep, RegisterStep, WorkerCheck, ReadAgent, Decide, Begin,
           LockAgent, LockAccount, CheckHalts, FundRefused, RegRead, RegAccount, RegRefused,
           RegAgent, RegCommit, DeadlockVictim, Fail, Throw, ReadOnly, treasury
  <2>3. \A c \in Callers : StartTick(c) \/ Request(c) => UNCHANGED refills
    BY DEF StartTick, Request, StartRefill, StartFund, StartRegister, ReadOnly, treasury
  <2>4. /\ \A scope \in Scopes, active \in BOOLEAN : SetTreasuryHalt(scope, active) => UNCHANGED refills
        /\ NextDay => UNCHANGED refills
        /\ \A v \in Wallets : PauseAgent(v) \/ AccountStep(v) \/ MoneyStep(v) => UNCHANGED refills
    BY DEF SetTreasuryHalt, NextDay, PauseAgent, AccountStep, MoneyStep, treasury
  <2>. QED  BY <1>1, <2>1, <2>2, <2>3, <2>4 DEF Next, ReliableNext, Callers
<1>3. refills \in [Wallets -> Seq(Refill)]
  BY DEF TreasuryInv, TreasuryTypeOK
<1>. QED  BY <1>2, <1>3 DEF Fund

\* The refill that a COMMIT writes.
LEMMA RefillWritten ==
    ASSUME TreasuryInv, NEW c \in Callers, Fund(c)
    PROVE  LET w == wallet(c)
               e == [amount |-> calls[c].amount, day |-> calls[c].day]
           IN  /\ w \in Wallets
               /\ e \in Refill
               /\ refills[w] \in Seq(Refill)
               /\ refills'[w] = Append(refills[w], e)
               /\ refills'[w][Len(refills'[w])] = e
<1>. DEFINE w == wallet(c)
            e == [amount |-> calls[c].amount, day |-> calls[c].day]
<1>1. /\ w \in Wallets /\ calls[c] \in Call /\ calls[c].at = "fund" /\ Sound(c) /\ Checked(c)
  BY OneTreasuryCall DEF Fund, Sound
<1>2. e \in Refill
  BY <1>1, BoundsArePositive DEF Call, Checked, Sound, Refill
<1>3. refills[w] \in Seq(Refill) /\ refills'[w] = Append(refills[w], e)
  BY <1>1 DEF Fund, TreasuryInv, TreasuryTypeOK
<1>. HIDE DEF e
<1>4. Append(refills[w], e)[Len(Append(refills[w], e))] = e
  BY <1>2, <1>3
<1>. QED  BY <1>1, <1>2, <1>3, <1>4 DEF e

\* Whatever a refill was decided on, when it is paid its agent is active, its
\* account not frozen, and its amount within the policy in force.
THEOREM RefillsStayAuthorized == Spec => RefillsAreAuthorized
<1>1. ASSUME TreasuryInv, [Next]_vars
      PROVE  [\A w \in Wallets : refills'[w] # refills[w] =>
                /\ Eligible(w)
                /\ refills'[w][Len(refills'[w])].amount <= agents[w].policy.max_single]_vars
  <2>. SUFFICES ASSUME NEW w \in Wallets, refills'[w] # refills[w]
                PROVE  /\ Eligible(w)
                       /\ refills'[w][Len(refills'[w])].amount <= agents[w].policy.max_single
    OBVIOUS
  <2>1. PICK c \in Callers : Fund(c) /\ w = wallet(c)
    BY <1>1, OnlyFundRefills
  <2>2. refills'[w][Len(refills'[w])] = [amount |-> calls[c].amount, day |-> calls[c].day]
    BY <1>1, <2>1, RefillWritten
  <2>3. calls[c].at = "fund" /\ Checked(c)
    BY <1>1, <2>1, OneTreasuryCall DEF Fund
  <2>. QED  BY <2>1, <2>2, <2>3 DEF Checked
<1>. QED  BY <1>1, TreasuryInvariant, PTL DEF Spec, RefillsAreAuthorized

\* However stale the balances are on which overlapping ticks and requests decide,
\* the refills of an agent on a day stay within its daily limit, for any number of
\* agents, callers and refills.
THEOREM DailyLimitHolds == Spec => DailyLimit
<1>1. ASSUME TreasuryInv, [Next]_vars
      PROVE  [\A w \in Wallets : refills'[w] # refills[w] =>
                LET day == refills'[w][Len(refills'[w])].day
                IN  RefilledOn(refills'[w], day) <= agents[w].policy.max_daily]_vars
  <2>. SUFFICES ASSUME NEW w \in Wallets, refills'[w] # refills[w]
                PROVE  RefilledOn(refills'[w], refills'[w][Len(refills'[w])].day)
                         <= agents[w].policy.max_daily
    OBVIOUS
  <2>1. PICK c \in Callers : Fund(c) /\ w = wallet(c)
    BY <1>1, OnlyFundRefills
  <2>. DEFINE e == [amount |-> calls[c].amount, day |-> calls[c].day]
  <2>2. /\ e \in Refill /\ refills[w] \in Seq(Refill)
        /\ refills'[w] = Append(refills[w], e)
        /\ refills'[w][Len(refills'[w])] = e
    BY <1>1, <2>1, RefillWritten
  <2>3. DailyRefilled(w, e.day) + e.amount <= agents[w].policy.max_daily
    BY <2>1 DEF Fund, WithinDaily
  <2>. HIDE DEF e
  <2>4. e.day \in Nat /\ e.amount \in Nat
    BY <2>2, BoundsArePositive DEF Refill
  <2>5. /\ RefilledOn(refills[w], e.day) \in Nat
        /\ DailyRefilled(w, e.day) \in Nat
        /\ RefilledOn(refills[w], e.day) <= DailyRefilled(w, e.day)
    BY <2>2, <2>4, RefillsOfOneDay DEF RefilledOn, DailyRefilled
  <2>6. RefilledOn(refills'[w], e.day) = RefilledOn(refills[w], e.day) + e.amount
    BY <2>2, RefillAdded
  <2>7. agents[w].policy.max_daily \in Nat
    BY <1>1, PoliciesAreOrdered DEF TreasuryInv, TreasuryTypeOK, Agent, NoPolicy, Policy
  <2>8. RefilledOn(refills'[w], e.day) <= agents[w].policy.max_daily
    BY <2>3, <2>4, <2>5, <2>6, <2>7
  <2>. QED  BY <2>2, <2>8
<1>. QED  BY <1>1, TreasuryInvariant, PTL DEF Spec, DailyLimit
=============================================================================
