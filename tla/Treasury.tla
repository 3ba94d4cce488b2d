------------------------------ MODULE Treasury ------------------------------
(***************************************************************************)
(* The treasury service (fth-x402-treasury, services/treasury.ts): it      *)
(* registers agents over the credit accounts of the facilitator and fills  *)
(* up their balances by deposits, on request and by the timer of           *)
(* startTreasuryWorker.  A refill is decided on unlocked reads             *)
(* (evaluateAgent) and executed in a transaction that locks the agent's    *)
(* row and the account's row and checks the limits again (fundAgent).      *)
(* Meanwhile the facilitator charges the same accounts.                    *)
(*                                                                         *)
(* treasury_agents.wallet_address is UNIQUE: the wallet stands for the     *)
(* agent.  What a transaction writes becomes visible at its COMMIT, which  *)
(* is one action here; its locks and reads are actions of their own.       *)
(*                                                                         *)
(* Data abstraction.  Of treasury_halts only the scopes with an active row *)
(* are kept, of dates the day.  Funding mode, metadata and the webhooks    *)
(* that announce a refill are left out.                                    *)
(***************************************************************************)
EXTENDS CreditLedger, FiniteSets, FiniteSetsExt, Functions

CONSTANTS
    Workers,      \* ticks of the timer that may overlap (setInterval awaits none)
    Routes,       \* concurrent HTTP requests
    Namespaces,   \* namespaces of agents
    Policies,     \* the policies agents are registered with
    AgentLimit,   \* how many agents a tick lists (200)
    TreasuryRef,  \* the reference of the journal entries of refills
    MaxDays,      \* bound: days that pass
    MaxDeposits   \* bound: journal entries after which others deposit no more

Policy == [min : Nat, target : Nat, max_single : Nat, max_daily : Nat]

ASSUME PoliciesAreOrdered ==
    /\ Policies \subseteq Policy
    /\ \A p \in Policies : p.min <= p.target
ASSUME TreasuryRefIsReference == TreasuryRef \in References \ Invoices
ASSUME BoundsArePositive == AgentLimit \in Nat \ {0} /\ MaxDays \in Nat \ {0} /\ MaxDeposits \in Nat

Callers == Workers \cup Routes

ASSUME NoneIsNoCaller == None \notin Callers

VARIABLES
    agents,       \* wallet -> its row of treasury_agents
    registered,   \* the wallets of treasury_agents, by created_at
    refills,      \* wallet -> its completed rows of treasury_refills
    halts,        \* the scopes of the active rows of treasury_halts
    today,        \* the current day
    calls,        \* caller -> what it is doing
    late,         \* history: wallet -> its refills under the current global halt
    agentLock,    \* wallet -> who locks its row of treasury_agents, or None
    accountLock   \* wallet -> who locks its row of credit_accounts, or None

locks == <<agentLock, accountLock>>
treasury == <<agents, registered, refills>>
vars == <<accounts, creditTx, treasury, halts, late, today, calls, locks>>

NoPolicy == [min |-> 0, target |-> 0, max_single |-> 0, max_daily |-> 0]
NoAgent  == [status |-> "none", namespace |-> None, policy |-> NoPolicy]

Agent  == [status : {"none", "active", "paused"},
           namespace : Namespaces \cup {None},
           policy : Policies \cup {NoPolicy}]
Refill == [amount : Nat, day : 1..MaxDays]
Scopes == {"global"} \cup Wallets \cup Namespaces

RegisterPhases == {"regRead", "regUpdate", "regInsert", "regAgent", "regCommit"}

Phases == {"idle", "check", "read", "decide"}                      \* a decision
          \cup {"begin", "lockAgent", "lockAccount", "halts", "fund"} \* fundAgent
          \cup RegisterPhases

Call == [at : Phases,
         todo : Seq(Wallets),                  \* the agents left in a tick
         wallet : Wallets \cup {None},
         agent : [status : {"none", "active", "paused"},   \* what was read, or
                  namespace : Namespaces \cup {None},      \* is to be written,
                  policy : Policies \cup {NoPolicy}],      \* of the agent
         key : Keys \cup {None},               \* the pubkey of a registration
         balance : Int,                        \* the balance that was read
         amount : Int,                         \* the amount of the refill
         day : 0..MaxDays]                     \* now() of the transaction

NoCall == [at |-> "idle", todo |-> << >>, wallet |-> None, agent |-> NoAgent,
           key |-> None, balance |-> 0, amount |-> 0, day |-> 0]

Init ==
    /\ CreditsInit
    /\ agents = [w \in Wallets |-> NoAgent]
    /\ registered = << >>
    /\ refills = [w \in Wallets |-> << >>]
    /\ halts = {}
    /\ late = [w \in Wallets |-> 0]
    /\ today = 1
    /\ calls = [c \in Callers |-> NoCall]
    /\ agentLock = [w \in Wallets |-> None]
    /\ accountLock = [w \in Wallets |-> None]

-----------------------------------------------------------------------------
wallet(c) == calls[c].wallet

Goto(c, phase) == calls' = [calls EXCEPT ![c].at = phase]

\* The locks after c's COMMIT or ROLLBACK.
Unlocked(lock, c) == [w \in Wallets |-> IF lock[w] = c THEN None ELSE lock[w]]
ReleaseLocks(c) ==
    /\ agentLock' = Unlocked(agentLock, c)
    /\ accountLock' = Unlocked(accountLock, c)

\* A call returns: a tick goes on with its next agent, a request is answered.
Finish(c) ==
    LET rest == calls[c].todo
    IN  calls' = [calls EXCEPT ![c] = IF rest = << >> THEN NoCall
                                      ELSE [NoCall EXCEPT !.at = "check", !.todo = rest]]

\* Mutant of Throw: no ROLLBACK.
ThrowKeepsLocks(c) ==
    /\ calls' = [calls EXCEPT ![c] = NoCall]
    /\ UNCHANGED <<accounts, creditTx, treasury, halts, late, today, locks>>

\* A call throws: ROLLBACK, and a tick ends without its other agents.
Throw(c) ==
    /\ calls' = [calls EXCEPT ![c] = NoCall]
    /\ ReleaseLocks(c)
    /\ UNCHANGED <<accounts, creditTx, treasury, halts, late, today>>

ReadOnly == UNCHANGED <<accounts, creditTx, treasury, halts, late, today, locks>>

\* getActiveHalts
ActiveHalts(w, namespace) == halts \cap {"global", w, namespace}

\* SUM(amount) of the rows with the numbers in rows.
SumAmounts(completed, rows) == MapThenSumSet(LAMBDA n : completed[n].amount, rows)

\* Mutant of DailyRefilled: the day of the clock, not of the transaction.
ClockRefilled(w, day) ==
    SumAmounts(refills[w], {n \in 1..Len(refills[w]) : refills[w][n].day = today})

\* getDailyRefilledAmount: SUM(amount) since the start of the day.
DailyRefilled(w, day) ==
    SumAmounts(refills[w], {n \in 1..Len(refills[w]) : refills[w][n].day >= day})

\* The recommendation of evaluateAgent for a balance under a policy, when
\* refilled has been refilled today.
Recommended(balance, p, refilled) ==
    LET remaining == IF p.max_daily > refilled THEN p.max_daily - refilled ELSE 0
    IN  IF balance >= p.min THEN 0
        ELSE Min({p.target - balance, p.max_single, remaining})

Eligible(w) == agents[w].status = "active" /\ ~accounts[w].frozen

-----------------------------------------------------------------------------
(* Deciding *)

\* The k-th largest of a set of numbers.
Largest(k, numbers) ==
    CHOOSE n \in numbers : Cardinality({m \in numbers : m >= n}) = k

\* listAgents: the active agents, the newest first, AgentLimit at most.
ListedAgents ==
    LET active == {n \in 1..Len(registered) : agents[registered[n]].status = "active"}
    IN  [k \in 1..Min({Cardinality(active), AgentLimit}) |-> registered[Largest(k, active)]]

\* The timer.
StartTick(c) ==
    /\ calls[c].at = "idle"
    /\ ListedAgents # << >>
    /\ calls' = [calls EXCEPT ![c].at = "check", ![c].todo = ListedAgents]
    /\ ReadOnly

\* Mutant of WorkerCheck: an agent that needs nothing ends the tick.
WorkerCheckReturns(c) ==
    LET w == Head(calls[c].todo)
    IN  /\ calls[c].at = "check"
        /\ IF /\ Eligible(w)
              /\ ActiveHalts(w, agents[w].namespace) = {}
              /\ Recommended(accounts[w].balance, agents[w].policy,
                             DailyRefilled(w, today)) > 0
           THEN calls' = [calls EXCEPT ![c] = [NoCall EXCEPT !.at = "read",
                                                 !.wallet = w, !.todo = Tail(calls[c].todo)]]
           ELSE calls' = [calls EXCEPT ![c] = NoCall]
        /\ ReadOnly

\* The worker evaluates the next agent, and passes over it when it is blocked or
\* needs nothing; otherwise it calls triggerRecommendedRefill, which evaluates
\* the agent again.
WorkerCheck(c) ==
    LET w == Head(calls[c].todo)
        rest == Tail(calls[c].todo)
    IN  /\ calls[c].at = "check"
        /\ IF /\ Eligible(w)
              /\ ActiveHalts(w, agents[w].namespace) = {}
              /\ Recommended(accounts[w].balance, agents[w].policy,
                             DailyRefilled(w, today)) > 0
           THEN calls' = [calls EXCEPT ![c] = [NoCall EXCEPT !.at = "read",
                                                 !.wallet = w, !.todo = rest]]
           ELSE calls' = [calls EXCEPT ![c] = [NoCall EXCEPT !.todo = rest,
                              !.at = IF rest = << >> THEN "idle" ELSE "check"]]
        /\ ReadOnly

\* POST /treasury/agents/:id/refill
StartRefill(c, w) ==
    /\ calls[c].at = "idle"
    /\ agents[w].status # "none"
    /\ calls' = [calls EXCEPT ![c].at = "read", ![c].wallet = w]
    /\ ReadOnly

\* evaluateAgent, first query: the agent and the balance of its account.
ReadAgent(c) ==
    /\ calls[c].at = "read"
    /\ IF Eligible(wallet(c))
       THEN calls' = [calls EXCEPT ![c].at = "decide",
                                   ![c].agent = agents[wallet(c)],
                                   ![c].balance = accounts[wallet(c)].balance]
       ELSE Finish(c)
    /\ ReadOnly

\* evaluateAgent, its queries of halts and of today's refills, and what
\* triggerRecommendedRefill makes of them: fundAgent, or nothing.
Decide(c) ==
    LET amount == Recommended(calls[c].balance, calls[c].agent.policy,
                              DailyRefilled(wallet(c), today))
    IN  /\ calls[c].at = "decide"
        /\ IF ActiveHalts(wallet(c), calls[c].agent.namespace) = {} /\ amount > 0
           THEN calls' = [calls EXCEPT ![c].at = "begin", ![c].amount = amount]
           ELSE Finish(c)
        /\ ReadOnly

-----------------------------------------------------------------------------
(* fundAgent *)

\* POST /treasury/agents/:id/fund: an amount of the operator's choice.
StartFund(c, w, amount) ==
    /\ calls[c].at = "idle"
    /\ agents[w].status # "none"
    /\ calls' = [calls EXCEPT ![c] = [NoCall EXCEPT !.at = "begin", !.wallet = w,
                                                    !.amount = amount]]
    /\ ReadOnly

\* BEGIN fixes the now() of the transaction, by which the day's refills are
\* summed and the refill is dated.
Begin(c) ==
    /\ calls[c].at = "begin"
    /\ calls' = [calls EXCEPT ![c].at = "lockAgent", ![c].day = today]
    /\ ReadOnly

\* Mutant of LockAgent: SELECT without FOR UPDATE.
LockNothing(c) ==
    /\ calls[c].at = "lockAgent"
    /\ Goto(c, "lockAccount")
    /\ ReadOnly

\* SELECT ... FOR UPDATE of the joined rows locks the agent's row, then the
\* account's, and waits for each.
LockAgent(c) ==
    /\ calls[c].at = "lockAgent"
    /\ agentLock[wallet(c)] = None
    /\ agentLock' = [agentLock EXCEPT ![wallet(c)] = c]
    /\ Goto(c, "lockAccount")
    /\ UNCHANGED <<accounts, creditTx, treasury, halts, late, today, accountLock>>

LockAccount(c) ==
    /\ calls[c].at = "lockAccount"
    /\ accountLock[wallet(c)] = None
    /\ accountLock' = [accountLock EXCEPT ![wallet(c)] = c]
    /\ Goto(c, "halts")
    /\ UNCHANGED <<accounts, creditTx, treasury, halts, late, today, agentLock>>

\* Mutant of Fundable: the halts are not read again.
FundableUnderHalt(c) ==
    /\ Eligible(wallet(c))
    /\ calls[c].amount > 0
    /\ calls[c].amount <= agents[wallet(c)].policy.max_single

\* The halts are read, but not locked; the other checks are on locked rows.
Fundable(c) ==
    /\ ActiveHalts(wallet(c), agents[wallet(c)].namespace) = {}
    /\ Eligible(wallet(c))
    /\ calls[c].amount > 0
    /\ calls[c].amount <= agents[wallet(c)].policy.max_single

CheckHalts(c) ==
    /\ calls[c].at = "halts"
    /\ Fundable(c)
    /\ Goto(c, "fund")
    /\ ReadOnly

WithinDaily(c) ==
    DailyRefilled(wallet(c), calls[c].day) + calls[c].amount
        <= agents[wallet(c)].policy.max_daily

\* The daily limit, then the balance, the journal, the refill, and COMMIT.  The
\* bound MaxEntries of Deposit is chosen so that it is not reached.
Fund(c) ==
    LET w == wallet(c) IN
    /\ calls[c].at = "fund"
    /\ WithinDaily(c)
    /\ Deposit(w, calls[c].amount, TreasuryRef)
    /\ refills' = [refills EXCEPT ![w] =
                     Append(@, [amount |-> calls[c].amount, day |-> calls[c].day])]
    /\ late' = [late EXCEPT ![w] = IF "global" \in halts /\ @ < 2 THEN @ + 1 ELSE @]
    /\ Finish(c)
    /\ ReleaseLocks(c)
    /\ UNCHANGED <<agents, registered, halts, today>>

\* One of the checks throws.
FundRefused(c) ==
    /\ \/ calls[c].at = "halts" /\ ~Fundable(c)
       \/ calls[c].at = "fund" /\ ~WithinDaily(c)
    /\ Throw(c)

-----------------------------------------------------------------------------
(* registerAgent *)

StartRegister(c, w, ns, policy, key) ==
    /\ calls[c].at = "idle"
    /\ calls' = [calls EXCEPT ![c] =
                   [NoCall EXCEPT !.at = "regRead", !.wallet = w, !.key = key,
                      !.agent = [status |-> "active", namespace |-> ns, policy |-> policy]]]
    /\ ReadOnly

\* getOrCreateCreditAccount: SELECT, then UPDATE or INSERT by what it found.
RegRead(c) ==
    /\ calls[c].at = "regRead"
    /\ Goto(c, IF accounts[wallet(c)].exists THEN "regUpdate" ELSE "regInsert")
    /\ ReadOnly

RegAccount(c) ==
    /\ \/ calls[c].at = "regUpdate"
       \/ calls[c].at = "regInsert" /\ ~accounts[wallet(c)].exists
    /\ accountLock[wallet(c)] = None
    /\ accountLock' = [accountLock EXCEPT ![wallet(c)] = c]
    /\ Goto(c, "regAgent")
    /\ UNCHANGED <<accounts, creditTx, treasury, halts, late, today, agentLock>>

\* The INSERT fails on the UNIQUE wallet_address.
RegRefused(c) ==
    /\ calls[c].at = "regInsert"
    /\ accountLock[wallet(c)] = None
    /\ accounts[wallet(c)].exists
    /\ Throw(c)

\* INSERT ... ON CONFLICT DO UPDATE of treasury_agents.
RegAgent(c) ==
    /\ calls[c].at = "regAgent"
    /\ agentLock[wallet(c)] = None
    /\ agentLock' = [agentLock EXCEPT ![wallet(c)] = c]
    /\ Goto(c, "regCommit")
    /\ UNCHANGED <<accounts, creditTx, treasury, halts, late, today, accountLock>>

\* COMMIT: the account is created, or keeps its key unless a new one is given.
RegCommit(c) ==
    LET w == wallet(c) IN
    /\ calls[c].at = "regCommit"
    /\ IF ~accounts[w].exists THEN GetOrCreateAccount(w, calls[c].key)
       ELSE IF calls[c].key # None THEN RegisterPubkey(w, calls[c].key)
       ELSE UNCHANGED <<accounts, creditTx>>
    /\ agents' = [agents EXCEPT ![w] = calls[c].agent]
    /\ registered' = IF agents[w].status = "none" THEN Append(registered, w) ELSE registered
    /\ Finish(c)
    /\ ReleaseLocks(c)
    /\ UNCHANGED <<refills, halts, late, today>>

-----------------------------------------------------------------------------
(* Halts, time, failures, and the other users of the accounts *)

\* setTreasuryHalt inserts an active row, or clears all rows of the scope.
SetTreasuryHalt(scope, active) ==
    /\ halts' = IF active THEN halts \cup {scope} ELSE halts \ {scope}
    /\ halts' # halts
    /\ late' = IF "global" \in halts' THEN late ELSE [w \in Wallets |-> 0]
    /\ UNCHANGED <<accounts, creditTx, treasury, today, calls, locks>>

NextDay ==
    /\ today < MaxDays
    /\ today' = today + 1
    /\ UNCHANGED <<accounts, creditTx, treasury, halts, late, calls, locks>>

\* External: an administrator pauses an agent.
PauseAgent(w) ==
    /\ agents[w].status = "active"
    /\ agentLock[w] = None
    /\ agents' = [agents EXCEPT ![w].status = "paused"]
    /\ UNCHANGED <<accounts, creditTx, registered, refills, halts, late, today, calls, locks>>

\* External: PostgreSQL ends a transaction of a circle that waits on itself.
\* fundAgent and registerAgent lock the same two rows in opposite orders.
WaitsFor(c, d) ==
    \/ calls[c].at \in {"lockAgent", "regAgent"} /\ agentLock[wallet(c)] = d
    \/ calls[c].at \in {"lockAccount", "regUpdate", "regInsert"}
          /\ accountLock[wallet(c)] = d

DeadlockVictim(c) ==
    /\ \E d \in Callers : WaitsFor(c, d) /\ WaitsFor(d, c)
    /\ Throw(c)

\* A query throws, or the process or its connection dies.
Fail(c) ==
    /\ calls[c].at # "idle"
    /\ Throw(c)

\* The facilitator on the same accounts: each transaction waits for the row.
MoneyStep(w) ==
    /\ accountLock[w] = None
    /\ \E amount \in Amounts, ref \in References \ {TreasuryRef} :
          \/ Len(creditTx[w]) < MaxDeposits /\ Deposit(w, amount, ref)
          \/ Charge(w, amount, ref)
    /\ UNCHANGED <<treasury, halts, late, today, calls, locks>>

AccountStep(w) ==
    /\ accountLock[w] = None
    /\ \/ \E key \in Keys \cup {None} : GetOrCreateAccount(w, key)
       \/ \E frozen \in BOOLEAN : SetFrozen(w, frozen)
    /\ UNCHANGED <<treasury, halts, late, today, calls, locks>>

-----------------------------------------------------------------------------
DecideStep(c) == WorkerCheck(c) \/ ReadAgent(c) \/ Decide(c)
FundStep(c) ==
    Begin(c) \/ LockAgent(c) \/ LockAccount(c) \/ CheckHalts(c) \/ Fund(c) \/ FundRefused(c)
RegisterStep(c) ==
    RegRead(c) \/ RegAccount(c) \/ RegRefused(c) \/ RegAgent(c) \/ RegCommit(c)

CallStep(c) == DecideStep(c) \/ FundStep(c) \/ RegisterStep(c) \/ DeadlockVictim(c)

Request(c) ==
    \E w \in Wallets :
        \/ StartRefill(c, w)
        \/ \E amount \in Amounts : StartFund(c, w, amount)
        \/ \E ns \in Namespaces \cup {None}, p \in Policies, key \in Keys \cup {None} :
              StartRegister(c, w, ns, p, key)

\* Without failures of queries and processes.
ReliableNext ==
    \/ \E c \in Workers : StartTick(c)
    \/ \E c \in Routes : Request(c)
    \/ \E c \in Callers : CallStep(c)
    \/ \E scope \in Scopes, active \in BOOLEAN : SetTreasuryHalt(scope, active)
    \/ NextDay
    \/ \E w \in Wallets : PauseAgent(w) \/ AccountStep(w) \/ MoneyStep(w)

Next == ReliableNext \/ \E c \in Callers : Fail(c)

Spec == Init /\ [][Next]_vars

\* The runtime resumes every call, PostgreSQL serves those that wait for a row
\* in turn and breaks deadlocks, and the timer fires again and again.
Fairness ==
    /\ \A c \in Callers :
          /\ WF_vars(DecideStep(c) \/ DeadlockVictim(c))
          /\ SF_vars(FundStep(c))
          /\ SF_vars(RegisterStep(c))
    /\ \A c \in Workers : WF_vars(StartTick(c))

FairSpec == Spec /\ Fairness

\* Calm times: no query fails, and nobody registers, pauses, halts or freezes any
\* more; ticks, requests for refills, deposits and charges go on.
CalmNext ==
    \/ \E c \in Workers : StartTick(c)
    \/ \E c \in Routes, w \in Wallets :
          StartRefill(c, w) \/ \E amount \in Amounts : StartFund(c, w, amount)
    \/ \E c \in Callers : CallStep(c)
    \/ NextDay
    \/ \E w \in Wallets : MoneyStep(w)

\* Every wallet an active agent of a policy, registered in some order.
CalmInit ==
    /\ accounts = [w \in Wallets |-> [NoAccount EXCEPT !.exists = TRUE]]
    /\ creditTx = [w \in Wallets |-> << >>]
    /\ agents \in [Wallets -> {[status |-> "active", namespace |-> None, policy |-> p] :
                                  p \in Policies}]
    /\ registered \in {order \in [1..Cardinality(Wallets) -> Wallets] : IsInjective(order)}
    /\ refills = [w \in Wallets |-> << >>]
    /\ halts = {}
    /\ late = [w \in Wallets |-> 0]
    /\ today = 1
    /\ calls = [c \in Callers |-> NoCall]
    /\ agentLock = [w \in Wallets |-> None]
    /\ accountLock = [w \in Wallets |-> None]

CalmFairSpec == CalmInit /\ [][CalmNext]_vars /\ Fairness

-----------------------------------------------------------------------------
(* Properties *)

RefilledOn(completed, day) ==
    SumAmounts(completed, {n \in 1..Len(completed) : completed[n].day = day})

\* Overlapping ticks and requests, decided on the same stale balance, never
\* refill an agent beyond its policy: with a new refill, the refills of its day
\* stay within the max_daily_refill in force at the commit, even around midnight
\* and when the policy is lowered meanwhile.
DailyLimit ==
    [][\A w \in Wallets : refills'[w] # refills[w] =>
          LET day == refills'[w][Len(refills'[w])].day
          IN  RefilledOn(refills'[w], day) <= agents[w].policy.max_daily]_vars

\* A refill decided for an agent that is paused, re-registered with a lower
\* max_single_refill, or frozen before the transaction locks its rows is not
\* paid: at the commit it is authorized still.
RefillsAreAuthorized ==
    [][\A w \in Wallets : refills'[w] # refills[w] =>
          /\ Eligible(w)
          /\ refills'[w][Len(refills'[w])].amount <= agents[w].policy.max_single]_vars

\* A halt stops every refill but the one that had read the halts before: while a
\* global halt lasts, no agent is refilled twice, however many calls are under
\* way, on however many days.
HaltLetsOneThrough == \A w \in Wallets : late[w] <= 1

\* Every call ends, also when fundAgent and registerAgent, which lock the rows of
\* agent and account in opposite orders, wait for each other.
EveryCallEnds == \A c \in Callers : (calls[c].at # "idle") ~> (calls[c] = NoCall)

\* The agent has its minimum, or may not be refilled today.
Provided(w) ==
    \/ accounts[w].balance >= agents[w].policy.min
    \/ ~Eligible(w)
    \/ ActiveHalts(w, agents[w].namespace) # {}
    \/ DailyRefilled(w, today) >= agents[w].policy.max_daily

\* In calm times the worker brings the balance of every agent back to its minimum
\* again and again, however the agent spends it and whatever other refills run at
\* the same time, as long as its daily limit allows.
EveryAgentRefilled == \A w \in Wallets : []<>Provided(w)

=============================================================================
