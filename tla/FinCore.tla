------------------------------ MODULE FinCore -------------------------------
(***************************************************************************)
(* fth-financial-core: the vault (crates/fth-vault) and the settlement     *)
(* engine (crates/fth-settlement) on top of the ledger, as the API wires   *)
(* them (crates/fth-api).                                                  *)
(*                                                                         *)
(* A sweep (POST /v1/vault/sweep) reads the active agents once and refills *)
(* them from the master account, one after the other: submit, an UPDATE of *)
(* the agent's row and an INSERT into the history, each on its own.        *)
(* Sweeps overlap.  A settlement is get, verify_and_settle, mark_paid and  *)
(* issue, in the order of the lifecycle that crates/fth-settlement/src/    *)
(* lib.rs documents; no route calls them yet, so the order of the calls is *)
(* the caller's, and external.                                             *)
(*                                                                         *)
(* Every database call may fail, a call may be dropped while it waits (the *)
(* client is gone) and the process may restart.  The tables have the       *)
(* columns and rows that the statements name.                              *)
(***************************************************************************)
EXTENDS FinLedger, FiniteSets, FiniteSetsExt

CONSTANTS
    Agents,      \* rows of treasury_agents
    AccountOf,   \* agent -> its credit account
    Master,      \* the account of the master vault
    Policy,      \* the refill policy of an agent
    Invoices,    \* rows of fc_invoices
    Price,       \* invoice -> amount
    Payee,       \* the account that is paid
    MaxSingle,   \* RiskLimits.max_single_amount
    MaxWindow,   \* RiskLimits.max_window_amount
    Enforce,     \* RiskLimits.enforce
    MaxEntries   \* bound: no call starts once the journal is this long

ASSUME CoreConstants ==
    /\ Master \in Accounts /\ Payee \in Accounts
    /\ AccountOf \in [Agents -> Accounts \ {Master}]
    /\ Agents \cup Invoices \subseteq References /\ Agents \cap Invoices = {}
    /\ Price \in [Invoices -> Nat]
    /\ Policy \in [min : Nat, target : Nat, max_single : Nat, max_daily : Nat]
    /\ MaxSingle \in Nat /\ MaxWindow \in Nat /\ MaxEntries \in Nat
    /\ Enforce \in BOOLEAN
\* The server has room for so many requests at the same time.
ASSUME CallsAreFinite == IsFiniteSet(Calls)
\* RefillPolicy::validate
ASSUME PolicyIsValid ==
    /\ Policy.min <= Policy.target
    /\ Policy.max_single > 0
    /\ Policy.max_single <= Policy.max_daily

VARIABLES
    agents,    \* agent -> its row of treasury_agents
    refills,   \* agent -> what its rows of treasury_refills add up to
    invoices,  \* invoice -> its row of fc_invoices
    receipts,  \* fc_receipts
    call       \* call -> where it is

coreVars == <<agents, refills, invoices, receipts>>
vars == <<ledgerVars, coreVars, call>>

-----------------------------------------------------------------------------
None == "none"
AgentRow == [balance : Nat, daily : Nat, active : BOOLEAN]
InvoiceRow == [status : {"none", "pending", "paid", "expired"}, due : BOOLEAN]
NoRow == [balance |-> 0, daily |-> 0, active |-> FALSE]
Receipt == [invoice : Invoices, payer : Accounts]

\* todo: the agents a sweep has not come to, as they were when it read them;
\* subject: the agent that is refilled, or the invoice that is settled.
Call == [at      : {"idle", "next", "posting", "agent", "history",
                    "settle", "mark", "issue"},
         todo    : [Agents -> AgentRow],
         subject : References \cup {None},
         amount  : Nat,
         payer   : Accounts \cup {None}]
Idle == [at |-> "idle", todo |-> [a \in Agents |-> NoRow], subject |-> None,
         amount |-> 0, payer |-> None]

Init ==
    /\ LedgerInit
    /\ agents \in [Agents -> [balance : {0}, daily : {0}, active : BOOLEAN]]
    /\ refills = [a \in Agents |-> 0]
    /\ invoices = [i \in Invoices |-> [status |-> "none", due |-> FALSE]]
    /\ receipts = {}
    /\ call = [c \in Calls |-> Idle]

\* Where call c stands, and what it does next.
Goto(c, at) == call' = [call EXCEPT ![c].at = at]
End(c) == call' = [call EXCEPT ![c] = Idle]

-----------------------------------------------------------------------------
(* The vault *)

\* Agent::needs_refill
NeedsRefill(row) == row.active /\ row.balance < Policy.min

\* Agent::refill_amount: the deficit, up to the limit of one refill and what is
\* left of the daily one.
RefillAmount(row) ==
    LET deficit == Policy.target - row.balance
        left    == Policy.max_daily - row.daily
    IN  CHOOSE n \in {0, deficit, Policy.max_single, left} :
          IF deficit <= 0 \/ left <= 0
          THEN n = 0
          ELSE n \in {deficit, Policy.max_single, left}
               /\ n <= deficit /\ n <= Policy.max_single /\ n <= left

\* sweep_refills, its SELECT of the active agents.
StartSweep(c) ==
    /\ call[c].at = "idle"
    /\ Len(journal) < MaxEntries
    /\ call' = [call EXCEPT ![c].at = "next",
                  ![c].todo = [a \in Agents |-> IF agents[a].active THEN agents[a] ELSE NoRow]]
    /\ UNCHANGED <<ledgerVars, coreVars>>

\* The loop over the rows that were read, in the order the SELECT had them.
Left(c) == {a \in Agents : call[c].todo[a].active}
Due(c, a) == NeedsRefill(call[c].todo[a]) /\ RefillAmount(call[c].todo[a]) > 0

\* refill_agent, its submit: the entry is committed.
RefillAgent(c, a) ==
    LET amount == RefillAmount(call[c].todo[a])
    IN  /\ call[c].at = "next" /\ a \in Left(c) /\ Due(c, a)
        /\ Commit(c, Transfer(Master, AccountOf[a], amount, a))
        /\ call' = [call EXCEPT ![c].at = "posting", ![c].todo[a] = NoRow,
                                ![c].subject = a, ![c].amount = amount]
        /\ UNCHANGED coreVars

\* Mutant of SkipAgent: a submit that fails is only logged.
SkipAgentAnyway(c, a) ==
    /\ call[c].at = "next" /\ a \in Left(c)
    /\ call' = [call EXCEPT ![c].at = "agent", ![c].todo[a] = NoRow, ![c].subject = a,
                            ![c].amount = RefillAmount(call[c].todo[a])]
    /\ UNCHANGED <<ledgerVars, coreVars>>

\* An agent that needs nothing, or whose submit fails: the sweep goes on.
SkipAgent(c, a) ==
    /\ call[c].at = "next" /\ a \in Left(c)
    /\ call' = [call EXCEPT ![c].todo[a] = NoRow]
    /\ UNCHANGED <<ledgerVars, coreVars>>

\* UPDATE treasury_agents: both columns grow by the amount.
UpdateAgent(c) ==
    LET a == call[c].subject
    IN  /\ call[c].at = "agent"
        /\ agents' = [agents EXCEPT ![a].balance = @ + call[c].amount,
                                    ![a].daily = @ + call[c].amount]
        /\ Goto(c, "history")
        /\ UNCHANGED <<ledgerVars, refills, invoices, receipts>>

\* INSERT INTO treasury_refills.
RecordRefill(c) ==
    /\ call[c].at = "history"
    /\ refills' = [refills EXCEPT ![call[c].subject] = @ + call[c].amount]
    /\ Goto(c, "next")
    /\ UNCHANGED <<ledgerVars, agents, invoices, receipts>>

\* One of the two fails: refill_agent returns the error, the sweep goes on.
RefillFails(c) ==
    /\ call[c].at \in {"agent", "history"}
    /\ Goto(c, "next")
    /\ UNCHANGED <<ledgerVars, coreVars>>

EndSweep(c) ==
    /\ call[c].at = "next" /\ Left(c) = {}
    /\ End(c)
    /\ UNCHANGED <<ledgerVars, coreVars>>

-----------------------------------------------------------------------------
(* Settlement *)

\* RiskEngine::evaluate for an account without transactions: the route gives it
\* an account id it has just drawn, so that its window is empty.
RiskAllows(amount) ==
    Enforce => amount <= MaxSingle /\ amount <= MaxWindow

\* POST /v1/invoices
CreateInvoice(i) ==
    /\ invoices[i].status = "none"
    /\ RiskAllows(Price[i])
    /\ invoices' = [invoices EXCEPT ![i].status = "pending"]
    /\ UNCHANGED <<ledgerVars, agents, refills, receipts, call>>

\* expires_at passes.
Lapse(i) ==
    /\ invoices[i].status # "none" /\ ~invoices[i].due
    /\ invoices' = [invoices EXCEPT ![i].due = TRUE]
    /\ UNCHANGED <<ledgerVars, agents, refills, receipts, call>>

Overdue == {i \in Invoices : invoices[i].status = "pending" /\ invoices[i].due}
ExpireStale ==
    /\ Overdue # {}
    /\ invoices' = [i \in Invoices |-> IF i \in Overdue
                       THEN [invoices[i] EXCEPT !.status = "expired"] ELSE invoices[i]]
    /\ UNCHANGED <<ledgerVars, agents, refills, receipts, call>>

\* InvoiceEngine::get reads a pending invoice for a payer.
GetInvoice(c, i, payer) ==
    /\ call[c].at = "idle"
    /\ Len(journal) < MaxEntries
    /\ invoices[i].status = "pending"
    /\ payer # Payee
    /\ call' = [call EXCEPT ![c].at = "settle", ![c].subject = i,
                            ![c].amount = Price[i], ![c].payer = payer]
    /\ UNCHANGED <<ledgerVars, coreVars>>

\* verify_and_settle.  The status is the one that was read; the balance is the
\* cached one.
Payable(c) ==
    /\ ~invoices[call[c].subject].due
    /\ cache[call[c].payer] >= call[c].amount
VerifyAndSettle(c) ==
    /\ call[c].at = "settle" /\ Payable(c)
    /\ Commit(c, Transfer(call[c].payer, Payee, call[c].amount, call[c].subject))
    /\ Goto(c, "posting")
    /\ UNCHANGED coreVars

\* Mutant of MarkPaid: the UPDATE has no AND status = 'pending'.
MarkPaidAnyway(c) ==
    /\ call[c].at = "mark"
    /\ invoices' = [invoices EXCEPT ![call[c].subject].status = "paid"]
    /\ Goto(c, "issue")
    /\ UNCHANGED <<ledgerVars, agents, refills, receipts>>

\* The row count of the UPDATE tells whether the invoice was still pending.
MarkPaid(c) ==
    /\ call[c].at = "mark"
    /\ invoices[call[c].subject].status = "pending"
    /\ invoices' = [invoices EXCEPT ![call[c].subject].status = "paid"]
    /\ Goto(c, "issue")
    /\ UNCHANGED <<ledgerVars, agents, refills, receipts>>

Issue(c) ==
    /\ call[c].at = "issue"
    /\ receipts' = receipts \cup {[invoice |-> call[c].subject, payer |-> call[c].payer]}
    /\ End(c)
    /\ UNCHANGED <<ledgerVars, agents, refills, invoices>>

\* Refused (not payable any more, not enough in the cache, not pending), or
\* the database call failed.
SettlementFails(c) ==
    /\ call[c].at \in {"settle", "mark", "issue"}
    /\ End(c)
    /\ UNCHANGED <<ledgerVars, coreVars>>

-----------------------------------------------------------------------------
\* submit after its COMMIT: a leg reaches the cache, and the call goes on.
Applied(c) ==
    /\ call[c].at = "posting"
    /\ ApplyDelta(c)
    /\ Goto(c, IF posting'[c] # << >> THEN "posting"
               ELSE IF call[c].subject \in Agents THEN "agent" ELSE "mark")
    /\ UNCHANGED coreVars

\* The answer of the COMMIT is lost: submit returns an error.
CommitFails(c) ==
    /\ call[c].at = "posting"
    /\ LoseCommit(c)
    /\ IF call[c].subject \in Agents THEN Goto(c, "next") ELSE End(c)
    /\ UNCHANGED coreVars

\* The client goes away: the call is dropped where it waits.
Dropped(c) ==
    /\ call[c].at # "idle"
    /\ End(c)
    /\ IF call[c].at = "posting" THEN LoseCommit(c) ELSE UNCHANGED ledgerVars
    /\ UNCHANGED coreVars

Restart ==
    /\ RestartLedger
    /\ call' = [c \in Calls |-> Idle]
    /\ UNCHANGED coreVars

SweepStep(c) ==
    \/ StartSweep(c)
    \/ \E a \in Agents : RefillAgent(c, a) \/ SkipAgent(c, a)
    \/ UpdateAgent(c) \/ RecordRefill(c) \/ RefillFails(c) \/ EndSweep(c)
SettleStep(c) ==
    \/ \E i \in Invoices, payer \in Accounts : GetInvoice(c, i, payer)
    \/ VerifyAndSettle(c) \/ MarkPaid(c) \/ Issue(c) \/ SettlementFails(c)
InvoiceStep ==
    \/ \E i \in Invoices : CreateInvoice(i) \/ Lapse(i)
    \/ ExpireStale

Next ==
    \/ \E c \in Calls :
          SweepStep(c) \/ SettleStep(c) \/ Applied(c) \/ CommitFails(c) \/ Dropped(c)
    \/ InvoiceStep
    \/ Restart

Spec == Init /\ [][Next]_vars

-----------------------------------------------------------------------------
(* Properties *)

\* Whatever sweeps and settlements overlap, fail or are cut off, the table
\* changes by whole, journaled transfers only: the engine keeps the books of
\* DoubleEntry.
Books == INSTANCE DoubleEntry WITH position <- balance, history <- journal
LedgerSpec == Books!LedgerSpec

\* The cached balance of an account is the one of the table, less what calls
\* that have committed are about to add to it, unless a leg was refused or a
\* call was cut off after its COMMIT: no order of concurrent commits and cache
\* updates loses a leg silently.
InFlightSum(waiting, a) == MapThenSumSet(LAMBDA c : InFlight(waiting[c], a), Calls)
CacheCoherent ==
    \A a \in Accounts \ drifted : cache[a] + InFlightSum(posting, a) = balance[a]

\* What some entries moved to an agent.
Refilled(entries, a) ==
    MapThenSumSet(LAMBDA n : entries[n].amount,
                  {n \in 1..Len(entries) : entries[n].reference = a})

\* The three records of refills never claim more than the one before them: the
\* history no more than the agents' rows, and these no more than the journal,
\* whichever step of a refill fails.
RefillsAreJournaled ==
    \A a \in Agents : refills[a] <= agents[a].daily /\ agents[a].daily <= Refilled(journal, a)

\* A receipt is issued for a paid invoice, to one payer, whose money the journal
\* moved.
ReceiptsAreSettled ==
    \A r \in receipts :
        /\ invoices[r.invoice].status = "paid"
        /\ \E n \in DOMAIN journal :
              journal[n].reference = r.invoice /\ journal[n].from = r.payer
        /\ \A other \in receipts : other.invoice = r.invoice => other = r
=============================================================================
