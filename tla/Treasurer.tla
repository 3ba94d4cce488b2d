----------------------------- MODULE Treasurer -----------------------------
(***************************************************************************)
(* fth-guardian, daemons/treasurer.ts: a timer reads the balances of the   *)
(* wallets and tops up the low ones, within a daily limit that is checked  *)
(* before the request to fund and counted after its answer.  Cycles        *)
(* overlap: setInterval does not wait for a slow cycle.                    *)
(***************************************************************************)
EXTENDS Naturals, FiniteSets

CONSTANTS
    Wallets,     \* wallets of the treasury service and of the chain
    Cycles,      \* bound: cycles at one time
    TopUp,       \* what a low wallet is funded with
    DailyMax,    \* max_daily_spend_uny
    SpendEvents  \* bound: the count to which treasury.spend events are counted

ASSUME TreasurerConstants ==
    /\ TopUp \in Nat \ {0} /\ DailyMax \in Nat
    /\ IsFiniteSet(Cycles) /\ Cycles # {}

VARIABLES
    low,      \* wallet -> is its balance under the funding threshold (external)
    read,     \* wallet -> the balance in this.wallets is under it
    spent,    \* dailySpentUny
    dayOver,  \* 24 hours since lastDailyReset
    cycle,    \* slot -> a run of runCycle
    funded    \* history: what cycles have funded since the last reset
treasurerVars == <<low, read, spent, dayOver, cycle, funded>>

Nobody == "nobody"
NoCycle == [at |-> "idle", todo |-> {}, wallet |-> Nobody]

TreasurerInit ==
    /\ low = [w \in Wallets |-> FALSE]
    /\ read = [w \in Wallets |-> FALSE]
    /\ spent = 0
    /\ dayOver = FALSE
    /\ cycle = [c \in Cycles |-> NoCycle]
    /\ funded = 0

-----------------------------------------------------------------------------
\* runCycle up to its first await: the daily reset.
StartCycle(c) ==
    /\ cycle[c].at = "idle"
    /\ cycle' = [cycle EXCEPT ![c].at = "read"]
    /\ spent' = IF dayOver THEN 0 ELSE spent
    /\ funded' = IF dayOver THEN 0 ELSE funded
    /\ dayOver' = FALSE
    /\ UNCHANGED <<low, read>>

\* checkBalances: this.wallets is shared by the cycles.  When the services do
\* not answer, the balances stay as they were.
CheckBalances(c) ==
    /\ cycle[c].at = "read"
    /\ read' \in {read, low}
    /\ cycle' = [cycle EXCEPT ![c].at = "loop", ![c].todo = Wallets]
    /\ UNCHANGED <<low, spent, dayOver, funded>>

\* enforceReserves, one wallet: the limit is checked, the request is sent.
WithinLimit == spent + TopUp <= DailyMax
EnforceReserve(c, w) ==
    /\ cycle[c].at = "loop" /\ w \in cycle[c].todo
    /\ cycle' = [cycle EXCEPT ![c] =
          IF read[w] /\ WithinLimit
          THEN [at |-> "fund", todo |-> cycle[c].todo \ {w}, wallet |-> w]
          ELSE [cycle[c] EXCEPT !.todo = @ \ {w}]]
    /\ UNCHANGED <<low, read, spent, dayOver, funded>>

\* fundWallet: the treasury funds the wallet, or refuses.
FundWallet(c) ==
    /\ cycle[c].at = "fund"
    /\ low' = [low EXCEPT ![cycle[c].wallet] = FALSE]
    /\ funded' = funded + TopUp
    /\ cycle' = [cycle EXCEPT ![c].at = "count", ![c].wallet = Nobody]
    /\ UNCHANGED <<read, spent, dayOver>>
FundRefused(c) ==
    /\ cycle[c].at = "fund"
    /\ cycle' = [cycle EXCEPT ![c].at = "count", ![c].wallet = Nobody]
    /\ UNCHANGED <<low, read, spent, dayOver, funded>>

\* Mutant of Count: an answer that is lost is not counted.
CountAnswered(c) ==
    /\ cycle[c].at = "count"
    /\ spent' \in {spent, spent + TopUp}
    /\ cycle' = [cycle EXCEPT ![c].at = "loop"]
    /\ UNCHANGED <<low, read, dayOver, funded>>

\* Back in enforceReserves: the amount is counted whatever the answer was.
Count(c) ==
    /\ cycle[c].at = "count"
    /\ spent' = spent + TopUp
    /\ cycle' = [cycle EXCEPT ![c].at = "loop"]
    /\ UNCHANGED <<low, read, dayOver, funded>>

\* The end of the cycle; a failed query of checkBalances, or of its last
\* statement, ends it with an alert.
EndCycle(c) ==
    /\ \/ cycle[c].at = "loop" /\ cycle[c].todo = {}
       \/ cycle[c].at = "read"
    /\ cycle' = [cycle EXCEPT ![c] = NoCycle]
    /\ UNCHANGED <<low, read, spent, dayOver, funded>>

\* The events treasury.spend, which count, and treasury.fund_request, which
\* fund without the limit and without counting.
SpendEvent ==
    /\ spent < SpendEvents
    /\ spent' = spent + 1
    /\ UNCHANGED <<low, read, dayOver, cycle, funded>>
FundRequest(w) ==
    /\ low' = [low EXCEPT ![w] = FALSE]
    /\ UNCHANGED <<read, spent, dayOver, cycle, funded>>

\* A wallet spends; a day passes.
WalletSpends(w) ==
    /\ low' = [low EXCEPT ![w] = TRUE]
    /\ UNCHANGED <<read, spent, dayOver, cycle, funded>>
DayPasses ==
    /\ dayOver' = TRUE
    /\ UNCHANGED <<low, read, spent, cycle, funded>>

\* The process ends: the day's count is in memory, the day starts again.
TreasurerRestart ==
    /\ read' = [w \in Wallets |-> FALSE]
    /\ spent' = 0 /\ funded' = 0 /\ dayOver' = FALSE
    /\ cycle' = [c \in Cycles |-> NoCycle]
    /\ UNCHANGED low

CycleStep(c) ==
    \/ StartCycle(c) \/ CheckBalances(c)
    \/ \E w \in Wallets : EnforceReserve(c, w)
    \/ FundWallet(c) \/ FundRefused(c) \/ Count(c) \/ EndCycle(c)

TreasurerNext ==
    \/ \E c \in Cycles : CycleStep(c)
    \/ SpendEvent \/ \E w \in Wallets : FundRequest(w) \/ WalletSpends(w)
    \/ DayPasses \/ TreasurerRestart
TreasurerSpec == TreasurerInit /\ [][TreasurerNext]_treasurerVars

-----------------------------------------------------------------------------
(* Properties *)

Uncounted == {c \in Cycles : cycle[c].at = "count"}
Overlap == Cardinality(Cycles)

\* Between two resets the cycles fund no more than the daily limit and one top-up
\* for each cycle that may overlap, and every funding is counted or about to be:
\* a request whose answer was lost, or that was under way during the reset, opens
\* no second budget (treasurer.ts:107-115, 219-233).
SpendBounded ==
    /\ funded <= spent + Cardinality(Uncounted) * TopUp
    /\ funded <= DailyMax + (Overlap - 1) * TopUp
=============================================================================
