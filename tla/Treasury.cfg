\* A tick of the worker against requests that refill, fund and register an agent
\* under two policies, over two days.
SPECIFICATION FairSpec
CONSTANTS
    w1 = w1
    w2 = w2
    i1 = i1
    refill = refill
    k1 = k1
    ns1 = ns1
    tick = tick
    r1 = r1
    Wallets = {w1}
    Keys = {}
    Invoices = {i1}
    Channels = {}
    Sequences = {}
    Amounts = {1}
    References = {i1, refill}
    TreasuryRef = refill
    MaxEntries = 20
    Workers = {tick}
    Routes = {r1}
    Namespaces = {}
    Policies <- LowPolicies
    AgentLimit = 2
    MaxDays = 2
    MaxDeposits = 0
INVARIANTS HaltLetsOneThrough
PROPERTIES RefillsAreAuthorized DailyLimit EveryCallEnds
