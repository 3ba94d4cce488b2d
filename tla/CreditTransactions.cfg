\* Two sessions on one account: every interleaving of their statements,
\* under the fairness of lock queues.
SPECIFICATION TxnFairSpec
CONSTANTS
    Wallets = {w1}
    Amounts = {1, 2}
    Invoices = {}
    References = {ref1}
    Channels = {}
    Sequences = {}
    Keys = {k1}
    MaxEntries = 3
    Sessions = {s1, s2}
INVARIANTS LedgerAudit
PROPERTIES CreditsSpec EveryOperationEnds
