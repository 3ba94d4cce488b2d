\* Two calls of the API, each a sweep or a settlement, with every failure.
SPECIFICATION Spec
CONSTANTS
    a1 = a1
    vault = vault
    acct = acct
    shop = shop
    i1 = i1
    c1 = c1
    c2 = c2
    Accounts = {vault, acct, shop}
    References = {a1, i1}
    Calls = {c1, c2}
    Openings <- MCOpenings
    Agents = {a1}
    AccountOf <- MCAccountOf
    Master = vault
    Policy <- MCPolicy
    Invoices = {i1}
    Price <- MCPrice
    Payee = shop
    MaxSingle = 2
    MaxWindow = 2
    Enforce = TRUE
    MaxEntries = 2
SYMMETRY Symmetric
INVARIANTS CacheCoherent RefillsAreJournaled ReceiptsAreSettled
 
