\* Two overlapping requests for one invoice both settle.
SPECIFICATION ReliableSpec
CONSTANTS
    w1 = w1
    w2 = w2
    i1 = i1
    i2 = i2
    c1 = c1
    k1 = k1
    Wallets = {w1, w2}
    Amounts = {1}
    Prices = {1}
    Invoices = {i1}
    References = {i1}
    Channels = {}
    Sequences = {}
    Keys = {k1}
    MaxEntries = 2
    Requests = {r1, r2}
    Bodies <- MixedBodies
SYMMETRY MCSymmetry
INVARIANTS SingleUse
