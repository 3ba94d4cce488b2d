\* Two concurrent requests over two invoices, one account and one channel that can
\* each pay both, with six bodies of four kinds of proof.
SPECIFICATION Spec
CONSTANTS
    w1 = w1
    w2 = w2
    i1 = i1
    i2 = i2
    c1 = c1
    k1 = k1
    Wallets = {w1}
    Amounts = {1, 2}
    Prices = {1}
    Invoices = {i1, i2}
    References = {i1, i2}
    Channels = {c1}
    Sequences = {1, 2}
    Keys = {k1}
    MaxEntries = 1
    Requests = {r1, r2}
    Bodies <- AllBodies
SYMMETRY MCSymmetry
INVARIANTS ReceiptsBacked  ReceiptClosesInvoice ChannelProofOnce
PROPERTIES BooksSpec
