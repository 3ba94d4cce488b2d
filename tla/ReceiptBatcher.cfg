\* Restarts, failed queries, lost answers, outages: two batches, one sweeper,
\* and what is recovered when the faults end.
SPECIFICATION FairSpec
CONSTANTS
    Batches = {b1, b2}
    Receipts = {r1, r2}
    Sweepers = {sweep}
    SweepLimit = 1
    MaxAttempts = 2
    MaxCopies = 2
    BATCH_SIZE = 2
INVARIANTS BatchedOnce TagsMatchRoots AnchorsAreReal
PROPERTIES EveryBatchAnchored
CHECK_DEADLOCK FALSE
