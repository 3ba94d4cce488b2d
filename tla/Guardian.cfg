SPECIFICATION Spec
CONSTANTS
    Scenes = {"nodes", "services", "endpoints", "ticks", "chain", "audit", "upgrade", "treasury", "enforcer", "revenue", "anchors", "alerts"}
    OneProbe = p1
    OneTick = k1
    OneRepair = r1
    Targets = {"alpha", "gateway", "website"}
    Nodes = {"alpha"}
    Endpoints = {"website"}
    Probes = {p1, p2}
    MaxFailures = 2
    Repairs = {r1, r2}
    Ticks = {k1, k2}
    MaxAttempts = 2
    BreakerThreshold = 2
    Entries = {e1, e2}
    Flushes = {f1, f2}
    BufferLimit = 1
    MaxEnds = 1
    Components = {"l1-node", "facilitator", "other"}
    Known = {"l1-node", "facilitator"}
    AutoUpgrade = {"facilitator"}
    Rolling = "l1-node"
    RollingNodes = 2
    Callers = {c1, c2}
    Wallets = {w1, w2}
    Cycles = {y1, y2}
    TopUp = 1
    DailyMax = 1
    SpendEvents = 1
    Addresses = {a1, a2}
    MaxRequests = 1
    MaxAuthFailures = 2
    Blocks = {b1, b2}
    Rounds = {q1, q2}
    Counters = {"payment_fees"}
    Audited = {"staking_rewards"}
    MaxRevenue = 1
    MaxRounds = 1
    Receipts = {x1}
    Rooters = {h1, h2}
    FinalDepth = 2
    KeptBatches = 1
    MaxBlocks = 3
    MaxRoots = 2
    Domains = {"l1.unykorn.org"}
    Sites = {"x402.org"}
    AlertCalls = {c1, c2}
    MaxAlerts = 1
  
PROPERTIES   EveryUpgradeEnds 
CHECK_DEADLOCK FALSE
