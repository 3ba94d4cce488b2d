\* The liquidity scripts alone.
SPECIFICATION EdgeSpec
CONSTANTS
    Scenes = {"liquidity"}
    Events = {e1}
    Subs = {s1}
    Runs = {r1, r2}
    RetryLimit = 1
    MaxTries = 3
    MaxLeaves = 5
    Checks = {c1, c2}
    Limit = 2
    Window = 2
    Day = 3
    Delay = 2
    Usage = {u1, u2, u3}
    MaxBuffer = 2
    MaxIsolates = 1
    Fetches = {f1, f2}
    MaxAhead = 2
    MaxBehind = 2
    MaxStarts = 1
    Proofs = {p1}
    Confirmations = 2
    MaxHeight = 4
    Bins = {b1, b2}
    MaxPositions = 2
    MaxHeld = 2
    Labels = {"pool", "token", "vault"}
    Uris = {m1}
    Jobs = {j1, j2}
    Targets <- MCTargets
    Hour = 1
    MaxRun = 1
    MaxSwaps = 2
    MaxRows = 3
    MaxPage = 2
    Limits = {3}
    Setups = {i1, i2}
    Migrations = 2
    Texts <- MCTexts
    BrowserMax = 2
    ElevenMax = 2
    TtsMax = 2
    MaxClicks = 3
    Asks = {q1, q2}
    MaxQuestions = 3
    ClientTurns = 4
    WorkerTurns = 2
INVARIANT GuardsComeFirst
CHECK_DEADLOCK FALSE
