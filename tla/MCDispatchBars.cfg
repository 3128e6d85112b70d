SPECIFICATION Spec
CONSTANTS
    r1 = r1
    r2 = r2
    ddg = ddg
    brave = brave
    Requests = {r1, r2}
    Providers = {ddg, brave}
    Playwright = {}
    Tier <- MCNoTiers
    SortedNames <- MCSorted
    Words <- MCWords
    Offers <- MCBars
    Yields = {1}
    Timeout = 1
    MaxAttempts = 1
    CacheErrors = {}
    Clears = {}
    MaxTime = 0
    TTL = 1
    Threshold = 1
    MinSample = 3
    Window = 3
    Cooldown = 1
INVARIANT AnswersTheQuery
CHECK_DEADLOCK FALSE
