SPECIFICATION FairSpec
CONSTANTS
    r1 = r1
    r2 = r2
    ddg = ddg
    brave = brave
    Requests = {r1, r2}
    Providers = {ddg, brave}
    Playwright = {}
    Tier <- MCNoTiers
    SortedNames <- MCSorted
    Words <- MCWords
    Offers <- MCOne
    Yields = {1}
    Timeout = 1
    MaxAttempts = 1
    CacheErrors = {}
    Clears = {}
    MaxTime = 1
    TTL = 1
    Threshold = 1
    MinSample = 3
    Window = 3
    Cooldown = 2
INVARIANTS
    NoNewWorkWhenDown
    AnsweredInTime
    NoOrphans
PROPERTIES
    EveryRequestAnswered
CHECK_DEADLOCK FALSE
