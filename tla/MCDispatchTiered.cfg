SPECIFICATION Spec
CONSTANTS
    r1 = r1
    r2 = r2
    ddg = ddg
    brave = brave
    Requests = {r1, r2}
    Providers = {ddg, brave}
    Playwright = {brave}
    Tier <- MCTwoTiers
    SortedNames <- MCSorted
    Words <- MCWords
    Offers <- MCTiered
    Yields = {0, 1}
    Timeout = 1
    MaxAttempts = 2
    CacheErrors = {"get", "set"}
    Clears = {"all", ddg}
    MaxTime = 0
    TTL = 1
    Threshold = 1
    MinSample = 3
    Window = 3
    Cooldown = 1
SYMMETRY MCSymmetry
INVARIANTS
    HitIsComplete
    RowsMatchKeys
    AnswersTheRequest
    TiersInOrder
CHECK_DEADLOCK FALSE
