SPECIFICATION FairCallSpec
CONSTANTS
    t1 = t1
    t2 = t2
    Tasks = {t1, t2}
    Names = {"brave"}
    rpm <- MCSlots
    Window = 3
    MaxTime = 0
    MaxAttempts = 2
    BaseDelay = 1
    CapDelay = 2
    RotateEvery = 2
    Delay = 1
    Exchanges <- MCExchanges
INVARIANTS
    RateBound
    RequestsKeepRate
    HintHonoured
    RotationTakesEffect
PROPERTIES
    CallsEnd
CHECK_DEADLOCK FALSE
