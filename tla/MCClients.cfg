SPECIFICATION FairSpec
CONSTANTS
    c1 = c1
    c2 = c2
    Calls = {c1, c2}
    Invocations <- MCInvocations
    Timeout = 1
    MaxFetchTimeout = 2
    MaxLimit = 1
    HttpStatus = {404}
    MaxStarts = 2
    MaxTime = 2
INVARIANTS
    OwnAnswers
    ServedAtMostOnce
PROPERTIES
    ToolCallsEnd
CHECK_DEADLOCK FALSE
