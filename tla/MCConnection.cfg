SPECIFICATION FairSpec
CONSTANTS
    Lines <- MCLines
    Parses <- MCParses
    Urls <- MCUrls
    Pages <- MCPages
    Timeouts = {0, 1}
    MaxFetchTimeout = 1
    MaxRedirects = 2
    MaxBody = 1
    MaxSize = 3
    BufferSize = 2
    MaxLines = 3
INVARIANTS
    GivenPagesAreWhole
PROPERTIES
    OneReplyEach
    EveryLineAnswered
CHECK_DEADLOCK FALSE
