SPECIFICATION FairLoopSpec
CONSTANTS
    c1 = c1
    c2 = c2
    Clients = {c1, c2}
    Requests = {"Search"}
    MaxEdits = 2
    MaxHups = 2
INVARIANTS
    AtMostOneStale
PROPERTIES
    SigtermStops
    ReloadIsApplied
CHECK_DEADLOCK FALSE
