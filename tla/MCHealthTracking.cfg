SPECIFICATION Spec
CONSTANTS
    Threshold = 3
    MinSample = 3
    Window = 2
    Cooldown = 3
    MaxTime = 6
    MaxEvents = 5
INVARIANTS
    DownConsistent
    RunIsFailures
    SinceLastFailure
PROPERTIES
    RecoveryIsEarned
