SPECIFICATION Spec
CONSTANTS
    CommandLines <- MCCommandLines
    FileSystems <- MCBothFiles
    Environments <- MCEnvironments
    KeyRings <- MCKeyRings
    Default <- MCDefault
    TableDefault <- MCTableDefault
INVARIANTS
    OverridesNamedKeys
CHECK_DEADLOCK FALSE
