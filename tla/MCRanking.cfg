SPECIFICATION RankSpec
CONSTANTS
    Inputs <- MCInputs
    Others <- MCOthers
    Limits = {0, 2, 3}
    MaxLimit = 3
    Configs <- MCConfigs
    WeightOf <- MCWeights
    Worth <- MCWorth
    Trackers = {"ref"}
    MaxMerges = 2
INVARIANTS
    KeysAreStable
    BestOfEachPage
    ProviderOrderKept
CHECK_DEADLOCK FALSE
