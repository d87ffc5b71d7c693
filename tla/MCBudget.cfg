SPECIFICATION Spec
CONSTANTS
    m1 = m1
    m2 = m2
    Population = 3
    Models <- MCModels
    Unlimited = Unlimited
    NoPrice = NoPrice
    InitialConfig <- MCConfig
    Patches <- MCPatches
    Usages <- MCUsages
    Concurrency = 2
    Replaceable = {1}
    MaxRounds = 2
    Faults = {"crash_idle", "crash_round", "collect_error"}
CHECK_DEADLOCK FALSE
INVARIANTS TypeOK OvershootBounded LatchCurrent PricedUnderUsdCap ReplayRebuildsTokens
PROPERTY BreachFinal
