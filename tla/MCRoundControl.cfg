SPECIFICATION Spec
CONSTANTS
    Population = 1
    Concurrency = 1
    HasTimeout = TRUE
    Setups <- AnySetup
    Events = {"abort", "criteria", "crash"}
    Sizes = {"absent", "fits", "oversized"}
    MaxRounds = 2
CHECK_DEADLOCK FALSE
INVARIANTS StaleWriterExcluded AbortLandsOnItsRound ReleasedOnce AcceptedOverrideWins NoStuckRow
PROPERTIES RoundEnds KeepsToContract
