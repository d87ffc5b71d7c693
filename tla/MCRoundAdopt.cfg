SPECIFICATION Spec
CONSTANTS
    Population = 1
    Concurrency = 1
    HasTimeout = TRUE
    Setups <- Adopted
    Events = {"crash"}
    Sizes = {"absent", "fits"}
    MaxRounds = 2
CHECK_DEADLOCK FALSE
INVARIANT SealedMeansStopped
