SPECIFICATION Spec
CONSTANTS
    Population = 2
    Concurrency = 1
    HasTimeout = FALSE
    Setups <- SharedOrAlone
    Events = {}
    Sizes = {"absent", "fits"}
    MaxRounds = 1
CHECK_DEADLOCK FALSE
INVARIANT EveryWorkerQuiesced
