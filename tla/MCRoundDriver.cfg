SPECIFICATION Spec
CONSTANTS
    Population = 2
    Concurrency = 2
    HasTimeout = TRUE
    Setups <- SharedOrAlone
    Events = {}
    Sizes = {"absent", "fits"}
    MaxRounds = 1
CHECK_DEADLOCK FALSE
INVARIANTS TypeOK BarrierIsReal
PROPERTY VerdictIsTrue
