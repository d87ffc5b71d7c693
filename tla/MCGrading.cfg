SPECIFICATION Spec
CONSTANTS
    Agents <- MCAgents
    Actors <- MCActors
    MaxPerAgent = 2
    MaxPerRound = 4
    MaxRounds = 2
    MaxSurprises = 3
    MaxGraded = 1
    Settings <- MCSettings
    ReviewBatch = 1
INVARIANTS TypeOK SealedForGood VerdictIsWhole ReviewsAreGrounded
PROPERTIES SealingAccounts
CHECK_DEADLOCK FALSE
