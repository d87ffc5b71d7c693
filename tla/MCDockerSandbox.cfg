SPECIFICATION Spec
CONSTANTS
    Agents <- MCAgents
    MaxContainers = 2
    Total = 5
    RivalRequests = {3}
    MaxRounds = 3
    MaxFaults = 2
INVARIANTS TypeOK NothingLost CapacityHeld AloneInItsContainer
