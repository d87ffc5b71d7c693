SPECIFICATION Spec
CONSTANTS
    Founders = {f1, f2, f3}
    Configs <- EdgeConfigs
    MaxChildren = 2
    MaxRounds = 3
    MaxEvents = 2
SYMMETRY FounderSymmetry
CHECK_DEADLOCK FALSE
INVARIANTS TypeOK EveryAgentHasHistory PopulationKept EliteStands PlanReplacesTheCulled RunsWithItsLatest
PROPERTIES EvolutionCompletes
