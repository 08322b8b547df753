CONSTANTS
    None = None
    Symbols = {1, 2, 3, 4, 5}
    UniverseSize = 4
    SleeveSize = 2
    Sleeve = 4
    MinWeight = 1
    MaxWeight = 3
    WeekLength = 2
    Tilts <- MCTilts
    Markets <- MCMarkets
    Caps <- MCCaps
    Thin = {1}
    MaxResidual = 1
    MaxDeploy = 1
    MaxName = 3
    MaxAge = 1
    Horizon = 2
    MaxPrepares = 2
    MaxCycles = 2
    MaxWrites = 5
    MaxFaults = 1
SPECIFICATION Spec
INVARIANT WeekLoads
CHECK_DEADLOCK FALSE
