CONSTANTS
    None = None
    A = A
    B = B
    BTC = BTC
    Symbols <- Coins
    Btc = BTC
    Cash = 4
    DeployMin = 75
    DeployMax = 115
    DollarResidualMax = 10
    BetaResidualMax = 15
    LegShareMax = 50
    HedgeMax = 50
    LegBetaMax = 60
    ChangesMax = 2
    ColdStartMax = 4
    SeedMax = 50
    Menu <- SmallMenu
    Markets <- SmallMarkets
    Directives <- SmallDirectives
    MaxCycles = 2
    MaxCorrections = 2
SPECIFICATION Spec
CHECK_DEADLOCK FALSE
PROPERTIES
    NoUnreviewedRisk
    HeldWasAudited
    IncumbentsEndReviewed
    RestartHolds
    ExceptionsQuoted
