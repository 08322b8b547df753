SPECIFICATION Spec
CHECK_DEADLOCK FALSE
CONSTANTS
    btc = btc
    alt = alt
    Symbols <- MCSymbols
    FeeUnit = 2
    SlipUnit = 1
    StartCash = 500
    Step <- MCStep
    MinUnits = 1
    MaxUnits = 3
    MaxClips = 3
    AllowPartial = TRUE
    Books <- MCBooks
    Marks <- MCMarks
    Schedules <- MCSchedules
    Rates <- MCRates
    Depths <- MCDepths
    Hour = 3
    MaxLag = 1
    Intervals = {1, 2}
    Horizon = 6
    MaxDelay = 2
    MaxExecution = 1
    MaxLateEvents = 1
    MaxChanges = 2
    MaxCycles = 2
INVARIANTS
    AttributionComplete
    FundingExact
PROPERTIES
    FillsFollowBook
    NoStraddledBasket
    ImplementsInventory
