SPECIFICATION Spec
CONSTANTS
    Symbols = {1, 2}
    Calendars <- MCCalendars
    Candles <- MCCandles
    Volumes = {1, 4}
    Stops = {3, 9}
    Targets = {0, 3, 9}
    Lifetimes = {0, 3}
    MaxSignals = 2
    InitialCash = 4
    TickValue = 1
    Adverse = 1
    CommissionPerLot = 0
    MarginPerLot = 0
    VolumeMin = 1
    VolumeStep = 1
    VolumeMax = 5
    LiquidityCap = 4
    AllowPartial = TRUE
    SwapPerLot = 1
    TripleSwapWeekday = 2
    BarsPerDay = 1
    ValidationBoundary = 1
    TestBoundary = 3
    Embargo = 0
CHECK_DEADLOCK FALSE
INVARIANTS
    GrantsFit
