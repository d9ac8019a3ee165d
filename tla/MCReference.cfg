SPECIFICATION Inputs
CONSTANTS
    Duration = 1
    Slack = 2
    GapMultiplier = 1
    MaxStaleness = 2
    Scale = 100
    Pipeline <- MCPipeline
    Horizon = 1
    NeutralPercent = 5
    Interval = 1
    Whole = 1000
    Parameters <- MCParameters
    BarDuration = 2
    DecisionConfidence = 600
    RiskPolicy <- MCRiskPolicy
    Instrument <- MCInstrument
    Base <- MCBase
    Quote <- MCQuote
    AccountCurrency = "USD"
    FxRates <- MCRates
    Limits <- MCLimits
    Batches <- MCBatches
    Histories <- MCHistories
    Studies <- MCStudies
    Proposals <- MCProposals
CHECK_DEADLOCK FALSE
INVARIANTS
    UsableDataIsSound
    FeaturesAreCausal
    NoLeakage
    ApprovedIntentIsSafe
