SPECIFICATION EngineSpec
CONSTANTS
    None = None
    monthly = monthly
    quarterly = quarterly
    Books = {monthly, quarterly}
    LastSession = 3
    Markets <- MCMarkets
    Cadence <- MCCadence
    Wants <- MCWants
    Lot = 2
    Capital = 100
    Window = 1
    MaxDailyLoss = 2
    MaxDrawdown = 4
    MaxResumes = 1
    Late = FALSE
INVARIANTS NextOpenOnly DividendOnce LimitsHold NeverBlocked
CHECK_DEADLOCK FALSE
