SPECIFICATION Spec
CONSTANTS
    MaxBar = 4
    BarsPerDay = 2
    Levels <- MCLevels
    InitialCash = 10
    Cost = 1
    MaxTrades = 2
    MaxOrders = 2
    MaxDailyLoss = 15
    MaxDrawdown = 40
    MaxSplits = 2
INVARIANTS NoDoubleExecution
