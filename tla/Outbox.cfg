SPECIFICATION FairSpec
CONSTANTS
    None = None
    Messages = {m1}
    Workers = {w1, w2}
    Transports = {"resend", "smtp"}
    MaxAttempts = 3
    MaxResends = 1
    MaxForgets = 1
    MaxDelivered = 4
INVARIANTS SentWasDelivered DeliveredAsAsked
PROPERTIES OutcomeStands EveryMessageSettles
CHECK_DEADLOCK FALSE
