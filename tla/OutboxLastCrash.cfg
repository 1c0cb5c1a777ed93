SPECIFICATION FairSpec
CONSTANTS
    None = None
    Messages = {m1}
    Workers = {w1, w2}
    Transports = {"smtp"}
    MaxAttempts = 2
    MaxResends = 0
    MaxForgets = 0
    MaxDelivered = 1
PROPERTIES CrashedLeaseIsReleased
CHECK_DEADLOCK FALSE
