SPECIFICATION Spec
CONSTANTS
    None = None
    Messages = {m1}
    Workers = {w1}
    Transports = {"smtp"}
    MaxAttempts = 3
    MaxResends = 0
    MaxForgets = 1
    MaxDelivered = 2
INVARIANTS RetryNeverDeliveredTwice
CHECK_DEADLOCK FALSE
