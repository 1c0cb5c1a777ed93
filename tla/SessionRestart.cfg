SPECIFICATION MCSpec
CONSTANTS
    None = None
    w1 = w1
    w2 = w2
    Writers = {w1}
    LastTick = 4
    Target = 2
    MaxOpened = 3
INVARIANTS SamePlace
CHECK_DEADLOCK FALSE
