SPECIFICATION Spec
CONSTANTS
    Procs = {p1, p2}
    LastEvent = 2
    MaxCommands = 4
    MaxCuts = 1
    Torn = Torn
    Genesis = Genesis
INVARIANTS RecoversFromCut
CHECK_DEADLOCK FALSE
