SPECIFICATION Spec
CONSTANTS
    Procs = {p1, p2}
    LastEvent = 2
    MaxCommands = 4
    MaxCuts = 1
    Torn = Torn
    Genesis = Genesis
INVARIANTS RecoversAlone EventsOutliveReaders
PROPERTIES HaltHolds
CHECK_DEADLOCK FALSE
