SPECIFICATION Spec
CONSTANTS
    None = None
    ana = ana
    bob = bob
    a1 = a1
    a2 = a2
    b2 = b2
    Accounts = {ana, bob}
    Reports = {a1, a2, b2}
    OwnerOf <- MCOwner
    Ops <- MCOps
    LastSeal = 3
    MaxRecords = 2
    Procs = {p1, p2}
    MaxRequests = 5
SYMMETRY Interchangeable
INVARIANTS DeletedReportsEnd
CHECK_DEADLOCK FALSE
