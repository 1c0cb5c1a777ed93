SPECIFICATION Spec
CONSTANTS
    None = None
    Refunds = {re1}
    Intents = {pi1, pi2}
    Amounts = {a1, a2}
    Workers = {w1, w2}
    MaxEvents = 2
INVARIANTS StatusIsMerge BookedOnItsCharge
PROPERTIES BookingIsFinal
SYMMETRY Interchangeable
