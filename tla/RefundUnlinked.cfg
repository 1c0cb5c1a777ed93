SPECIFICATION Spec
CONSTANTS
    None = None
    Refunds = {re1}
    Intents = {pi1, pi2}
    Amounts = {a1}
    Workers = {w1, w2}
    MaxEvents = 1
INVARIANTS LinkedOnceSettled
SYMMETRY Interchangeable
