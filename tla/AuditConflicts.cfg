SPECIFICATION Spec
CONSTANTS
    None = None
    Genesis = Genesis
    Writers = {w1, w2, w3}
    Acts = {a1, a2, a3, a4}
    MaxEvents = 2
    MaxAttempts = 2
SYMMETRY Symmetry
CHECK_DEADLOCK FALSE
INVARIANTS
    ConflictsRetried
