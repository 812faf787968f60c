SPECIFICATION Spec
CONSTANTS
    Runs = {r1, r2}
    Invoices = {i1}
    PoolSize = 1
    MaxTurns = 2
    MaxToolCalls = 2
    MaxProposals = 1
    MaxCalls = 2
    MaxFaults = 1
    MaxStops = 1
CHECK_DEADLOCK FALSE
INVARIANTS
    AlwaysEnds
