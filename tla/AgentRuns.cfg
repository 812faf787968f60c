SPECIFICATION FairSpec
CONSTANTS
    Runs = {r1, r2}
    Invoices = {i1}
    PoolSize = 2
    MaxTurns = 2
    MaxToolCalls = 2
    MaxProposals = 1
    MaxCalls = 2
    MaxFaults = 2
    MaxStops = 2
CHECK_DEADLOCK FALSE
INVARIANTS
    TypeOK
    WithinLimits
    ResultsFollowCalls
    StatusMatchesQueue
    Owned
PROPERTIES
    EndIsFinal
    RunsEnd
