SPECIFICATION FairSpec
CONSTANTS
    RunOf <- MCRunOf
    None = None
    Proposals = {p1}
    Runs = {r1}
    Letters = {l1}
    Operators = {o1}
    Nonces = {n1}
    Keys = {k1, k2}
    Kinds = {"approve", "reject"}
    Sweepers = {s1}
    Workers = {w1, w2}
    MaxVisits = 1
    MaxReplays = 1
    MaxFaults = 0
CHECK_DEADLOCK FALSE
PROPERTIES
    ClaimsFinish
    RequestsAnswered
    WaitingRunsHeal
