SPECIFICATION SerialSpec
CONSTANTS
    RunOf <- MCRunOf
    None = None
    Proposals = {p1}
    Runs = {r1}
    Letters = {l1, l2}
    Operators = {o1, o2}
    Nonces = {n1, n2}
    Keys = {k1, k2, k3}
    Kinds = {"approve", "edit", "reject"}
    Sweepers = {s1}
    Workers = {w1, w2}
    MaxVisits = 2
    MaxReplays = 1
    MaxFaults = 1
SYMMETRY Symmetry
CHECK_DEADLOCK FALSE
INVARIANTS
    OneSendPerNonce
    SentIsOnRecord
    OneSendPerProposal
PROPERTIES
    TerminalIsFinal
    DecidedLetterFrozen
