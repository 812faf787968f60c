SPECIFICATION Spec
CONSTANTS
    a = a
    b = b
    n = n
    None = None
    Customers = {a, b}
    Names = {n}
    Lists <- TwoLists
    Scenes <- TwoScenes
    Long = {"list"}
    Numbering = "turn"
    Tabs = {t}
    MaxTurns = 2
    MaxToolCalls = 3
    MaxCalls = 2
    MaxCuts = 1
CHECK_DEADLOCK FALSE
INVARIANTS
    TypeOK
    HistoryIsWhatTheAgentSaw
    EveryCallAnswered
    NothingLost
PROPERTIES
    NamesStayKnown
    PageEndsAsTheRecord
