SPECIFICATION Spec
CONSTANTS
    a = a
    b = b
    c = c
    x = x
    Invoices = {a, b, c}
    OnClock = {b}
    Amount <- MCAmount
    Due <- MCDue
    Created <- MCCreated
    Snapshot <- MCSnapshot
    Addresses = {x}
    OnFile <- MCOnFile
    NoEmail = NoEmail
    None = None
    Issues = {1, 2}
    PageSize = 1
    Floor = 2
    Attempts = 2
    MaxProposals = 1
    Thresholds = {None, 1}
    Limits = {1, 2}
    Minima = {None, 1000}
    Letters <- MCLetters
    FirstDay = 2
    LastDay = 3
    MaxChanges = 1
INVARIANTS
    TypeOK
    FloorUnlessLookedUp
    
    AddressOnRecord
    QueuedLettersAreReviewed
PROPERTY
    CallsEnd
