SPECIFICATION SSpec
CONSTANTS
    None = None
    Genesis = Genesis
    Gateway = gateway
    App = app
    Services = {gateway, app}
    Scripts = {script}
    t1 = t1
    t2 = t2
    Writers = {gateway, app, t1, t2}
    Acts = {a1, a2, a3}
    MaxEvents = 2
    MaxAttempts = 2
    MaxKills = 1
    nonces = nonces
    runs = runs
    key = key
    by_key = by_key
    goal = goal
    row_id = row_id
    PrimaryKeys = {row_id}
    TableOrder <- AnOrder
    ColumnsOf <- TheColumns
    IndexesOf <- TheIndexes
    OldFiles <- TheFiles
    HostOf <- Hosts
SYMMETRY Symmetry
CHECK_DEADLOCK FALSE
INVARIANTS
    STypeOK
    ChainIntact
    AllOrNothing
    AlterationLocated
    ServesFullSchema
    NobodyMigratesTwice
    ServedIsRecorded
PROPERTIES
    AppendOnly
