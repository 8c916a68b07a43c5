SPECIFICATION GraphSpec
CONSTANTS
    Chan <- MCChan
    Kind <- MCKind
    Key <- MCKey
    Node <- MCNode
    Name <- MCName
    Edges <- LineEdges
    Joins <- NoJoins
    Outputs <- MCOutputs
    Asks <- NoAsks
    Entry = {}
    InterruptBefore = {"m"}
    InterruptAfter = {}
    Faults = {"saver", "reducer"}
    Durabilities = {"Sync"}
    HasSaver = TRUE
    MaxSupersteps = 5
    EntryField = "__start__"
    StartEdge <- MCStart
    Inputs <- LogInputs
    Ops = {"invoke", "resume", "update"}
    CheckpointIds = {"latest", "stored", "unknown"}
    MayCrash = FALSE
    MaxCalls = 3
INVARIANTS
    GraphTypeOK
    HistoryIsTree
    HistoryGrows
