SPECIFICATION GraphSpec
CONSTANTS
    Chan <- MCChan
    Kind <- MCKind
    Key <- MCKey
    Node <- MCNode
    Name <- MCName
    Edges <- MCEdges
    Joins <- MCJoins
    Outputs <- MCOutputs
    Asks <- MoreAsks
    Entry = {}
    InterruptBefore = {"m"}
    InterruptAfter = {"m"}
    Faults = {"node"}
    Durabilities = {"Sync"}
    HasSaver = TRUE
    MaxSupersteps = 5
    EntryField = "d"
    StartEdge <- NoStart
    Inputs <- MCInputs
    Ops = {"invoke", "resume"}
    CheckpointIds = {"latest"}
    MayCrash = TRUE
    MaxCalls = 4
INVARIANTS
    InterruptIsRecorded
    InterruptOnce
    AnswersReachAsker
    CheckpointIsState
PROPERTIES
    ResumeContinues
