SPECIFICATION Spec
CONSTANTS
    Chan <- MCChan
    Kind <- MCKind
    Key <- MCKey
    Node <- MCNode
    Name <- MCName
    Edges <- MCEdges
    Joins <- MCJoins
    Outputs <- StrayOutputs
    Asks <- NoAsks
    Entry = {"d"}
    InterruptBefore = {}
    InterruptAfter = {"z"}
    Faults = {}
    Durabilities = {"Sync"}
    HasSaver = TRUE
    MaxSupersteps = 10
INVARIANTS
    TypeOK
    JoinNeverEarly
    JoinNeverStuck
    MergeTakesEveryWrite
    LogInStepOrder
    CheckpointIsState
    ChangeRaisesVersion
