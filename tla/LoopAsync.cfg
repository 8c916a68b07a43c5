SPECIFICATION FairSpec
CONSTANTS
    Chan <- MCChan
    Kind <- MCKind
    Key <- MCKey
    Node <- MCNode
    Name <- MCName
    Edges <- MCEdges
    Joins <- MCJoins
    Outputs <- StrayOutputs
    Asks <- NoAsks
    Entry = {"d"}
    InterruptBefore = {}
    InterruptAfter = {}
    Faults = {}
    Durabilities = {"Async"}
    HasSaver = TRUE
    MaxSupersteps = 4
PROPERTIES
    Termination
    SavesLand
