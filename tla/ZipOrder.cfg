SPECIFICATION Spec
CONSTANTS
    Chan <- MCChan
    Kind <- MCKind
    Key <- MCKey
    Node <- MCNode
    Name <- MCName
    Edges <- MCEdges
    Joins <- MCJoins
    Outputs <- MCOutputs
    Asks <- NoAsks
    Entry = {"d"}
    InterruptBefore = {}
    InterruptAfter = {}
    Faults = {}
    Durabilities = {"Sync"}
    HasSaver = TRUE
    MaxSupersteps = 6
INVARIANTS
    OutputBookedUnderItsNode
