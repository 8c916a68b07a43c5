SPECIFICATION Spec
CONSTANTS
    Chan <- MCChan
    Kind <- MCKind
    Key <- MCKey
    Node <- MCNode
    Name <- MCName
    Edges <- MCEdges
    Joins <- MCJoins
    Outputs <- MCOutputs
    Asks <- NoAsks
    Entry = {"d"}
    InterruptBefore = {"c"}
    InterruptAfter = {}
    Faults = {"node", "reducer", "saver"}
    Durabilities = {"Sync", "Exit"}
    HasSaver = TRUE
    MaxSupersteps = 5
INVARIANTS
    ParentChain
    AnnouncedIsStored
    FinishedIsDurable
PROPERTIES
    RunnerAsPromised
