SPECIFICATION FairSpec
CONSTANTS
    Sub <- MCSub
    Steps <- MCSteps
    Ends <- MCEnds
    MaxAttempts = 2
    Emitters = {"q"}
INVARIANTS
    EventsConserved
    EndIsComplete
PROPERTIES
    StreamCloses
