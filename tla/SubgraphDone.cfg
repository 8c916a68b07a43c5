SPECIFICATION Spec
CONSTANTS
    Sub <- MCSub
    Steps <- MCSteps
    Ends <- MCEnds
    MaxAttempts = 2
    Emitters = {"q"}
INVARIANT InterruptSurfaces
