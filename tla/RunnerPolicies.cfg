SPECIFICATION FairSpec
CONSTANTS
    MaxTasks = 4
    Missing = {4}
    FnNodes = {1}
    NodeRetry <- MCNodeRetry
    GraphRetry <- MCGraphRetry
    NodeTimeout <- MCNodeTimeout
    StepTimeout <- NoTimeout
    Limits <- MCLimits
    Ends <- MCEnds
    Asks <- MCAsks
    Answers = 1
CHECK_DEADLOCK FALSE
INVARIANTS
    RunnerTypeOK
    PermitsConserved
    AnswersInOrder
    BackoffBounded
PROPERTIES
    NoStartAfterReturn
    KeepsContract
    Returns
