SPECIFICATION Spec
CONSTANTS
    Name <- MCName
    Parts <- MCParts
    EntryCalls <- MCEntryCalls
    EdgeCalls <- MCEdgeCalls
    RouterCalls <- MCRouterCalls
    Chains <- MCChains
    JoinCalls <- MCJoinCalls
    MaxJoins = 2
    MaxSupersteps = 4
INVARIANTS
    OnlyEndUnreachable
    NotFoundIsUnchecked
    ProperJoinWaits
