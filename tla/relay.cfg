\* Every runtime; as many chunks as the places to the server hold, and one more.
CONSTANTS
    Runtime = {"docker", "kube5", "kube4"}
    Cap = 1
    MaxRequest = 4
    MaxResponse = 1
SPECIFICATION FairSpec
INVARIANT NothingIsLost
PROPERTIES ExchangeEnds CloseReturns CloseFrees
CHECK_DEADLOCK FALSE
