\* One client, one request at a time, with crashes and restarts of the agent.
CONSTANTS
    a = a
    b = b
    c = c
    c1 = c1
    c2 = c2
    Name = {a, b}
    Client = {c1}
    Incarnation = {1, 2}
    PutDefs <- PairDefs
    Ops = {"put", "start", "stop", "delete"}
    Fragile = {}
    MaxFileFaults = 1
    MaxRequests = 5
    MaxCrashes = 1
    MaxReboots = 1
SPECIFICATION Spec
INVARIANTS TypeOK OnePort NeedsSound DiskMatches NoOrphans
PROPERTY BootStartsTrees
SYMMETRY PairSymmetry
CHECK_DEADLOCK FALSE
