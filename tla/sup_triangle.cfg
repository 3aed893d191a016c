\* c needs a and b, b needs a; then the agent restarts.
CONSTANTS
    a = a
    b = b
    c = c
    c1 = c1
    c2 = c2
    Name = {a, b, c}
    Client = {c1}
    Incarnation = {1}
    PutDefs <- TriangleDefs
    Ops = {"put"}
    Fragile = {}
    MaxFileFaults = 0
    MaxRequests = 3
    MaxCrashes = 0
    MaxReboots = 1
SPECIFICATION Spec
PROPERTY BootStartsAll
CHECK_DEADLOCK FALSE
