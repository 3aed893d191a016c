\* One service, two clients, fairness: every request returns, a crash is restarted.
CONSTANTS
    a = a
    b = b
    c = c
    c1 = c1
    c2 = c2
    Name = {a}
    Client = {c1, c2}
    Incarnation = {1, 2, 3}
    PutDefs <- LoneDefs
    Ops = {"put", "start", "stop", "restart", "delete", "signal"}
    Fragile = {a}
    MaxFileFaults = 1
    MaxRequests = 3
    MaxCrashes = 1
    MaxReboots = 1
SPECIFICATION FairSpec

PROPERTIES RequestsReturn CrashIsRestarted
CHECK_DEADLOCK FALSE
