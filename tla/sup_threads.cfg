\* Two clients at once on two names, crashes, restart timers and StopAll.
CONSTANTS
    a = a
    b = b
    c = c
    c1 = c1
    c2 = c2
    Name = {a, b}
    Client = {c1, c2}
    Incarnation = {1, 2, 3}
    PutDefs <- LinkDefs
    Ops = {"put", "start", "stop", "restart", "delete", "signal"}
    Fragile = {a}
    MaxFileFaults = 0
    MaxRequests = 4
    MaxCrashes = 1
    MaxReboots = 0
SPECIFICATION Spec
INVARIANTS OneProcess UnwantedIsBeingStopped WantedIsServed StatusHonest
PROPERTIES NoUnaskedLaunch NeedsFirst
SYMMETRY ClientSymmetry
CHECK_DEADLOCK FALSE
