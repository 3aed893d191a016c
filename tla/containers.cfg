\* Two sprites, two clients, every request, a failure and a restart of spritzer.
CONSTANTS
    a = a
    b = b
    c1 = c1
    c2 = c2
    Name = {a, b}
    Client = {c1, c2}
    Ops = {"create", "destroy", "list", "policy", "proxy"}
    MaxRequests = 3
    MaxFaults = 1
    MaxBoots = 1
SPECIFICATION FairSpec
INVARIANTS FilledFirst Agree
PROPERTIES DestroyedIsGone CreateWorks RequestsReturn
CHECK_DEADLOCK FALSE
