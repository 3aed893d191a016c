\* A list that overlaps a DELETE.
CONSTANTS
    a = a
    b = b
    c1 = c1
    c2 = c2
    Name = {a}
    Client = {c1, c2}
    Ops = {"create", "destroy", "list"}
    MaxRequests = 3
    MaxFaults = 0
    MaxBoots = 0
SPECIFICATION Spec
INVARIANT DestroyedStaysGone
CHECK_DEADLOCK FALSE
