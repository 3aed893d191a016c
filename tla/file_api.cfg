\* Three requests of any kind, a content of one chunk, one failure.
CONSTANTS
    q1 = q1
    q2 = q2
    q3 = q3
    Request = {q1, q2, q3}
    Ops <- ThreeOps
    Runtime = {"docker", "kube5", "kube4"}
    Old = old
    Absent = absent
    Size = 1
    MaxFaults = 1
SPECIFICATION FairSpec
INVARIANTS SuccessIsWhole NoLitter
PROPERTIES Implements RequestsAnswered
CHECK_DEADLOCK FALSE
