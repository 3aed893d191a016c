\* One or two sprites, a client that reads while others write.
CONSTANTS
    r1 = r1
    r2 = r2
    r3 = r3
    r4 = r4
    r5 = r5
    r6 = r6
    Path <- Paths
    Content = {"", "partial-corrupt", "text"}
    Blank = ""
    Output <- WorkOutput
    Corrupt = "partial-corrupt"
    Id = {s1, s2}
    Client = {c1, c2}
    Command <- Commands
    Policy <- Policies
    ServiceName = {"web"}
    TaskName = {"hold"}
    Expiry = {"soon"}
    Ref = {r1, r2, r3, r4, r5, r6}
    MaxCalls = 5
    MaxCheckpoints = 2
SPECIFICATION Spec
INVARIANT NoSharing
PROPERTIES CheckpointsFrozen Implements
CHECK_DEADLOCK FALSE
