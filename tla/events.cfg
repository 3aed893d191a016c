\* The stream of a stop or a restart, a second client, two launches, a line, a channel for two events.
CONSTANTS
    r1 = r1
    r2 = r2
    Request = {r1, r2}
    Asks <- TwoAsk
    Watched = {r1}
    Pipe = {stdout}
    Buffer = 2
    MaxLaunches = 2
    MaxLines = 1
SPECIFICATION FairSpec
INVARIANTS ExitAfterOutput StreamIsWhole
PROPERTY RequestsEnd
CHECK_DEADLOCK FALSE
