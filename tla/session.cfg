\* Four stdin frames, and a connection that holds two frames each way.
CONSTANTS
    Cap = 2
    MaxFrames = 4
SPECIFICATION FairSpec
INVARIANT EchoIsWhole
PROPERTY SessionEnds
CHECK_DEADLOCK FALSE
