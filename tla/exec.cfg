\* A command that writes a chunk to each stream, a client with a frame of stdin, a failure.
CONSTANTS
    MaxChunks = 1
    MaxFrames = 1
    MaxFaults = 1
SPECIFICATION FairSpec
INVARIANTS OutputComplete ExitIsTheirs LeaverIsKilled StayerIsNotKilled
PROPERTY HandlerReturns
CHECK_DEADLOCK FALSE
