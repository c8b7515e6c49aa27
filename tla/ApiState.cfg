SPECIFICATION FairSpec
CONSTANTS
    Devices = {d1, d2}
    Loudness = {0, 1}
    MaxPackets = 3
    MaxStops = 1
    MaxTime = 2
    Depth = 1
    MaxEvents = 2
    MaxProduced = 3
    MaxGets = 1
    MaxRestarts = 1
CHECK_DEADLOCK FALSE
INVARIANTS TypeOK FramesShown TimelineTrue ViewCurrent
PROPERTY CatchesUp
