SPECIFICATION Spec
CONSTANTS
    Devices = {d1}
    PerSecond = 2
    SegmentSeconds = 2
    ReadRate = 4
    MaxKills = 0
    UploadsFail = FALSE
    MaxLog = 8
    MaxTime = 3
INVARIANTS NothingLost
CHECK_DEADLOCK FALSE
