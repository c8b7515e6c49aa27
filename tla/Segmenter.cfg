SPECIFICATION Spec
CONSTANTS
    Devices = {d1, d2}
    PerSecond = 2
    SegmentSeconds = 1
    ReadRate = 1
    MaxKills = 1
    UploadsFail = TRUE
    MaxLog = 3
    MaxTime = 4
SYMMETRY Symmetry
INVARIANTS TypeOK Contents NothingLost NothingTwice QuietLands
CHECK_DEADLOCK FALSE
