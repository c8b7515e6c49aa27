SPECIFICATION Spec
CONSTANTS
    LaceMax = 2
    MaxSegments = 3
    FrameSamples = 2
    HeadLen = 1
    TagsLen = 0
    MaxLen = 6
    MaxPackets = 5
INVARIANTS TypeOK RoundTrip GranuleExact WellFormed RaisesOnlyOversized
CHECK_DEADLOCK FALSE
