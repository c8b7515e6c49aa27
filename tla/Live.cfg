SPECIFICATION FairSpec
CONSTANTS
    d1 = d1
    d2 = d2
    s1 = s1
    s2 = s2
    s3 = s3
    Devices = {d1, d2}
    Sockets = {s1, s2, s3}
    Listens <- MCListens
    MaxPackets = 3
INVARIANTS TypeOK Gapless DecodersLazy
PROPERTY Delivered
CHECK_DEADLOCK FALSE
