SPECIFICATION FairSpec
CONSTANTS
    c1 = c1
    c2 = c2
    c3 = c3
    d1 = d1
    d2 = d2
    a1 = a1
    Conns = {c1, c2, c3}
    Devices = {d1, d2}
    Unknown = Unknown
    Registered = {d1, d2}
    Addr = {a1}
    Owner <- MCOwner
    Source <- MCSource
    Claims <- MCOneLies
    Modes = {"disabled", "optional", "required"}
    Overlap = {d1}
    MaxConcurrent = 2
    MaxPerMinute = 2
    QueueMax = 1
INVARIANTS TypeOK IdentityProved SlotsExact PresenceTracked NoGhosts OnlineExact
PROPERTY Drains
CHECK_DEADLOCK FALSE
