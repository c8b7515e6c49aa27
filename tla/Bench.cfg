SPECIFICATION Spec
CONSTANTS
    MaxSessions = 2
    Packets = 3
    MaxBuilt = 6
    MaxStats = 1
    SeqSpace = 4
INVARIANTS TypeOK Replayed LossExact
CHECK_DEADLOCK FALSE
