SPECIFICATION Spec
CONSTANTS
    Base = 3
    Payloads <- MCPayloads
    MaxFrames = 3
    Kinds = {"legacy"}
    Pipelined = TRUE
INVARIANTS InOrder
CHECK_DEADLOCK FALSE
