SPECIFICATION FairSpec
CONSTANTS
    Base = 3
    Payloads <- MCPayloads
    MaxFrames = 3
    Kinds = {"disabled", "auth", "denied", "legacy"}
    Pipelined = FALSE
INVARIANTS TypeOK InOrder NothingHeldBack Reassembled
PROPERTY Prompt
CHECK_DEADLOCK FALSE
