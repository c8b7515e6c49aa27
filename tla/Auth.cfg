SPECIFICATION AuthSpec
CONSTANTS
    Addr = {a1}
    MaxConcurrent = 2
    MaxPerMinute = 2
    Window = 1
    MaxTime = 3
    MaxRejected = 1
    Devices = {d1, d2}
    Inline = {d1}
    Listings = {{d2}, {d1, d2}}
    MaxEdits = 2
INVARIANTS AuthTypeOK SlidingWindow WindowIsSuffix Genuine KeysCurrent
PROPERTY ImplementsCap
CHECK_DEADLOCK FALSE
