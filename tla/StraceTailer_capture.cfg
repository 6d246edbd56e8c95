SPECIFICATION Spec
CONSTANTS
    p = p
    events = events
    fd3 = fd3
    PidFiles = {p}
    Events = events
    Fd3 = fd3
    MaxTokens = 3
    MaxFd3 = 1
    MaxStall = 1
    settleQuietPasses = 2
    Interference = TRUE
CONSTRAINT Capture
INVARIANTS
    NoLostWakeup
    CaptureReadToEnd
    NoFalseTamper
PROPERTIES
    LinesOnceInOrder
    TailerReturns
