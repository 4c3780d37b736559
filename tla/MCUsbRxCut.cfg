\* A ring too small for the host's pace.
CONSTANTS
    RawCap = 3
    HeaderLen = 2
    MaxFrame = 4
    MaxPacket = 2
    FrameCount = 3
    MaxCuts = 0
SPECIFICATION Spec
INVARIANTS DispatchGenuine
CHECK_DEADLOCK FALSE
