\* One slot per queue and frames of one or two chunks in two queues; one bus reset anywhere.
CONSTANTS
    Depth = 1
    MaxChunks = 2
    MaxFrames = 2
    MaxResets = 1
    Traffic = {"RSP", "DATA"}
SPECIFICATION Spec
INVARIANTS TypeOK HostStream FrameKept BusyArmed HintTruth
PROPERTIES FramesFlow HintFlow
