\* Three frames of two or three bytes, commands or data, one response slot, one bus reset, one UART byte.
CONSTANTS
    RawCap = 4
    HeaderLen = 2
    MaxFrame = 3
    MaxPacket = 2
    FrameCount = 3
    MaxCuts = 1
    Depth = 1
    Opcodes = {"CMD", "OPEN", "DATA"}
    MaxUart = 1
SPECIFICATION MuxSpec
INVARIANTS MuxTypeOK WholeInOrder Resync OneFate WindowSafe OpenFirst
PROPERTIES ServerSpec CommandsEnd
