\* FLUSH_TX: the task resets a transmit ring whose interrupt handler is live.
CONSTANTS
    Size = 4
    Bytes = {b1, b2}
    NoByte = NoByte
    IsrSides = {"consumer"}
    ResetMasked = FALSE
SPECIFICATION Spec
PROPERTIES PopsOldest
