\* Either side may be the interrupt handler; Reset is called with that interrupt disabled.
CONSTANTS
    Size = 4
    Bytes = {b1, b2}
    NoByte = NoByte
    IsrSides = {"producer", "consumer"}
    ResetMasked = TRUE
SPECIFICATION Spec
INVARIANTS TypeOK RoomKept OldestKept
PROPERTIES FifoSpec
