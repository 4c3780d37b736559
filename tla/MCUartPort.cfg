\* Rings of one byte, chunks and frames of two: overflow, partial writes, short chunks and torn flushes occur.
CONSTANTS
    RxCap = 1
    TxCap = 1
    Chunk = 2
    MaxFrame = 2
    MaxRx = 3
    MaxTx = 2
SPECIFICATION Spec
INVARIANTS TypeOK ByteOrder ClosedQuiet TxArmed Accounted
PROPERTIES RxServed TxDrains
