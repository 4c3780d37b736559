\* A line coding set while bytes wait to be sent.
CONSTANTS
    RxCap = 1
    TxCap = 1
    Chunk = 1
    MaxFrame = 1
    MaxRx = 0
    MaxTx = 2
SPECIFICATION Spec
PROPERTIES TxDelivered
