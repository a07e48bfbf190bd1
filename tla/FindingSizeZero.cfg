SPECIFICATION CellSpec
CONSTANTS
    U32Max = 3
    U64Max = 7
    Missing = Missing
    Txs <- McTxs
    Indices = {0, 1, 2, 4, 5}
    Offsets = {0, 1, 2, 4, 7}
    Sizes = {0, 1, 2, 3, 7}
INVARIANTS
    BufferRespected
