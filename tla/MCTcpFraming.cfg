SPECIFICATION FairSpec
CONSTANTS
    N = 3
    Size <- MCSize
    Prefix = 4
    HeaderSize <- HeaderBytes
    Lengths = {0, 10, 11, 13}
    Bodies = {1, 2}
    None = None
    Pack <- MCPack
INVARIANTS
    IInv
    InOrderUnlessTorn
PROPERTIES
    WrittenIsReceived
    GoneClientEnds
CHECK_DEADLOCK FALSE
