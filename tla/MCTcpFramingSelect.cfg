SPECIFICATION Spec
CONSTANTS
    N = 3
    Size <- MCSize
    Prefix = 4
    HeaderSize <- HeaderBytes
    Lengths = {0, 10, 11, 13}
    Bodies = {1, 2}
    None = None
    Pack <- MCPack
INVARIANTS
    ReceivedInOrder
CHECK_DEADLOCK FALSE
