\* Messages of a header only, and longer ones; at most 15 bytes.
SPECIFICATION Spec
CONSTANTS
    Lengths = {3, 5}
    MaxMessages = 3
    MaxReads = 6
    kHeaderLenSize = 3
    kMaxMessageSize = 6
    kMinBufferSize = 2
    sandesh_open_ = 2
    sandesh_close_ = 1
INVARIANTS
    BuffersAccounted
PROPERTIES
    TcpFraming
    SandeshFraming
CHECK_DEADLOCK FALSE
