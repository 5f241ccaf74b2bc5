\* One session opened by the application and one opened by a peer.
SPECIFICATION FairSpec
CONSTANTS
    Active = {a}
    Passive = {p}
    read_on_connect_ = {a}
    buffer_send_size_ = 1
    kMaxPending = 2
    kMinPending = 1
    MessageSizes = {2}
    MaxSends = 2
    MaxToggles = 2
    NULL = NULL
INVARIANTS
    SessionsAccounted
    OneWriter
    ReadNeverStalls
PROPERTIES
    CloseCompletes
    SenderUnblocked
CHECK_DEADLOCK FALSE
