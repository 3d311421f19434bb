\* Up to five messages, cut and merged in every way: stale and uninitialized
\* bytes are read.
SPECIFICATION Spec
CONSTANTS
    Byte = {0, 1, 2}
    OFFLOAD_ENTRIES = 2
    Message <- McMessage
    RecvSize = 8
    Handles = 5
    TableSize = 2
    MaxSent = 5
    NULL = NULL
CONSTRAINT McBound
INVARIANTS TypeOK HandlesSuffice
PROPERTIES ImplementsSwitchController AllHandled
\* The Frontend may have nothing more to send.
CHECK_DEADLOCK FALSE
