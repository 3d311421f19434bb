\* One client endpoint that connects again after a RST.
SPECIFICATION Spec
CONSTANTS
    Key = {k1}
    SeqSpace = 4
    max_entries = 1
    MaxSent = 2
    NULL = NULL
INVARIANTS SpliceAfterRst
CHECK_DEADLOCK FALSE
