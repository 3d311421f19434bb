\* Two client endpoints competing for one entry in each map.
SPECIFICATION Spec
CONSTANTS
    Key = {k1, k2}
    SeqSpace = 4
    max_entries = 1
    MaxSent = 1
    NULL = NULL
INVARIANTS TypeOK SpliceExact
CHECK_DEADLOCK FALSE
