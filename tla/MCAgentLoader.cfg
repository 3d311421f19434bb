\* Four loads, each possibly failing anywhere.
SPECIFICATION Spec
CONSTANTS
    MaxLoads = 4
    NULL = NULL
INVARIANTS TypeOK SharedMaps UnloadUndoes
CHECK_DEADLOCK FALSE
