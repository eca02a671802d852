SPECIFICATION Spec
CONSTANTS
    Batches = {b1, b2}
    Slots = {1}
    Operations = {o1}
    MaxConcurrency = 1
    PoolSize = 2
CHECK_DEADLOCK FALSE
INVARIANTS
    ConcurrencyIsLimited
