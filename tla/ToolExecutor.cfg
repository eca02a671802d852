SPECIFICATION FairSpec
CONSTANTS
    Batches = {b1, b2}
    Slots = {1, 2}
    Operations = {o1}
    MaxConcurrency = 1
    PoolSize = 2
CHECK_DEADLOCK FALSE
INVARIANTS
    TypeOK
    PermitsAreBalanced
    ResultsAreTrue
PROPERTIES
    NothingStartsLate
    BatchesReturn
