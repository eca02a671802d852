SPECIFICATION FairSpec
CONSTANTS
    Keys = {k1, k2}
    Workers = {w1, w2}
    MaxAttempts = 2
    MaxJobs = 2
INVARIANTS
    TypeOK
    IdempotentKeys
    SingleExecution
    RunningIsOwned
    AttemptsBounded
    OutcomeIsExplained
PROPERTIES
    OutcomeIsFinal
    CancelBeforeClaimWins
    ImplementsService
    EveryJobSettles
