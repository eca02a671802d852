SPECIFICATION Spec
CONSTANTS
    Threads = {t1, t2}
    Asked = {"plain"}
    Workers = {w1}
    MaxAttempts = 1
    MaxJobs = 2
    StepLimit = 8
    MaxTrace = 3
SYMMETRY Symmetry
ACTION_CONSTRAINT DeadThreadsAreResumed
INVARIANTS
    TypeOK
    ThreadsAreIsolated
    EvidenceIsReal
