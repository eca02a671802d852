SPECIFICATION Spec
CONSTANTS
    Threads = {t1, t2}
    Asked = {"plain"}
    Workers = {w1}
    MaxAttempts = 1
    MaxJobs = 2
    StepLimit = 25
    MaxTrace = 0
SYMMETRY Symmetry
INVARIANTS
    NoSharedJob
