SPECIFICATION Spec
CONSTANTS
    Threads = {t1}
    Asked = {"direct", "marked", "plain"}
    Workers = {w1}
    MaxAttempts = 1
    MaxJobs = 1
    StepLimit = 25
    MaxTrace = 4
PROPERTIES
    PendingJobsPause
