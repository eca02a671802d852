SPECIFICATION FairSpec
CONSTANTS
    Threads = {t1}
    Asked = {"direct", "marked", "plain"}
    Workers = {w1}
    MaxAttempts = 1
    MaxJobs = 2
    StepLimit = 8
    MaxTrace = 3
INVARIANTS
    EveryJobIsTracked
    OnlyReviewedPlansRun
    StepBudget
    NoReportBeforeTheJob
PROPERTIES
    InvocationsEnd
    EvidenceIsDelivered
