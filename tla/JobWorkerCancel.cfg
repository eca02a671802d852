SPECIFICATION CarefulSpec
CONSTANTS
    Keys = {k1}
    Workers = {w1}
    MaxAttempts = 2
    MaxJobs = 1
PROPERTIES
    CancelledIsFinal
