SPECIFICATION Spec
CONSTANTS
    Keys = {k1, k2}
    Workers = {w1}
    MaxAttempts = 2
    MaxJobs = 2
PROPERTIES
    KeysAreKept
