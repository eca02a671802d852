SPECIFICATION FairSpec
CONSTANTS
    MaxRequests = 2
    MaxFrames = 1
CHECK_DEADLOCK FALSE
PROPERTIES
    ReaderErrorsReleaseCallers
