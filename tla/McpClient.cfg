SPECIFICATION FairSpec
CONSTANTS
    MaxRequests = 3
    MaxFrames = 1
CHECK_DEADLOCK FALSE
INVARIANTS
    TypeOK
    AnswersMatch
    WaitersAreKnown
PROPERTIES
    CallsEnd
