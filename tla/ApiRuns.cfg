SPECIFICATION FairSpec
CONSTANTS
    Runs = {r1, r2}
    Cancels = {c1, c2}
CHECK_DEADLOCK FALSE
INVARIANTS
    ShownIsExplained
PROPERTIES
    OutcomeIsFinal
    EarlyCancelWins
    EveryRunEnds
