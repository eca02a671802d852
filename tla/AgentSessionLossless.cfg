SPECIFICATION Spec
CONSTANTS
    None = None
    MaxTokens = 6
    MaxItems = 6
    ReorderAbove = 4
    Chunks = {a, b, c}
    Boosted = {c}
    SearchK = 2
    TopK = 2
    Skills = {s, t}
    Namespaces = {"home", "other"}
    Home = "home"
    Facts = {k}
    Lengths = {1, 3}
    MaxSteps = 2
    MaxToolRetries = 1
    MaxCalls = 2
    CoreTokens = 2
    MaxRuns = 2
    MaxGranted = 2
    MaxWrites = 2
CHECK_DEADLOCK FALSE
INVARIANTS
    EpisodesAreLossless
