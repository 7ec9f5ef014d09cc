SPECIFICATION Spec
CONSTANTS
    r1 = r1
    r2 = r2
    r3 = r3
    g1 = g1
    g2 = g2
    w1 = w1
    d1 = d1
    d2 = d2
    Requests = {r1, r2, r3}
    Conversations = {"c1"}
    Calls = {g1, g2, w1, d1, d2}
    ToolOf <- MCToolOf
    ClientHistories <- MCOneHistory
    MaxIterations = 2
    MaxRetries = 1
    TightLimits = TRUE
    MaxCalls = 3
    MaxDecisions = 2
    Overlap = TRUE
    ChatOnPaused = TRUE
    Faults = {"llm", "db", "crash"}
SYMMETRY Symmetry
INVARIANTS
    TypeOK
    RunsAreGranted
    StoredHistoriesWellFormed
    PauseIsDecidable
    Inv
