SPECIFICATION FairSpec
CONSTANTS
    r1 = r1
    r2 = r2
    r3 = r3
    g1 = g1
    g2 = g2
    w1 = w1
    d1 = d1
    d2 = d2
    Requests = {r1, r2, r3}
    Conversations = {"c1"}
    Calls = {g1, d1}
    ToolOf <- MCToolOf
    ClientHistories <- MCClientHistories
    MaxIterations = 2
    MaxRetries = 2
    TightLimits = TRUE
    MaxCalls = 2
    MaxDecisions = 2
    Overlap = FALSE
    ChatOnPaused = FALSE
    Faults = {"llm", "db"}
PROPERTIES
    EveryRequestEnds
    EveryStepAdvances
    GrantsAreRecorded
