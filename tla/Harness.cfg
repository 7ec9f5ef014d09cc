SPECIFICATION HSpec
CONSTANTS
    r1 = r1
    r2 = r2
    r3 = r3
    g1 = g1
    w1 = w1
    d1 = d1
    d2 = d2
    Requests = {r1, r2, r3}
    Conversations = {"c1"}
    Calls = {g1, d1, d2}
    ToolOf <- MCToolOf
    ClientHistories <- MCClientHistories
    MaxIterations = 2
    MaxRetries = 2
    TightLimits = TRUE
    MaxCalls = 2
    MaxDecisions = 1
    Overlap = FALSE
    ChatOnPaused = TRUE
    Faults = {"llm", "db", "crash"}
    Configs <- MCConfigs
    MaxAnswerTokens = 2
    MaxElapsed = 1
SYMMETRY Symmetry
INVARIANTS
    HarnessTypeOK
    TokensOvershootByOneAnswer
    SendsAreBounded
    RepliesHeardTheModel
    AcceptedIffPaired
    StrictVendorsKeepPauses
    ShownIsPending
    RecordedRequests
    HInv
PROPERTIES
    StrictVendorsKeepProtocol
