SPECIFICATION FairSpec
CONSTANTS
    s1 = s1
    s2 = s2
    p1 = p1
    p2 = p2
    p3 = p3
    m1 = m1
    m2 = m2
    None = None
    Sessions <- MCSessions
    Prompts = {p1, p2}
    SessionOf <- MCSessionOf
    Models = {m1, m2}
    DefaultModel = m1
    MaxAttempts = 2
    MaxGates = 1
    MaxCancels = 1
    MaxRestarts = 1
PROPERTIES
    TextDelivered
    EveryPromptAnswered
CHECK_DEADLOCK FALSE
