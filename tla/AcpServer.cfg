SPECIFICATION Spec
CONSTANTS
    s1 = s1
    s2 = s2
    p1 = p1
    p2 = p2
    p3 = p3
    m1 = m1
    m2 = m2
    None = None
    Sessions <- MCSessions
    Prompts <- MCPrompts
    SessionOf <- MCSessionOf
    Models = {m1}
    DefaultModel = m1
    MaxAttempts = 1
    MaxGates = 1
    MaxCancels = 1
    MaxRestarts = 1
INVARIANTS
    IInv
    OneTurnPerSession
    OneAbortPerCancel
PROPERTIES
    SettledByAnswer
    TurnsSpec
CHECK_DEADLOCK FALSE
