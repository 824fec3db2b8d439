SPECIFICATION Spec
CONSTANTS
    t1 = t1
    t2 = t2
    g1 = g1
    s1 = s1
    p1 = p1
    Tasks = {t1, t2}
    Agents = {g1}
    Sessions = {s1}
    Projects = {p1}
    ProjectOf <- OneProject
    Legacy = {t2}
    Capacities = {1, 2}
    StartTTL = 1
    LeaseTTL = 1
    ExecTTL = 2
    MaxAttempts = 1
    MaxGeneration = 2
    MaxEpoch = 2
INVARIANTS
    SessionKeepsUp
    LegacyReconciledFirst
