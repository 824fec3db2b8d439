SPECIFICATION FairSpec
CONSTANTS
    t1 = t1
    t2 = t2
    g1 = g1
    s1 = s1
    p1 = p1
    Tasks = {t1}
    Agents = {g1}
    Sessions = {s1}
    Projects = {p1}
    ProjectOf <- OneProject
    Legacy = {}
    Capacities = {2}
    StartTTL = 1
    LeaseTTL = 2
    ExecTTL = 3
    MaxAttempts = 2
    MaxGeneration = 2
    MaxEpoch = 4
INVARIANTS
    OneOutstanding
    HoldIffUnsettled
    ResolvedIsQuiescent
    ReviewRestsOnSuccess
    Fenced
    TaskMatchesAttempt
PROPERTIES
    EveryExecutionEnds
    HistoryIsKept
    LateEvidenceKeepsState
    ImplementsLease
