CONSTANTS
    c1 = c1
    c2 = c2
    c3 = c3
    Client = {c1, c2}
    Agents = 2
    Projects = 2
    ProjectOf <- MCProjectOf
    Subscriber <- MCSubscriber
    Ids = 2
    Requests <- MCRequests
    Capacity = 1
    MaxEpoch = 3
SPECIFICATION Spec
SYMMETRY ClientSymmetry
INVARIANT NoWaitCycle
INVARIANT CapacityKept
INVARIANT ExactlyOnce
PROPERTY AnswersAreCurrent
PROPERTY OwnersAreLocked
CHECK_DEADLOCK FALSE
