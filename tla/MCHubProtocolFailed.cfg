CONSTANTS
    c1 = c1
    Command = {c1}
    Last = 1
    Id = {1, 2}
    Retained = 1
    Page = 2
    MaxBuffer = 2
    MaxCompleted = 1
    MaxPending = 2
    ResumeFrom = {"acked", "seen"}
    MaxFaults = 1
SPECIFICATION Spec
INVARIANT UnknownsStayUncertain
CHECK_DEADLOCK FALSE
