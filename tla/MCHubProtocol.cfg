CONSTANTS
    c1 = c1
    Command = {c1}
    Last = 3
    Id = {1, 2}
    Retained = 2
    Page = 2
    MaxBuffer = 2
    MaxCompleted = 1
    MaxPending = 2
    ResumeFrom = {"acked"}
    MaxFaults = 1
SPECIFICATION FairSpec
INVARIANT ForwardedInOrder
INVARIANT NothingSkipped
INVARIANT DoneOnce
INVARIANT OutcomesAreKept
INVARIANT CallersAreServed
PROPERTY Settled
CHECK_DEADLOCK FALSE
