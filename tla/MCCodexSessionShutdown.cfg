CONSTANTS
    MaxGeneration = 2
    i1 = i1
    i2 = i2
    Requests = 1
    Mutation <- MCMutation
    Id = {i1}
    Prompts = 0
    MaxPending = 1
    MaxUncertain = 1
    MaxOutcomes = 1
    MaxAsks = 1
SPECIFICATION FairSpec
PROPERTY OwnedTreesEnd
PROPERTY CallsReturn
CHECK_DEADLOCK FALSE
