CONSTANTS
    MaxGeneration = 2
    i1 = i1
    i2 = i2
    Requests = 2
    Mutation <- MCMutation
    Id = {i1, i2}
    Prompts = 2
    MaxPending = 2
    MaxUncertain = 2
    MaxOutcomes = 1
    MaxAsks = 2
SPECIFICATION Spec
SYMMETRY IdSymmetry
INVARIANT OneProcessTree
INVARIANT NoMutationForgotten
INVARIANT AnswersMatch
INVARIANT PromptAnsweredOnce
CHECK_DEADLOCK FALSE
