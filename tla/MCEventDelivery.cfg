SPECIFICATION Spec
CONSTANTS
    g1 = g1
    d1 = d1
    Agents = {g1}
    Digests = {d1}
    Standings = {"responsible", "removed"}
    MaxAttempts = 1
    LeaseTTL = 1
    RenewTTL = 1
    Delays = {1}
    Answers = {"received", "durable", "final", "retryable", "permanent", "authentication"}
    Faults = {"time_out", "die", "lose_wakeup"}
    MaxEvents = 1
    MaxSubscriptions = 1
    MaxDeliveries = 2
    MaxRecoveries = 1
    MaxEpoch = 3
INVARIANTS
    TypeOK
    NoBlindResend
PROPERTIES
    OnlyOperatorsRestart
    ImplementsNotification
