SPECIFICATION FairSpec
CONSTANTS
    g1 = g1
    d1 = d1
    Agents = {g1}
    Digests = {d1}
    Standings = {"responsible"}
    MaxAttempts = 3
    LeaseTTL = 2
    RenewTTL = 3
    Delays = {1}
    Answers = {"received", "durable", "retryable", "permanent"}
    Faults = {"time_out", "die", "lose_wakeup"}
    MaxEvents = 1
    MaxSubscriptions = 1
    MaxDeliveries = 2
    MaxRecoveries = 0
    MaxEpoch = 1
INVARIANTS
    NoBlindResend
PROPERTIES
    ReconciliationEnds
    DeliveryComesToRest
