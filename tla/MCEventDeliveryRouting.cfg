SPECIFICATION Spec
CONSTANTS
    g1 = g1
    d1 = d1
    Agents = {g1}
    Digests = {d1}
    Standings = {"responsible"}
    MaxAttempts = 1
    LeaseTTL = 1
    RenewTTL = 1
    Delays = {1}
    Answers = {"durable"}
    Faults = {}
    MaxEvents = 2
    MaxSubscriptions = 2
    MaxDeliveries = 2
    MaxRecoveries = 0
    MaxEpoch = 1
INVARIANTS
    SecondRecipientAtRisk
    CursorCovers
