SPECIFICATION Spec
CONSTANTS
    r1 = r1
    r2 = r2
    w1 = w1
    w2 = w2
    s1 = s1
    Requests = {r1}
    Slots = {w1}
    Sweepers = {s1}
    MaxTier = 3
    MaxEvents = 6
    MaxPeriods = 1
    MaxFaults = 1
    Operations <- Everything
    UsesPortal = TRUE
    Subscribed = FALSE
    Serial = FALSE
    InOrder = TRUE
    Lossy = FALSE
    Outage = FALSE
    Doubt = FALSE
INVARIANTS TypeOK PastDueHasAClock TierAgreesWithStripe
CHECK_DEADLOCK FALSE
