SPECIFICATION FairSpec
CONSTANTS
    r1 = r1
    r2 = r2
    w1 = w1
    w2 = w2
    s1 = s1
    Requests = {r1, r2}
    Slots = {w1}
    Sweepers = {s1}
    MaxTier = 3
    MaxEvents = 4
    MaxPeriods = 0
    MaxFaults = 1
    Operations <- Everything
    UsesPortal = FALSE
    Subscribed = TRUE
    Serial = FALSE
    InOrder = FALSE
    Lossy = TRUE
    Outage = TRUE
    Doubt = TRUE
CHECK_DEADLOCK FALSE
INVARIANT NeverAheadOfStripe
PROPERTIES SettledIntentsStay PendingIntentsSettle
