CONSTANTS
    c1 = c1  c2 = c2  c3 = c3  c4 = c4  t1 = t1  t2 = t2  h1 = h1  h2 = h2  z1 = z1  z2 = z2
    None = None
    Calls = {c1, c2, c3}
    Absent = Absent
    Asks = {c1, c2, c3, c4}
    Tenants = {t1, t2}
    Hosts = {h1, h2}
    Zones = {z1, z2}
    Parent <- Parents
    Names = {"a", "b"}
    Operations <- AllOperations
    AskOperations <- EveryAsk
    Apart <- Alone
    MaxFaults = 1
    MaxMishaps = 1
SPECIFICATION AccessSpec
CHECK_DEADLOCK FALSE
INVARIANTS AccessTypeOK ClaimsFollowSites  SecretsHold
PROPERTIES DecisionsStand
