CONSTANTS
    Roots <- Functions
    MaxCalls = 1
    Parts = {"deploy"}
    None = None
    r1 = r1  r2 = r2  t1 = t1
    Requests = {r1, r2}
    TenantOf <- SmallTenants
    Kinds <- SmallKinds
    MaxRestarts = 1
SPECIFICATION ScriptSpec
CHECK_DEADLOCK FALSE
INVARIANT PublicIdsAreUnique
