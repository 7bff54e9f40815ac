CONSTANTS
    Roots <- Functions
    MaxCalls = 3
    Parts = {"parser", "compiler", "deploy"}
    None = None
    r1 = r1  r2 = r2  t1 = t1
    Requests = {r1, r2}
    TenantOf <- SmallTenants
    Kinds <- SmallKinds
    MaxRestarts = 1
SPECIFICATION ScriptSpec
CHECK_DEADLOCK FALSE
INVARIANTS ScriptTypeOK WellBracketed OtherLoopsAdvance  
