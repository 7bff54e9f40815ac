CONSTANTS
    i1 = i1  i2 = i2  s1 = s1  s2 = s2  hook = hook
    Items = {i1, i2}
    Sweeps = {s1, s2}
    Hook = hook
    Batch = 1
    None = None
    MaxAsks = 2
    MaxFaults = 1
SPECIFICATION SmallSpec
CHECK_DEADLOCK FALSE
INVARIANTS TypeOK CompletedIsTrue OneGenerationPerRequest NothingIsAbandoned
PROPERTIES PendingIsTaken
