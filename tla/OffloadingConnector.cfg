SPECIFICATION FairSpec
CONSTANTS
    q1 = q1
    q2 = q2
    a = a
    q3 = q3
    b = b
    c = c
    Reqs = {q1, q2}
    GpuBlocks = {g1, g2}
    CpuSlots = {c1, c2}
    Workers = {w1, w2}
    Prompt <- SharedPrompt
    Budget = 2
    Ahead = 0
    MaxJobs = 4
    None = None
INVARIANTS StoredKVExact GpuKVExact SourcesKept NoRaise SettledWhenIdle
PROPERTIES DeferralEnds
CHECK_DEADLOCK FALSE
