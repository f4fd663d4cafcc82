SPECIFICATION FairSpec
CONSTANTS
    q1 = q1
    q2 = q2
    a = a
    b = b
    c = c
    d = d
    Reqs = {q1, q2}
    GpuBlocks = {g1, g2, g3}
    CpuBlocks = {c1, c2}
    Prompt <- SharedPrompt
    Budget = 1
    Ahead = 0
    MaxLoads = 1
    MaxStores = 2
    None = None
INVARIANTS RefsExact  CopiesKeepTheirBlocks KVExact
CHECK_DEADLOCK FALSE
PROPERTY LoadsEnd
