SPECIFICATION SpecWithReset
CONSTANTS
    q1 = q1
    q2 = q2
    a = a
    q3 = q3
    b = b
    c = c
    Reqs = {q1, q2}
    GpuBlocks = {g1, g2}
    CpuSlots = {c1, c2}
    Workers = {w1}
    Prompt <- SharedPrompt
    Budget = 1
    Ahead = 0
    MaxJobs = 3
    None = None
INVARIANT NoRaise
CHECK_DEADLOCK FALSE
SYMMETRY Symmetry
