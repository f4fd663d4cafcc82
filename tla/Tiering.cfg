SPECIFICATION FairSpec
CONSTANTS
    q1 = q1
    q2 = q2
    a = a
    b = b
    c = c
    Reqs = {q1, q2}
    CpuSlots = {s1, s2}
    NumTiers = 1
    Prompt <- SharedPrompt
    None = None
    Junk = Junk
INVARIANTS TieredKVExact EveryPinHasAJob
PROPERTIES PromotionsEnd
