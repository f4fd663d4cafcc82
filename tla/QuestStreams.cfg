SPECIFICATION Spec
CONSTANTS
    Full = 4
    Cap = 3
    CpuSlots = 3
    TopK = 2
    None = None
INVARIANT AsyncMatchesSync
