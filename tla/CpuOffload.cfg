SPECIFICATION Spec
CONSTANTS
    Keys = {k1, k2, k3, k4}
    Jobs = {j1, j2}
    NumBlocks = 2
    StoreThreshold = 2
    MaxTrackerSize = 2
    Scale = 1
    MaxRequest = 2
    None = None
SYMMETRY Symmetry
INVARIANTS OffloadTypeOK BlockAccounting RefCountExact TransfersKeepTheirSlots LoadsReadTheirKeys ListsConsistent FrequentAreReady
PROPERTY ImplementsCache
