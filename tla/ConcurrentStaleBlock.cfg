SPECIFICATION Spec
CONSTANTS
  Seqs = {q1, q2}
  Slots = {g1, g2, g3}
  CpuSlots = {c1, c2, c3, c4}
  BlockSize = 2
  MaxBlocks = 4
  TopK = 2
  Window = 2
  WriteThrough = FALSE
  KvShare = FALSE
  Ordering = "lru"
  PrefetchTouch = FALSE
  MaxBatch = 2
  PromptsUpTo = 1
  Prompts <- LongPrompts
  Chunked = FALSE
  Junk = Junk
  None = None
SYMMETRY Symmetry
CHECK_DEADLOCK FALSE
INVARIANTS EveryBlockIntact
