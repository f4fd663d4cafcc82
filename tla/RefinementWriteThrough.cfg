SPECIFICATION FairSpec
CONSTANTS
  Seqs = {q1, q2}
  Slots = {g1, g2}
  CpuSlots = {c1, c2, c3}
  BlockSize = 2
  MaxBlocks = 3
  TopK = 1
  Window = 1
  WriteThrough = TRUE
  KvShare = FALSE
  Ordering = "lru"
  PrefetchTouch = FALSE
  MaxBatch = 1
  PromptsUpTo = 2
  Prompts <- AllPrompts
  Chunked = FALSE
  Junk = Junk
  None = None
CHECK_DEADLOCK FALSE
INVARIANTS PoolAccounting
PROPERTIES ImplementsAttention
