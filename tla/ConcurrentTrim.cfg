SPECIFICATION Spec
CONSTANTS
  Seqs = {q1, q2}
  Slots = {g1, g2}
  CpuSlots = {c1, c2, c3, c4}
  BlockSize = 3
  MaxBlocks = 3
  TopK = 1
  Window = 1
  WriteThrough = FALSE
  KvShare = FALSE
  Ordering = "lru"
  PrefetchTouch = FALSE
  MaxBatch = 2
  PromptsUpTo = 2
  Prompts <- LongPrompts
  Chunked = TRUE
  Junk = Junk
  None = None
SYMMETRY Symmetry
CHECK_DEADLOCK FALSE
INVARIANTS TypeOK ArenaAccounting UntrimmedHoldNothing NeededNewest
PROPERTIES NeededNeverEvicted
