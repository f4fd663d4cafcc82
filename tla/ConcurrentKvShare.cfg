SPECIFICATION Spec
CONSTANTS
  Seqs = {q1, q2}
  Slots = {g1, g2, g3}
  CpuSlots = {c1, c2}
  BlockSize = 2
  MaxBlocks = 5
  TopK = 2
  Window = 2
  WriteThrough = FALSE
  KvShare = TRUE
  Ordering = "mixture"
  PrefetchTouch = FALSE
  MaxBatch = 2
  PromptsUpTo = 4
  Prompts <- MixedPrompts
  Chunked = FALSE
  Junk = Junk
  None = None
SYMMETRY Symmetry
CHECK_DEADLOCK FALSE
 
PROPERTIES PrefetchKeepsItsBlocks
