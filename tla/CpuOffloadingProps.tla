------------------------- MODULE CpuOffloadingProps -------------------------
(***************************************************************************)
(* What CPUOffloadingManager promises.                                     *)
(***************************************************************************)
EXTENDS CpuOffloadingManager

IsList(list) == Range(list) \subseteq Keys /\ IsInjective(list)

\* Every variable holds a value of its kind; no slot id is beyond the pool; the
\* adaptive target and the ghost lists stay within the capacity.
OffloadTypeOK ==
    /\ policy \in {"lru", "arc"}
    /\ \A list \in {t1, t2, b1, b2, tracked} : IsList(list)
    /\ Len(b1) <= NumBlocks /\ Len(b2) <= NumBlocks /\ target \in 0 .. Scale * NumBlocks
    /\ refCnt \in [Keys -> {None, -1} \cup (0 .. Cardinality(Jobs))]
    /\ blockId \in [Keys -> {None} \cup Ids]
    /\ freeList \subseteq Ids /\ numAllocated \in 0 .. NumBlocks
    /\ count \in [Keys -> 0 .. Most(1, StoreThreshold)] /\ Len(tracked) <= MaxTrackerSize
    /\ jobOp \in [Jobs -> {"idle", "load", "store"}]
    /\ jobIds \in [Jobs -> [Keys -> {None} \cup Ids]]
    /\ data \in [Ids -> {None} \cup Keys]

\* The block pool: every slot handed out so far belongs to one cached key or is on
\* the free list, never to both or to neither, through evictions, failed stores
\* and resets.
BlockAccounting ==
    /\ \A k \in Keys : blockId[k] = None <=> refCnt[k] = None
    /\ \A j, k \in Cached : blockId[j] = blockId[k] => j = k
    /\ freeList = (0 .. numAllocated - 1) \ {blockId[k] : k \in Cached}
    /\ {blockId[k] : k \in Cached} \subseteq 0 .. numAllocated - 1

Using(k, op) == {j \in Jobs : jobOp[j] = op /\ jobIds[j][k] # None}

\* BlockStatus: ref_cnt is "the current number of transfers using this block as a
\* source", and -1 exactly while one store is writing the block.  So no assertion of
\* complete_load fails and no block stays unready with no job to finish it.
RefCountExact ==
    /\ \A k \in Cached :
          /\ refCnt[k] = -1 <=> Using(k, "store") # {}
          /\ Cardinality(Using(k, "store")) <= 1
          /\ Cardinality(Using(k, "load")) = IF refCnt[k] = -1 THEN 0 ELSE refCnt[k]
    /\ \A k \in Keys \ Cached : Using(k, "store") \cup Using(k, "load") = {}

\* "The given blocks will be protected from eviction until complete_load is called"
\* and likewise for complete_store: a job's key keeps the slot the job was given.
TransfersKeepTheirSlots ==
    \A j \in Jobs, k \in Keys : jobIds[j][k] # None => blockId[k] = jobIds[j][k]

\* A load copies, from start to end, a slot that holds the KV of its key.
LoadsReadTheirKeys ==
    \A j \in Jobs, k \in Keys :
        jobOp[j] = "load" /\ jobIds[j][k] # None => data[jobIds[j][k]] = k

\* A key is in one list of the policy only; T1 and T2 are exactly the cached keys,
\* so get() finds every block and a ghost is never a block.
ListsConsistent ==
    /\ Range(t1) \cup Range(t2) = Cached
    /\ Range(t1) \cap Range(t2) = {}
    /\ (Range(b1) \cup Range(b2)) \cap Cached = {}
    /\ Range(b1) \cap Range(b2) = {}

\* ARCCachePolicy.touch: a block "just prepared to be stored, not really touched
\* twice" is not frequent: T2 never holds a block that is still being written.
FrequentAreReady == \A k \in Range(t2) : Ready(k)

\* The manager implements the cache of the OffloadingManager interface: it evicts
\* only blocks that are stored and not read, and exactly as many as it must.
Cache == INSTANCE OffloadCache WITH
    Capacity <- NumBlocks,
    storing <- Cached \ {k \in Keys : Ready(k)},
    stored <- {k \in Keys : Ready(k)},
    readers <- [k \in Keys |-> IF Ready(k) THEN refCnt[k] ELSE 0]
ImplementsCache == Cache!Spec

\* CachePolicy.evict returns None only "if n evictions cannot be satisfied": a store
\* that enough evictable blocks could make room for is not refused.
StoreNotRefused ==
    \A keys \in Requests :
        LET wanted == Wanted(keys)
            n == NumToEvict(wanted \ Cached) IN
        Cardinality(Evictable(t1, wanted) \cup Evictable(t2, wanted)) >= n
            => Evictions(n, wanted) # {}
=============================================================================
