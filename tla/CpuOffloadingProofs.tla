------------------------ MODULE CpuOffloadingProofs ------------------------
(***************************************************************************)
(* CPUOffloadingManager for every pool size, key set, number of jobs in    *)
(* flight and policy: slots and reference counts are exact, a transfer     *)
(* keeps its slots, and a load reads the KV of its keys.  Then that it     *)
(* implements the cache of the OffloadingManager interface, and last that  *)
(* the policy's lists hold each cached key once and stay within bounds.    *)
(***************************************************************************)
EXTENDS CpuOffloadingProps, FiniteSetTheorems, SequenceTheorems, TLAPS

Slots == {None} \cup Ids

\* The variables of the first two arguments; the policy's lists come last.
PoolTyped ==
    /\ refCnt \in [Keys -> {None, -1} \cup Nat]
    /\ blockId \in [Keys -> Slots]
    /\ freeList \subseteq Ids /\ numAllocated \in 0 .. NumBlocks
    /\ jobOp \in [Jobs -> {"idle", "load", "store"}]
    /\ jobIds \in [Jobs -> [Keys -> Slots]]
    /\ DOMAIN data = Ids

IdleHoldNothing == \A j \in Jobs : jobOp[j] = "idle" => \A k \in Keys : jobIds[j][k] = None

\* What is offered to loads is in its slot.
ReadyHoldTheirKV == \A k \in Keys : Ready(k) => data[blockId[k]] = k

\* The inductive invariant.  The slots alone are not inductive: that an evicted or failed
\* block is in nobody's hands is the exactness of the reference counts, and that a
\* completed job still finds its own blocks is that it has kept their slots.
PoolInv ==
    /\ PoolTyped /\ BlockAccounting /\ RefCountExact /\ TransfersKeepTheirSlots
    /\ IdleHoldNothing /\ ReadyHoldTheirKV

-----------------------------------------------------------------------------
\* None is neither a slot nor a reference count.
LEMMA NoneFacts == None \notin Nat /\ None # -1 /\ None \notin Ids /\ Ids \subseteq Nat
  BY NoneIsNoNumber, NumBlocksAssumption DEF Ids

\* Finitely many jobs use a key.
LEMMA UsingFinite ==
  ASSUME NEW k, NEW op
  PROVE  IsFiniteSet(Using(k, op)) /\ Cardinality(Using(k, op)) \in Nat
<1>1. Using(k, op) \subseteq Jobs
  BY DEF Using
<1> QED
  BY <1>1, JobsAssumption, FS_Subset, FS_CardinalityType

\* What the counts say of one key.
LEMMA Unused ==
  ASSUME PoolInv, NEW k \in Keys, k \notin Cached \/ refCnt[k] = 0
  PROVE  /\ Using(k, "store") = {} /\ Using(k, "load") = {}
         /\ \A j \in Jobs : jobIds[j][k] = None
<1>1. Using(k, "store") = {} /\ Using(k, "load") = {}
  <2>1. CASE k \notin Cached
    BY <2>1 DEF PoolInv, RefCountExact
  <2>2. CASE k \in Cached /\ refCnt[k] = 0
    <3>1. Using(k, "store") = {} /\ Cardinality(Using(k, "load")) = 0
      BY <2>2 DEF PoolInv, RefCountExact
    <3> QED
      BY <3>1, UsingFinite, FS_EmptySet
  <2> QED
    BY <2>1, <2>2
<1>2. ASSUME NEW j \in Jobs PROVE jobIds[j][k] = None
  <2>1. jobOp[j] \in {"idle", "load", "store"}
    BY DEF PoolInv, PoolTyped
  <2> QED
    BY <1>1, <2>1 DEF PoolInv, IdleHoldNothing, Using
<1> QED
  BY <1>1, <1>2

\* A job's keys are cached, in the slots it was given; a store's are being written by it
\* alone, a load's are ready.
LEMMA JobKeysCached ==
  ASSUME PoolInv, NEW j \in Jobs, NEW k \in JobKeys(j)
  PROVE  /\ k \in Keys /\ k \in Cached /\ blockId[k] = jobIds[j][k] /\ jobIds[j][k] \in Ids
         /\ jobOp[j] # "idle"
         /\ jobOp[j] = "store" => refCnt[k] = -1 /\ Using(k, "store") = {j}
         /\ jobOp[j] = "load" => refCnt[k] \in Nat \ {0} /\ j \in Using(k, "load")
<1>1. k \in Keys /\ jobIds[j][k] # None
  BY DEF JobKeys
<1>2. blockId[k] = jobIds[j][k] /\ jobIds[j][k] \in Ids
  BY <1>1 DEF PoolInv, TransfersKeepTheirSlots, PoolTyped, Slots
<1>3. k \in Cached
  BY <1>1, <1>2 DEF Cached
<1>4. jobOp[j] # "idle"
  BY <1>1 DEF PoolInv, IdleHoldNothing
<1>5. ASSUME jobOp[j] = "store" PROVE refCnt[k] = -1 /\ Using(k, "store") = {j}
  <2>1. j \in Using(k, "store")
    BY <1>1, <1>5 DEF Using
  <2>2. refCnt[k] = -1 /\ Cardinality(Using(k, "store")) <= 1
    BY <1>3, <2>1 DEF PoolInv, RefCountExact
  <2>3. IsFiniteSet({j}) /\ Cardinality({j}) = 1
    BY Zenon, FS_Singleton
  <2>4. {j} = Using(k, "store")
    <3>1. {j} \subseteq Using(k, "store")
      BY <2>1
    <3>2. Cardinality({j}) <= Cardinality(Using(k, "store"))
      BY <3>1, UsingFinite, FS_Subset
    <3>3. Cardinality(Using(k, "store")) = Cardinality({j})
      BY <2>2, <2>3, <3>2, UsingFinite
    <3> QED
      BY <3>1, <3>3, UsingFinite, FS_Subset
  <2> QED
    BY <2>2, <2>4
<1>6. ASSUME jobOp[j] = "load" PROVE refCnt[k] \in Nat \ {0} /\ j \in Using(k, "load")
  <2>1. j \in Using(k, "load")
    BY <1>1, <1>6 DEF Using
  <2>2. Cardinality(Using(k, "load")) \in Nat \ {0}
    BY <2>1, UsingFinite, FS_EmptySet
  <2>3. Cardinality(Using(k, "load")) = IF refCnt[k] = -1 THEN 0 ELSE refCnt[k]
    BY <1>3 DEF PoolInv, RefCountExact
  <2> QED
    BY <2>1, <2>2, <2>3
<1> QED
  BY <1>1, <1>2, <1>3, <1>4, <1>5, <1>6

-----------------------------------------------------------------------------
\* The invariant holds initially, and every step keeps it.
LEMMA InitPool == Init => PoolInv
<1> SUFFICES ASSUME Init PROVE PoolInv
  OBVIOUS
<1> USE NoneFacts
<1>1. PoolTyped
  BY NumBlocksAssumption DEF Init, PoolTyped, Slots
<1>2. Cached = {} /\ \A k \in Keys : ~Ready(k)
  BY DEF Init, Cached, Ready
<1>3. BlockAccounting
  BY <1>2 DEF Init, BlockAccounting
<1>4. \A k, op : op # "idle" => Using(k, op) = {}
  BY DEF Init, Using
<1>5. RefCountExact
  BY <1>2, <1>4 DEF RefCountExact
<1>6. TransfersKeepTheirSlots /\ IdleHoldNothing /\ ReadyHoldTheirKV
  BY <1>2 DEF Init, TransfersKeepTheirSlots, IdleHoldNothing, ReadyHoldTheirKV
<1> QED
  BY <1>1, <1>3, <1>5, <1>6 DEF PoolInv

\* reset_cache leaves no block and no job.
LEMMA ResetPool == ResetCache => PoolInv'
<1> SUFFICES ASSUME ResetCache PROVE PoolInv'
  OBVIOUS
<1> USE NoneFacts
<1>1. PoolTyped'
  BY NumBlocksAssumption DEF ResetCache, PoolTyped, Slots
<1>2. Cached' = {} /\ \A k \in Keys : ~Ready(k)'
  BY DEF ResetCache, Cached, Ready
<1>3. BlockAccounting'
  BY <1>2 DEF ResetCache, BlockAccounting
<1>4. \A k, op : op # "idle" => Using(k, op)' = {}
  BY DEF ResetCache, Using
<1>5. RefCountExact'
  BY <1>2, <1>4 DEF RefCountExact
<1>6. (TransfersKeepTheirSlots /\ IdleHoldNothing /\ ReadyHoldTheirKV)'
  BY <1>2 DEF ResetCache, TransfersKeepTheirSlots, IdleHoldNothing, ReadyHoldTheirKV
<1> QED
  BY <1>1, <1>3, <1>5, <1>6 DEF PoolInv

\* lookup and touch leave the pool and the jobs alone.
LEMMA SamePool ==
  ASSUME PoolInv, UNCHANGED <<pool, jobs, data>>
  PROVE  PoolInv'
<1>1. /\ refCnt' = refCnt /\ blockId' = blockId /\ freeList' = freeList
      /\ numAllocated' = numAllocated /\ jobOp' = jobOp /\ jobIds' = jobIds /\ data' = data
  BY DEF pool, jobs
<1>2. PoolTyped' = PoolTyped
  BY <1>1 DEF PoolTyped
<1>3. BlockAccounting' = BlockAccounting
  BY <1>1 DEF BlockAccounting, Cached
<1>4. RefCountExact' = RefCountExact
  BY <1>1 DEF RefCountExact, Cached, Using
<1>5. /\ TransfersKeepTheirSlots' = TransfersKeepTheirSlots
      /\ IdleHoldNothing' = IdleHoldNothing /\ ReadyHoldTheirKV' = ReadyHoldTheirKV
  BY <1>1 DEF TransfersKeepTheirSlots, IdleHoldNothing, ReadyHoldTheirKV, Ready
<1> QED
  BY <1>2, <1>3, <1>4, <1>5 DEF PoolInv

-----------------------------------------------------------------------------
\* prepare_load: each key gets one more reader, the job that now holds its slot.
LEMMA PrepareLoadPool ==
  ASSUME PoolInv, NEW j \in Jobs, NEW K \in SUBSET Keys, PrepareLoad(j, K)
  PROVE  PoolInv'
<1> USE NoneFacts
<1>1. /\ jobOp[j] = "idle" /\ \A k \in K : Ready(k)
      /\ refCnt' = [k \in Keys |-> IF k \in K THEN refCnt[k] + 1 ELSE refCnt[k]]
      /\ jobOp' = [jobOp EXCEPT ![j] = "load"]
      /\ jobIds' = [jobIds EXCEPT ![j] = [k \in Keys |-> IF k \in K THEN blockId[k] ELSE None]]
      /\ blockId' = blockId /\ freeList' = freeList /\ numAllocated' = numAllocated
      /\ data' = data
  BY DEF PrepareLoad
<1>2. \A k \in K : refCnt[k] \in Nat /\ k \in Cached
  BY <1>1 DEF PoolInv, PoolTyped, Ready, BlockAccounting, Cached
<1>3. \A k \in Keys : jobIds[j][k] = None
  BY <1>1 DEF PoolInv, IdleHoldNothing
<1>4. PoolTyped'
  BY <1>1, <1>2 DEF PoolInv, PoolTyped, Slots
<1>5. Cached' = Cached
  BY <1>1 DEF Cached
<1>6. BlockAccounting'
  BY <1>1, <1>2, <1>5 DEF PoolInv, BlockAccounting, Cached
<1>7. ASSUME NEW k \in Keys
      PROVE  /\ Using(k, "store")' = Using(k, "store")
             /\ Using(k, "load")' = Using(k, "load") \cup (IF k \in K THEN {j} ELSE {})
             /\ j \notin Using(k, "load")
  BY <1>1, <1>2, <1>3 DEF PoolInv, PoolTyped, Using, Cached
<1>8. RefCountExact'
  <2>1. ASSUME NEW k \in Cached
        PROVE  /\ refCnt'[k] = -1 <=> Using(k, "store")' # {}
               /\ Cardinality(Using(k, "store")') <= 1
               /\ Cardinality(Using(k, "load")') = IF refCnt'[k] = -1 THEN 0 ELSE refCnt'[k]
    <3>1. k \in Keys
      BY DEF Cached
    <3>2. /\ refCnt[k] = -1 <=> Using(k, "store") # {}
          /\ Cardinality(Using(k, "store")) <= 1
          /\ Cardinality(Using(k, "load")) = IF refCnt[k] = -1 THEN 0 ELSE refCnt[k]
      BY DEF PoolInv, RefCountExact
    <3>3. CASE k \in K
      <4>1. Cardinality(Using(k, "load") \cup {j}) = Cardinality(Using(k, "load")) + 1
        BY Zenon, <1>7, <3>1, UsingFinite, FS_AddElement
      <4>2. refCnt'[k] = refCnt[k] + 1 /\ refCnt[k] \in Nat
        BY <1>1, <1>2, <3>1, <3>3
      <4>3. Using(k, "store")' = Using(k, "store") /\ Using(k, "load")' = Using(k, "load") \cup {j}
        BY <1>7, <3>1, <3>3
      <4> QED
        BY <3>2, <4>1, <4>2, <4>3
    <3>4. CASE k \notin K
      BY Zenon, <1>1, <1>7, <3>1, <3>2, <3>4
    <3> QED
      BY <3>3, <3>4
  <2>2. ASSUME NEW k \in Keys \ Cached
        PROVE  Using(k, "store")' \cup Using(k, "load")' = {}
    BY <1>2, <1>7 DEF PoolInv, RefCountExact
  <2> QED
    BY <1>5, <2>1, <2>2 DEF RefCountExact
<1>9. TransfersKeepTheirSlots'
  BY <1>1 DEF PoolInv, TransfersKeepTheirSlots, PoolTyped
<1>10. IdleHoldNothing'
  BY <1>1 DEF PoolInv, IdleHoldNothing, PoolTyped
<1>11. ReadyHoldTheirKV'
  <2>1. \A k \in Keys : Ready(k)' => Ready(k)
    BY <1>1 DEF Ready
  <2> QED
    BY <1>1, <2>1 DEF PoolInv, ReadyHoldTheirKV
<1> QED
  BY <1>4, <1>6, <1>8, <1>9, <1>10, <1>11 DEF PoolInv

\* complete_load: the assertion that ref_cnt is positive holds, and the job is gone.
LEMMA CompleteLoadPool ==
  ASSUME PoolInv, NEW j \in Jobs, CompleteLoad(j)
  PROVE  PoolInv'
<1> USE NoneFacts
<1> DEFINE K == JobKeys(j)
<1>1. /\ jobOp[j] = "load"
      /\ refCnt' = [k \in Keys |-> IF k \in K THEN refCnt[k] - 1 ELSE refCnt[k]]
      /\ jobOp' = [jobOp EXCEPT ![j] = "idle"]
      /\ jobIds' = [jobIds EXCEPT ![j] = [k \in Keys |-> None]]
      /\ blockId' = blockId /\ freeList' = freeList /\ numAllocated' = numAllocated
      /\ data' = data
  BY DEF CompleteLoad, EndJob
<1>2. K \subseteq Keys /\ \A k \in K : refCnt[k] \in Nat \ {0} /\ k \in Cached
  BY <1>1, JobKeysCached DEF JobKeys
<1> HIDE DEF K
<1>3. \A k \in Keys : refCnt'[k] \in {None, -1} \cup Nat
  <2> SUFFICES ASSUME NEW k \in Keys PROVE refCnt'[k] \in {None, -1} \cup Nat
    OBVIOUS
  <2>1. CASE k \in K
    BY <1>1, <1>2, <2>1
  <2>2. CASE k \notin K
    BY <1>1, <2>2 DEF PoolInv, PoolTyped
  <2> QED
    BY <2>1, <2>2
<1>4. PoolTyped'
  BY <1>1, <1>3 DEF PoolInv, PoolTyped, Slots
<1>5. Cached' = Cached
  BY <1>1 DEF Cached
<1>6. BlockAccounting'
  BY <1>1, <1>2, <1>5 DEF PoolInv, BlockAccounting, Cached
<1>7. ASSUME NEW k \in Keys
      PROVE  /\ Using(k, "store")' = Using(k, "store")
             /\ Using(k, "load")' = Using(k, "load") \ {j}
             /\ j \in Using(k, "load") <=> k \in K
  <2>1. \A i \in Jobs : i # j => jobOp'[i] = jobOp[i] /\ jobIds'[i] = jobIds[i]
    BY <1>1 DEF PoolInv, PoolTyped
  <2>2. jobOp'[j] = "idle"
    BY <1>1 DEF PoolInv, PoolTyped
  <2>3. j \in Using(k, "load") <=> k \in K
    BY <1>1 DEF Using, JobKeys, K
  <2> QED
    BY <1>1, <2>1, <2>2, <2>3 DEF Using
<1>8. RefCountExact'
  <2>1. ASSUME NEW k \in Cached
        PROVE  /\ refCnt'[k] = -1 <=> Using(k, "store")' # {}
               /\ Cardinality(Using(k, "store")') <= 1
               /\ Cardinality(Using(k, "load")') = IF refCnt'[k] = -1 THEN 0 ELSE refCnt'[k]
    <3>1. k \in Keys
      BY DEF Cached
    <3>2. /\ refCnt[k] = -1 <=> Using(k, "store") # {}
          /\ Cardinality(Using(k, "store")) <= 1
          /\ Cardinality(Using(k, "load")) = IF refCnt[k] = -1 THEN 0 ELSE refCnt[k]
      BY DEF PoolInv, RefCountExact
    <3>3. Cardinality(Using(k, "load") \ {j}) =
              IF k \in K THEN Cardinality(Using(k, "load")) - 1 ELSE Cardinality(Using(k, "load"))
      BY Zenon, <1>7, <3>1, UsingFinite, FS_RemoveElement
    <3>4. refCnt'[k] = IF k \in K THEN refCnt[k] - 1 ELSE refCnt[k]
      BY <1>1, <3>1
    <3>5. k \in K => refCnt[k] \in Nat \ {0}
      BY <1>2
    <3>6. Using(k, "store")' = Using(k, "store") /\ Using(k, "load")' = Using(k, "load") \ {j}
      BY <1>7, <3>1
    <3>7. CASE k \in K
      <4>1. refCnt'[k] = refCnt[k] - 1 /\ refCnt[k] # -1 /\ refCnt'[k] # -1
        BY <3>4, <3>5, <3>7
      <4>2. Cardinality(Using(k, "load") \ {j}) = refCnt[k] - 1
        BY <3>2, <3>3, <3>7, <4>1
      <4> QED
        BY Zenon, <3>2, <3>6, <4>1, <4>2
    <3>8. CASE k \notin K
      BY <3>2, <3>3, <3>4, <3>6, <3>8
    <3> QED
      BY <3>7, <3>8
  <2>2. ASSUME NEW k \in Keys \ Cached
        PROVE  Using(k, "store")' \cup Using(k, "load")' = {}
    BY <1>7 DEF PoolInv, RefCountExact
  <2> QED
    BY <1>5, <2>1, <2>2 DEF RefCountExact
<1>9. TransfersKeepTheirSlots'
  BY <1>1 DEF PoolInv, TransfersKeepTheirSlots, PoolTyped
<1>10. IdleHoldNothing'
  BY <1>1 DEF PoolInv, IdleHoldNothing, PoolTyped
<1>11. ReadyHoldTheirKV'
  <2>1. \A k \in Keys : Ready(k)' => Ready(k)
    BY <1>1, <1>2 DEF Ready
  <2> QED
    BY <1>1, <2>1 DEF PoolInv, ReadyHoldTheirKV
<1> QED
  BY <1>4, <1>6, <1>8, <1>9, <1>10, <1>11 DEF PoolInv

-----------------------------------------------------------------------------
\* A store job ends: what both outcomes of complete_store rest on.  All keys of the job are
\* found unready, and no other job has one of them.
LEMMA StoreEnds ==
  ASSUME PoolInv, NEW j \in Jobs, jobOp[j] = "store", EndJob(j)
  PROVE  /\ Unfinished(j) = JobKeys(j) /\ JobKeys(j) \subseteq Cached
         /\ \A i \in Jobs : i # j => jobOp'[i] = jobOp[i] /\ jobIds'[i] = jobIds[i]
         /\ jobOp'[j] = "idle" /\ \A k \in Keys : jobIds'[j][k] = None
         /\ \A k \in JobKeys(j) : /\ \A i \in Jobs : jobIds'[i][k] = None
                                  /\ Using(k, "store")' = {} /\ Using(k, "load")' = {}
         /\ \A k \in Keys \ JobKeys(j) : \A op \in {"load", "store"} :
                Using(k, op)' = Using(k, op)
         /\ jobOp' \in [Jobs -> {"idle", "load", "store"}]
         /\ jobIds' \in [Jobs -> [Keys -> Slots]]
         /\ IdleHoldNothing'
<1>1. Unfinished(j) = JobKeys(j) /\ JobKeys(j) \subseteq Cached
  BY JobKeysCached DEF Unfinished
<1>2. \A i \in Jobs : i # j => jobOp'[i] = jobOp[i] /\ jobIds'[i] = jobIds[i]
  BY DEF PoolInv, PoolTyped, EndJob
<1>3. jobOp'[j] = "idle" /\ \A k \in Keys : jobIds'[j][k] = None
  BY DEF PoolInv, PoolTyped, EndJob
<1>4. ASSUME NEW k \in JobKeys(j), NEW i \in Jobs
      PROVE  jobIds'[i][k] = None
  <2>1. k \in Keys /\ refCnt[k] = -1 /\ Using(k, "store") = {j}
    BY JobKeysCached
  <2>2. CASE i = j
    BY <1>3, <2>1, <2>2
  <2>3. CASE i # j
    <3> SUFFICES ASSUME jobIds[i][k] # None PROVE FALSE
      BY <1>2, <2>3
    <3>1. k \in JobKeys(i)
      BY <2>1 DEF JobKeys
    <3>2. jobOp[i] \in {"load", "store"}
      BY <3>1, JobKeysCached DEF PoolInv, PoolTyped
    <3>3. jobOp[i] = "load" => refCnt[k] \in Nat
      BY <3>1, JobKeysCached
    <3>4. jobOp[i] = "store" => Using(k, "store") = {i}
      BY <3>1, JobKeysCached
    <3> QED
      BY <2>1, <2>3, <3>2, <3>3, <3>4
  <2> QED
    BY <2>2, <2>3
<1>5. \A k \in JobKeys(j) : Using(k, "store")' = {} /\ Using(k, "load")' = {}
  BY <1>4 DEF Using
<1>6. ASSUME NEW k \in Keys \ JobKeys(j), NEW op \in {"load", "store"}
      PROVE  Using(k, op)' = Using(k, op)
  <2>1. jobIds[j][k] = None
    BY DEF JobKeys
  <2> QED
    BY <1>2, <1>3, <2>1 DEF Using
<1>7. /\ jobOp' \in [Jobs -> {"idle", "load", "store"}]
      /\ jobIds' \in [Jobs -> [Keys -> Slots]]
  BY DEF PoolInv, PoolTyped, EndJob, Slots
<1>8. IdleHoldNothing'
  BY <1>2, <1>3 DEF PoolInv, IdleHoldNothing
<1> QED
  BY <1>1, <1>2, <1>3, <1>4, <1>5, <1>6, <1>7, <1>8

\* complete_store(success = True): the blocks of the job become readable.
LEMMA CompleteStorePool ==
  ASSUME PoolInv, NEW j \in Jobs, CompleteStore(j)
  PROVE  PoolInv'
<1> USE NoneFacts
<1> DEFINE K == JobKeys(j)
<1>1. /\ jobOp[j] = "store" /\ EndJob(j)
      /\ refCnt' = [k \in Keys |-> IF k \in Unfinished(j) THEN 0 ELSE refCnt[k]]
      /\ data' = [i \in Ids |-> IF \E k \in K : jobIds[j][k] = i
                                THEN CHOOSE k \in K : jobIds[j][k] = i ELSE data[i]]
      /\ blockId' = blockId /\ freeList' = freeList /\ numAllocated' = numAllocated
  BY DEF CompleteStore
<1>2. /\ Unfinished(j) = K /\ K \subseteq Cached
      /\ \A k \in K : Using(k, "store")' = {} /\ Using(k, "load")' = {}
      /\ \A k \in Keys \ K : \A op \in {"load", "store"} : Using(k, op)' = Using(k, op)
      /\ jobOp' \in [Jobs -> {"idle", "load", "store"}]
      /\ jobIds' \in [Jobs -> [Keys -> Slots]]
      /\ IdleHoldNothing'
  BY <1>1, StoreEnds
<1>3. \A i \in Jobs, k \in Keys : jobIds'[i][k] # None => jobIds'[i][k] = jobIds[i][k]
  BY <1>1, StoreEnds
<1>4. \A k \in K : k \in Keys /\ refCnt[k] = -1 /\ blockId[k] = jobIds[j][k] /\ blockId[k] \in Ids
  BY <1>1, JobKeysCached
<1> HIDE DEF K
<1>5. PoolTyped'
  BY <1>1, <1>2 DEF PoolInv, PoolTyped
<1>6. Cached' = Cached
  BY <1>1 DEF Cached
<1>7. BlockAccounting'
  BY <1>1, <1>2, <1>4, <1>6 DEF PoolInv, BlockAccounting, Cached
<1>8. RefCountExact'
  <2>1. ASSUME NEW k \in Cached
        PROVE  /\ refCnt'[k] = -1 <=> Using(k, "store")' # {}
               /\ Cardinality(Using(k, "store")') <= 1
               /\ Cardinality(Using(k, "load")') = IF refCnt'[k] = -1 THEN 0 ELSE refCnt'[k]
    <3>1. k \in Keys
      BY DEF Cached
    <3>2. CASE k \in K
      <4>1. refCnt'[k] = 0
        BY <1>1, <1>2, <3>1, <3>2
      <4>2. Using(k, "store")' = {} /\ Using(k, "load")' = {}
        BY <1>2, <3>2
      <4> QED
        BY <4>1, <4>2, FS_EmptySet
    <3>3. CASE k \notin K
      <4>1. refCnt'[k] = refCnt[k]
        BY <1>1, <1>2, <3>1, <3>3
      <4>2. Using(k, "store")' = Using(k, "store") /\ Using(k, "load")' = Using(k, "load")
        BY <1>2, <3>1, <3>3
      <4> QED
        BY <4>1, <4>2 DEF PoolInv, RefCountExact
    <3> QED
      BY <3>2, <3>3
  <2>2. ASSUME NEW k \in Keys \ Cached
        PROVE  Using(k, "store")' \cup Using(k, "load")' = {}
    BY <1>2 DEF PoolInv, RefCountExact
  <2> QED
    BY <1>6, <2>1, <2>2 DEF RefCountExact
<1>9. TransfersKeepTheirSlots'
  BY <1>1, <1>3 DEF PoolInv, TransfersKeepTheirSlots
<1>10. ReadyHoldTheirKV'
  <2> SUFFICES ASSUME NEW k \in Keys, Ready(k)' PROVE data'[blockId[k]] = k
    BY <1>1 DEF ReadyHoldTheirKV
  <2>1. k \in Cached /\ blockId[k] \in Ids
    BY <1>7, <1>6, <1>1 DEF Ready, BlockAccounting, Cached, PoolInv, PoolTyped, Slots
  <2>2. \A l \in K : jobIds[j][l] = blockId[k] => l = k
    BY Zenon, <1>2, <1>4, <2>1 DEF PoolInv, BlockAccounting
  <2>3. CASE k \in K
    BY Zenon, <1>1, <1>4, <2>1, <2>2, <2>3
  <2>4. CASE k \notin K
    <3>1. Ready(k)
      BY <1>1, <1>2, <2>4 DEF Ready
    <3>2. data'[blockId[k]] = data[blockId[k]]
      BY <1>1, <2>1, <2>2, <2>4
    <3> QED
      BY <3>1, <3>2 DEF PoolInv, ReadyHoldTheirKV
  <2> QED
    BY <2>3, <2>4
<1> QED
  BY <1>2, <1>5, <1>7, <1>8, <1>9, <1>10 DEF PoolInv

\* complete_store(success=False): exactly the job's slots go back to the free list.
LEMMA FailStorePool ==
  ASSUME PoolInv, NEW j \in Jobs, FailStore(j)
  PROVE  PoolInv'
<1> USE NoneFacts
<1> DEFINE K == JobKeys(j)
<1>1. /\ jobOp[j] = "store" /\ EndJob(j)
      /\ freeList' = freeList \cup {blockId[k] : k \in Unfinished(j)}
      /\ refCnt' = [k \in Keys |-> IF k \in Unfinished(j) THEN None ELSE refCnt[k]]
      /\ blockId' = [k \in Keys |-> IF k \in Unfinished(j) THEN None ELSE blockId[k]]
      /\ numAllocated' = numAllocated /\ data' = data
  BY DEF FailStore
<1>2. /\ Unfinished(j) = K /\ K \subseteq Cached
      /\ \A k \in K : Using(k, "store")' = {} /\ Using(k, "load")' = {}
      /\ \A k \in Keys \ K : \A op \in {"load", "store"} : Using(k, op)' = Using(k, op)
      /\ jobOp' \in [Jobs -> {"idle", "load", "store"}]
      /\ jobIds' \in [Jobs -> [Keys -> Slots]]
      /\ IdleHoldNothing'
  BY Zenon, <1>1, StoreEnds
<1>3. \A i \in Jobs, k \in Keys :
          jobIds'[i][k] # None => jobIds'[i][k] = jobIds[i][k] /\ k \notin K
  BY Zenon, <1>1, StoreEnds
<1>4. \A k \in K : k \in Keys /\ blockId[k] \in Ids
  BY Zenon, <1>1, JobKeysCached
<1> HIDE DEF K
<1>5. PoolTyped'
  <2>1. freeList' \subseteq Ids
    BY Zenon, <1>1, <1>2, <1>4 DEF PoolInv, PoolTyped
  <2>2. refCnt' \in [Keys -> {None, -1} \cup Nat] /\ blockId' \in [Keys -> Slots]
    BY Zenon, <1>1 DEF PoolInv, PoolTyped, Slots
  <2> QED
    BY <1>1, <1>2, <2>1, <2>2 DEF PoolInv, PoolTyped
<1>6. Cached' = Cached \ K
  BY <1>1, <1>2 DEF Cached
<1>7. BlockAccounting'
  <2>1. \A k \in Keys : blockId'[k] = None <=> refCnt'[k] = None
    BY <1>1 DEF PoolInv, BlockAccounting
  <2>2. \A k \in Cached \ K : k \in Keys /\ blockId'[k] = blockId[k]
    BY <1>1, <1>2 DEF Cached
  <2>3. \A k, l \in Cached' : blockId'[k] = blockId'[l] => k = l
    BY <1>6, <2>2 DEF PoolInv, BlockAccounting
  <2>4. {blockId'[k] : k \in Cached'} = {blockId[k] : k \in Cached \ K}
    BY Zenon, <1>6, <2>2
  <2>5. {blockId[k] : k \in Cached \ K} = {blockId[k] : k \in Cached} \ {blockId[k] : k \in K}
    BY <1>2 DEF PoolInv, BlockAccounting
  <2>6. {blockId[k] : k \in K} \subseteq 0 .. numAllocated - 1
    BY <1>2 DEF PoolInv, BlockAccounting
  <2>7. freeList' = (0 .. numAllocated - 1) \ {blockId'[k] : k \in Cached'}
    BY Zenon, <1>1, <1>2, <2>4, <2>5, <2>6 DEF PoolInv, BlockAccounting
  <2>8. {blockId'[k] : k \in Cached'} \subseteq 0 .. numAllocated - 1
    BY <2>4, <2>5 DEF PoolInv, BlockAccounting
  <2> QED
    BY Zenon, <1>1, <2>1, <2>3, <2>7, <2>8 DEF BlockAccounting
<1>8. RefCountExact'
  <2>1. ASSUME NEW k \in Cached \ K
        PROVE  /\ refCnt'[k] = -1 <=> Using(k, "store")' # {}
               /\ Cardinality(Using(k, "store")') <= 1
               /\ Cardinality(Using(k, "load")') = IF refCnt'[k] = -1 THEN 0 ELSE refCnt'[k]
    <3>1. k \in Keys
      BY DEF Cached
    <3> QED
      BY <1>1, <1>2, <3>1 DEF PoolInv, RefCountExact
  <2>2. ASSUME NEW k \in Keys \ (Cached \ K)
        PROVE  Using(k, "store")' \cup Using(k, "load")' = {}
    BY <1>2 DEF PoolInv, RefCountExact
  <2> QED
    BY Zenon, <1>6, <2>1, <2>2 DEF RefCountExact
<1>9. TransfersKeepTheirSlots'
  <2> SUFFICES ASSUME NEW i \in Jobs, NEW k \in Keys, jobIds'[i][k] # None
               PROVE  blockId'[k] = jobIds'[i][k]
    BY DEF TransfersKeepTheirSlots
  <2>1. jobIds'[i][k] = jobIds[i][k] /\ k \notin K
    BY Zenon, <1>3
  <2>2. blockId'[k] = blockId[k]
    BY Zenon, <1>1, <1>2, <2>1
  <2> QED
    BY <2>1, <2>2 DEF PoolInv, TransfersKeepTheirSlots
<1>10. ReadyHoldTheirKV'
  <2>1. \A k \in Keys : Ready(k)' => k \notin K /\ Ready(k)
    BY <1>1, <1>2 DEF Ready
  <2> QED
    BY Zenon, <1>1, <1>2, <2>1 DEF PoolInv, ReadyHoldTheirKV
<1> QED
  BY Zenon, <1>2, <1>5, <1>7, <1>8, <1>9, <1>10 DEF PoolInv

-----------------------------------------------------------------------------
\* What evict may return: blocks that no transfer uses.
LEMMA EvictedUnused ==
  ASSUME NEW n, NEW P, NEW ev \in Evictions(n, P)
  PROVE  \A k \in ev[1] \cup ev[2] : k \in Keys /\ refCnt[k] = 0
<1>1. PICK E1 \in Oldest(t1, Evictable(t1, P), FromT1(n, P)) :
          ev \in {<<E1, E2>> : E2 \in Oldest(t2, Evictable(t2, P) \ E1, n - FromT1(n, P))}
  BY DEF Evictions
<1>2. PICK E2 \in Oldest(t2, Evictable(t2, P) \ E1, n - FromT1(n, P)) : ev = <<E1, E2>>
  BY <1>1
<1>3. E1 \subseteq Evictable(t1, P) /\ E2 \subseteq Evictable(t2, P)
  BY <1>1, <1>2 DEF Oldest
<1> QED
  BY <1>2, <1>3 DEF Evictable

\* A prepare_store call has finitely many keys.
LEMMA RequestFinite ==
  ASSUME NEW keys \in Requests
  PROVE  IsFiniteSet(Range(keys)) /\ Range(keys) \subseteq Keys
<1>1. PICK n \in 1 .. MaxRequest : keys \in Injection(1 .. n, Keys)
  BY DEF Requests
<1>2. keys \in [1 .. n -> Keys] /\ n \in Int
  BY <1>1 DEF Injection
<1>3. keys \in Surjection(1 .. n, Range(keys))
  BY <1>2 DEF Surjection, Range
<1>4. IsFiniteSet(1 .. n)
  BY <1>2, FS_Interval
<1> QED
  BY <1>2, <1>3, <1>4, FS_Surjection DEF Range

\* _allocate_blocks takes every fresh slot it counts: as many slots are handed out as there
\* are keys, so those that do not come from the free list are all the fresh ones.
LEMMA AllocateExact ==
  ASSUME NEW S, IsFiniteSet(S), NEW free \in SUBSET (0 .. numAllocated - 1),
         numAllocated \in 0 .. NumBlocks, NEW slot, Allocate(S, free, slot)
  PROVE  /\ slot \in [S -> Range(slot)] /\ \A k, l \in S : slot[k] = slot[l] => k = l
         /\ Range(slot) \subseteq free \cup (numAllocated .. numAllocated' - 1)
         /\ numAllocated .. numAllocated' - 1 \subseteq Range(slot)
         /\ freeList' = free \ Range(slot)
         /\ numAllocated' \in numAllocated .. NumBlocks
<1> DEFINE fresh == NumFresh(Cardinality(S))
           F == numAllocated .. numAllocated + fresh - 1
           reused == Range(slot) \cap free
<1>1. /\ slot \in Injection(S, F \cup free) /\ Cardinality(reused) = Cardinality(S) - fresh
      /\ freeList' = free \ reused /\ numAllocated' = numAllocated + fresh
  BY DEF Allocate
<1>2. numAllocated \in Nat /\ NumBlocks \in Nat /\ numAllocated <= NumBlocks
  BY NumBlocksAssumption
<1>3. Cardinality(S) \in Nat
  BY FS_CardinalityType
<1>4. fresh \in Nat /\ numAllocated + fresh <= NumBlocks
  BY <1>2, <1>3 DEF NumFresh, Least
<1> HIDE DEF fresh
<1>5. slot \in [S -> F \cup free] /\ \A k, l \in S : slot[k] = slot[l] => k = l
  BY <1>1 DEF Injection, IsInjective
<1>6. Range(slot) \subseteq F \cup free /\ slot \in [S -> Range(slot)]
  BY <1>5 DEF Range
<1>7. IsFiniteSet(F) /\ Cardinality(F) = fresh
  <2>1. \A a, b \in Int : /\ IsFiniteSet(a .. b)
                          /\ Cardinality(a .. b) = IF a > b THEN 0 ELSE b - a + 1
    BY FS_Interval
  <2>2. /\ IsFiniteSet(F)
        /\ Cardinality(F) = IF numAllocated > numAllocated + fresh - 1 THEN 0
                            ELSE numAllocated + fresh - 1 - numAllocated + 1
    BY <1>2, <1>4, <2>1
  <2> QED
    BY <1>2, <1>4, <2>2
<1>8. IsFiniteSet(Range(slot)) /\ Cardinality(Range(slot)) = Cardinality(S)
  <2>1. slot \in Surjection(S, Range(slot))
    BY <1>6 DEF Surjection, Range
  <2>2. slot \in Injection(S, Range(slot))
    BY <1>5, <1>6 DEF Injection, IsInjective
  <2> QED
    BY <2>1, <2>2, FS_Surjection
<1>9. F \cap free = {}
  BY <1>2, <1>4
<1>10. Range(slot) \cap F = Range(slot) \ reused
  BY <1>6, <1>9
<1>11. Cardinality(Range(slot) \cap F) = fresh
  <2>1. Range(slot) \cap reused = reused
    OBVIOUS
  <2>2. Cardinality(Range(slot) \ reused) = Cardinality(Range(slot)) - Cardinality(reused)
    BY Zenon, <1>8, <2>1, FS_Difference
  <2> QED
    BY <1>1, <1>3, <1>4, <1>8, <1>10, <2>2
<1>12. F \subseteq Range(slot)
  <2>1. Range(slot) \cap F \in SUBSET F
    OBVIOUS
  <2>2. F = Range(slot) \cap F
    BY Zenon, <1>7, <1>11, <2>1, FS_Subset
  <2> QED
    BY <2>2
<1>13. numAllocated' \in numAllocated .. NumBlocks
  BY <1>1, <1>2, <1>4
<1>14. freeList' = free \ Range(slot)
  BY <1>1
<1>15. F = numAllocated .. numAllocated' - 1
  BY <1>1, <1>2, <1>4
<1> HIDE DEF F
<1> QED
  BY Zenon, <1>5, <1>6, <1>12, <1>13, <1>14, <1>15

\* The slots handed out before and in this call are the slots handed out after it.
LEMMA SplitInterval ==
  ASSUME NEW m \in Nat, NEW n \in Nat, m <= n
  PROVE  /\ 0 .. n - 1 = (0 .. m - 1) \cup (m .. n - 1)
         /\ (0 .. m - 1) \cap (m .. n - 1) = {}
  OBVIOUS

\* prepare_store: evicted slots go to the free list, the new keys get fresh or free slots,
\* and every other block keeps its own.
LEMMA PrepareStorePool ==
  ASSUME PoolInv, NEW j \in Jobs, NEW keys \in Requests, PrepareStore(j, keys)
  PROVE  PoolInv'
<1> USE NoneFacts
<1> DEFINE S == Wanted(keys) \ Cached
<1>1. PICK ev \in Evictions(NumToEvict(S), Wanted(keys)), slot \in [S -> Ids] :
          /\ Allocate(S, freeList \cup {blockId[k] : k \in ev[1] \cup ev[2]}, slot)
          /\ refCnt' = [k \in Keys |-> IF k \in S THEN -1
                                       ELSE IF k \in ev[1] \cup ev[2] THEN None ELSE refCnt[k]]
          /\ blockId' = [k \in Keys |-> IF k \in S THEN slot[k]
                                        ELSE IF k \in ev[1] \cup ev[2] THEN None ELSE blockId[k]]
          /\ jobOp' = [jobOp EXCEPT ![j] = "store"]
          /\ jobIds' = [jobIds EXCEPT ![j] = [k \in Keys |-> IF k \in S THEN slot[k] ELSE None]]
          /\ data' = [i \in Ids |-> IF i \in Range(slot) THEN None ELSE data[i]]
  BY Zenon DEF PrepareStore
<1> DEFINE E == ev[1] \cup ev[2]
           free == freeList \cup {blockId[k] : k \in E}
           B == {blockId[k] : k \in Cached \ E}
<1>2. jobOp[j] = "idle" /\ \A k \in Keys : jobIds[j][k] = None
  BY DEF PrepareStore, PoolInv, IdleHoldNothing
<1>3. S \subseteq Keys /\ S \cap Cached = {} /\ IsFiniteSet(S)
  <2>1. S \subseteq Range(keys)
    BY Zenon DEF Wanted
  <2> QED
    BY <2>1, RequestFinite, FS_Subset
<1>4. \A k \in E : k \in Keys /\ refCnt[k] = 0
  BY Zenon, <1>1, EvictedUnused
<1>5. E \subseteq Cached
  BY <1>4 DEF PoolInv, BlockAccounting, Cached
<1> HIDE DEF S, E
<1>6. /\ free = (0 .. numAllocated - 1) \ B /\ B \subseteq 0 .. numAllocated - 1
      /\ numAllocated \in 0 .. NumBlocks
  BY <1>5 DEF PoolInv, PoolTyped, BlockAccounting
<1>7. /\ \A k, l \in S : slot[k] = slot[l] => k = l
      /\ Range(slot) \subseteq free \cup (numAllocated .. numAllocated' - 1)
      /\ numAllocated .. numAllocated' - 1 \subseteq Range(slot)
      /\ freeList' = free \ Range(slot)
      /\ numAllocated' \in numAllocated .. NumBlocks
  <2>1. free \in SUBSET (0 .. numAllocated - 1)
    BY Zenon, <1>6
  <2>2. Allocate(S, free, slot)
    BY <1>1 DEF E
  <2> HIDE DEF free, B
  <2>3. numAllocated \in 0 .. NumBlocks /\ IsFiniteSet(S)
    BY Zenon, <1>3, <1>6
  <2> QED
    BY Zenon, <2>1, <2>2, <2>3, AllocateExact
<1>8. /\ refCnt' = [k \in Keys |-> IF k \in S THEN -1 ELSE IF k \in E THEN None ELSE refCnt[k]]
      /\ blockId' = [k \in Keys |-> IF k \in S THEN slot[k]
                                    ELSE IF k \in E THEN None ELSE blockId[k]]
  BY Zenon, <1>1 DEF E
<1>9. PoolTyped'
  <2>1. refCnt' \in [Keys -> {None, -1} \cup Nat]
    BY <1>8 DEF PoolInv, PoolTyped
  <2>2. blockId' \in [Keys -> Slots]
    BY Zenon, <1>8 DEF PoolInv, PoolTyped, Slots
  <2>3. freeList' \subseteq Ids
    BY <1>6, <1>7, NumBlocksAssumption DEF Ids
  <2>4. numAllocated' \in 0 .. NumBlocks
    BY <1>6, <1>7, NumBlocksAssumption
  <2>5. /\ jobOp' \in [Jobs -> {"idle", "load", "store"}]
        /\ jobIds' \in [Jobs -> [Keys -> Slots]]
    BY Zenon, <1>1 DEF PoolInv, PoolTyped, Slots
  <2> QED
    BY <1>1, <2>1, <2>2, <2>3, <2>4, <2>5 DEF PoolTyped
<1>10. Cached' = (Cached \ E) \cup S
  BY Zenon, <1>3, <1>8 DEF Cached
<1>11. /\ \A k \in S : k \in Keys /\ blockId'[k] = slot[k]
       /\ \A k \in Cached \ E : /\ k \in Keys /\ k \notin S
                                 /\ blockId'[k] = blockId[k] /\ blockId[k] \in B
  BY Zenon, <1>3, <1>8 DEF Cached
<1>12. Range(slot) \cap B = {}
  BY <1>6, <1>7
<1>13. {blockId'[k] : k \in Cached'} = B \cup Range(slot)
  <2>1. Range(slot) = {slot[k] : k \in S}
    BY <1>1 DEF Range
  <2> QED
    BY Zenon, <1>10, <1>11, <2>1
<1>14. BlockAccounting'
  <2>1. \A k \in Keys : blockId'[k] = None <=> refCnt'[k] = None
    BY <1>8 DEF PoolInv, BlockAccounting
  <2>2. ASSUME NEW k \in Cached', NEW l \in Cached', blockId'[k] = blockId'[l]
        PROVE  k = l
    <3>1. \A i \in S : slot[i] \in Range(slot)
      BY Zenon, <1>1 DEF Range
    <3>2. CASE k \in S /\ l \in S
      BY Zenon, <1>7, <1>11, <2>2, <3>2
    <3>3. CASE k \in Cached \ E /\ l \in Cached \ E
      BY Zenon, <1>11, <2>2, <3>3 DEF PoolInv, BlockAccounting
    <3>4. CASE k \in S /\ l \in Cached \ E
      BY Zenon, <1>11, <1>12, <2>2, <3>1, <3>4
    <3>5. CASE k \in Cached \ E /\ l \in S
      BY <1>11, <1>12, <2>2, <3>1, <3>5
    <3> QED
      BY Zenon, <1>10, <3>2, <3>3, <3>4, <3>5
  <2> DEFINE new == numAllocated .. numAllocated' - 1
             used == 0 .. numAllocated - 1
  <2>3. 0 .. numAllocated' - 1 = used \cup new /\ used \cap new = {}
    <3>1. numAllocated \in Nat /\ numAllocated' \in Nat /\ numAllocated <= numAllocated'
      BY <1>6, <1>7, NumBlocksAssumption
    <3> QED
      BY Zenon, <3>1, SplitInterval
  <2> HIDE DEF free, B, new, used
  <2>4. /\ free = used \ B /\ B \subseteq used /\ Range(slot) \subseteq free \cup new
        /\ new \subseteq Range(slot)
    BY Zenon, <1>6, <1>7 DEF new, used
  <2>5. /\ used \cup new = freeList' \cup B \cup Range(slot)
        /\ freeList' = (used \cup new) \ (B \cup Range(slot))
    BY Zenon, <1>7, <2>3, <2>4
  <2>6. freeList' = (0 .. numAllocated' - 1) \ {blockId'[k] : k \in Cached'}
    BY <1>13, <2>3, <2>5
  <2>7. {blockId'[k] : k \in Cached'} \subseteq 0 .. numAllocated' - 1
    BY Zenon, <1>13, <2>3, <2>5
  <2> QED
    BY Zenon, <2>1, <2>2, <2>6, <2>7 DEF BlockAccounting
<1>15. /\ \A i \in Jobs : i # j => jobOp'[i] = jobOp[i] /\ jobIds'[i] = jobIds[i]
       /\ jobOp'[j] = "store"
       /\ \A k \in Keys : jobIds'[j][k] = IF k \in S THEN slot[k] ELSE None
  BY Zenon, <1>1 DEF PoolInv, PoolTyped
<1>16. ASSUME NEW k \in S \cup E PROVE \A i \in Jobs : jobIds[i][k] = None
  BY Zenon, <1>3, <1>4, Unused
<1>17. \A k \in S : Using(k, "store")' = {j} /\ Using(k, "load")' = {}
  <2> SUFFICES ASSUME NEW k \in S
               PROVE  Using(k, "store")' = {j} /\ Using(k, "load")' = {}
    OBVIOUS
  <2>1. slot[k] # None /\ k \in Keys
    BY Zenon, <1>3
  <2>2. jobIds'[j][k] # None /\ \A i \in Jobs : i # j => jobIds'[i][k] = None
    BY Zenon, <1>15, <1>16, <2>1
  <2> QED
    BY <1>15, <2>2 DEF Using
<1>18. ASSUME NEW k \in Keys \ S PROVE \A op \in {"load", "store"} : Using(k, op)' = Using(k, op)
  BY <1>2, <1>15 DEF Using
<1>19. RefCountExact'
  <2>1. ASSUME NEW k \in Cached'
        PROVE  /\ refCnt'[k] = -1 <=> Using(k, "store")' # {}
               /\ Cardinality(Using(k, "store")') <= 1
               /\ Cardinality(Using(k, "load")') = IF refCnt'[k] = -1 THEN 0 ELSE refCnt'[k]
    <3>1. CASE k \in S
      <4>1. refCnt'[k] = -1
        BY <1>8, <1>11, <3>1
      <4>2. Cardinality({j}) = 1 /\ Cardinality({}) = 0
        BY Zenon, FS_Singleton, FS_EmptySet
      <4> QED
        BY <1>17, <3>1, <4>1, <4>2
    <3>2. CASE k \in Cached \ E
      <4>1. refCnt'[k] = refCnt[k]
        BY Zenon, <1>8, <1>11, <3>2
      <4>2. Using(k, "store")' = Using(k, "store") /\ Using(k, "load")' = Using(k, "load")
        BY Zenon, <1>11, <1>18, <3>2
      <4> QED
        BY Zenon, <3>2, <4>1, <4>2 DEF PoolInv, RefCountExact
    <3> QED
      BY <1>10, <3>1, <3>2
  <2>2. ASSUME NEW k \in Keys, k \notin Cached'
        PROVE  Using(k, "store")' \cup Using(k, "load")' = {}
    <3>1. k \notin Cached \/ refCnt[k] = 0
      BY <1>4, <1>10, <2>2
    <3>2. k \notin S
      BY <1>10, <2>2
    <3> QED
      BY Zenon, <1>18, <3>1, <3>2, Unused
  <2> QED
    BY <2>1, <2>2 DEF RefCountExact
<1>20. TransfersKeepTheirSlots'
  <2> SUFFICES ASSUME NEW i \in Jobs, NEW k \in Keys, jobIds'[i][k] # None
               PROVE  blockId'[k] = jobIds'[i][k]
    BY Zenon DEF TransfersKeepTheirSlots
  <2>1. CASE i = j
    BY Zenon, <1>11, <1>15, <2>1
  <2>2. CASE i # j
    <3>1. jobIds'[i][k] = jobIds[i][k] /\ k \notin S \cup E
      BY <1>15, <1>16, <2>2
    <3> QED
      BY Zenon, <1>8, <3>1 DEF PoolInv, TransfersKeepTheirSlots
  <2> QED
    BY Zenon, <2>1, <2>2
<1>21. IdleHoldNothing'
  BY <1>15 DEF PoolInv, IdleHoldNothing
<1>22. ReadyHoldTheirKV'
  <2> SUFFICES ASSUME NEW k \in Keys, Ready(k)' PROVE data'[blockId'[k]] = k
    BY DEF ReadyHoldTheirKV
  <2>0. refCnt'[k] # None /\ refCnt'[k] # -1
    BY DEF Ready
  <2>1. k \notin S /\ k \notin E /\ Ready(k)
    <3>1. k \notin S /\ k \notin E
      BY Zenon, <1>8, <2>0
    <3>2. refCnt'[k] = refCnt[k]
      BY Zenon, <1>8, <3>1
    <3> QED
      BY Zenon, <3>1, <3>2 DEF Ready
  <2>2. k \in Cached \ E /\ blockId[k] \in Ids
    BY Zenon, <2>1 DEF Ready, PoolInv, PoolTyped, Slots, BlockAccounting, Cached
  <2>3. blockId'[k] = blockId[k] /\ blockId[k] \notin Range(slot)
    BY Zenon, <1>11, <1>12, <2>2
  <2> QED
    BY Zenon, <1>1, <2>1, <2>2, <2>3 DEF PoolInv, ReadyHoldTheirKV
<1> QED
  BY Zenon, <1>9, <1>14, <1>19, <1>20, <1>21, <1>22 DEF PoolInv

-----------------------------------------------------------------------------
\* The invariant is inductive.
LEMMA NextPool == PoolInv /\ [Next]_vars => PoolInv'
<1> SUFFICES ASSUME PoolInv, [Next]_vars PROVE PoolInv'
  OBVIOUS
<1>1. ASSUME NEW k \in Keys, Lookup(k) PROVE PoolInv'
  BY <1>1, SamePool DEF Lookup
<1>2. ASSUME NEW k \in Keys, Touch(k) PROVE PoolInv'
  BY <1>2, SamePool DEF Touch
<1>3. CASE UNCHANGED vars
  BY <1>3, SamePool DEF vars
<1> QED
  BY <1>1, <1>2, <1>3, PrepareLoadPool, CompleteLoadPool, PrepareStorePool, CompleteStorePool,
     FailStorePool, ResetPool DEF Next

LEMMA PoolInvariant == Spec => []PoolInv
  BY InitPool, NextPool, PTL DEF Spec

\* For every pool, key set, store threshold, policy and number of jobs in flight: a CPU slot
\* belongs to one cached key or is free.
THEOREM SlotsCorrect == Spec => []BlockAccounting
<1>1. PoolInv => BlockAccounting
  BY DEF PoolInv
<1> QED
  BY <1>1, PoolInvariant, PTL

\* ref_cnt of a block counts the loads in flight that read it, and is -1 exactly while one
\* store writes it.
THEOREM RefCountsCorrect == Spec => []RefCountExact
<1>1. PoolInv => RefCountExact
  BY DEF PoolInv
<1> QED
  BY <1>1, PoolInvariant, PTL

\* "The given blocks will be protected from eviction": no eviction, failed store or reset
\* takes a slot from a transfer in flight.
THEOREM TransfersProtected == Spec => []TransfersKeepTheirSlots
<1>1. PoolInv => TransfersKeepTheirSlots
  BY DEF PoolInv
<1> QED
  BY <1>1, PoolInvariant, PTL

\* What prepare_load hands to a worker holds the KV of the keys asked for until
\* complete_load.
THEOREM LoadsCorrect == Spec => []LoadsReadTheirKeys
<1>1. PoolInv => LoadsReadTheirKeys
  <2> SUFFICES ASSUME PoolInv, NEW j \in Jobs, NEW k \in Keys, jobOp[j] = "load",
                      jobIds[j][k] # None
               PROVE  data[jobIds[j][k]] = k
    BY DEF LoadsReadTheirKeys
  <2>1. k \in JobKeys(j)
    BY DEF JobKeys
  <2>2. blockId[k] = jobIds[j][k] /\ refCnt[k] \in Nat
    BY <2>1, JobKeysCached
  <2>3. Ready(k)
    BY <2>2, NoneFacts DEF Ready
  <2> QED
    BY <2>2, <2>3 DEF PoolInv, ReadyHoldTheirKV
<1> QED
  BY <1>1, PoolInvariant, PTL
-----------------------------------------------------------------------------
(***************************************************************************)
(* CPUOffloadingManager implements the cache of the OffloadingManager      *)
(* interface, for every pool, key set, policy and number of jobs.          *)
(***************************************************************************)
\* The refinement mapping of CpuOffloadingProps.
ReadyKeys == {k \in Keys : Ready(k)}
Writing == Cached \ ReadyKeys
ReadersOf == [k \in Keys |-> IF Ready(k) THEN refCnt[k] ELSE 0]

\* What the mapping says of ref_cnt.
LEMMA Mapping ==
  ASSUME PoolInv
  PROVE  /\ \A k \in Keys : Ready(k) <=> refCnt[k] \in Nat
         /\ \A k \in Keys : k \in Writing <=> refCnt[k] = -1
         /\ ReadyKeys \subseteq Cached /\ Writing \cup ReadyKeys = Cached
<1> USE NoneFacts
<1>1. \A k \in Keys : refCnt[k] \in {None, -1} \cup Nat /\ (k \in Cached <=> refCnt[k] # None)
  BY DEF PoolInv, PoolTyped, BlockAccounting, Cached
<1>2. \A k \in Keys : Ready(k) <=> refCnt[k] \in Nat
  BY <1>1 DEF Ready
<1>3. \A k \in Keys : k \in Writing <=> refCnt[k] = -1
  BY <1>1, <1>2 DEF Writing, ReadyKeys
<1>4. ReadyKeys \subseteq Cached
  BY <1>1, <1>2 DEF ReadyKeys
<1> QED
  BY <1>2, <1>3, <1>4 DEF Writing

\* The cached keys are as many as the slots that are handed out and not free.
LEMMA CachedCount ==
  ASSUME PoolInv
  PROVE  /\ IsFiniteSet(Cached) /\ IsFiniteSet(freeList)
         /\ Cardinality(Cached) \in Nat /\ Cardinality(freeList) \in Nat
         /\ Cardinality(Cached) = numAllocated - Cardinality(freeList)
<1> DEFINE f == [k \in Cached |-> blockId[k]]
           B == {blockId[k] : k \in Cached}
           A == 0 .. numAllocated - 1
<1>1. numAllocated \in Nat
  BY NumBlocksAssumption DEF PoolInv, PoolTyped
<1>2. B \subseteq A /\ freeList = A \ B
  BY DEF PoolInv, BlockAccounting
<1>3. IsFiniteSet(A) /\ Cardinality(A) = numAllocated
  <2>1. \A a, b \in Int : /\ IsFiniteSet(a .. b)
                          /\ Cardinality(a .. b) = IF a > b THEN 0 ELSE b - a + 1
    BY FS_Interval
  <2> QED
    BY <1>1, <2>1
<1> HIDE DEF A
<1>4. f \in Injection(Cached, B) /\ f \in Surjection(Cached, B)
  BY DEF PoolInv, BlockAccounting, Injection, IsInjective, Surjection
<1> HIDE DEF B, f
<1>5. IsFiniteSet(B)
  BY <1>2, <1>3, FS_Subset
<1>6. IsFiniteSet(Cached) /\ Cardinality(Cached) = Cardinality(B)
  BY <1>4, <1>5, FS_Injection
<1>7. IsFiniteSet(freeList) /\ Cardinality(freeList) = Cardinality(A) - Cardinality(A \cap B)
  BY <1>2, <1>3, FS_Difference
<1>8. A \cap B = B
  BY <1>2
<1>9. Cardinality(B) \in Nat /\ Cardinality(freeList) \in Nat
  BY <1>5, <1>7, FS_CardinalityType
<1>10. Cardinality(freeList) = numAllocated - Cardinality(B)
  BY <1>3, <1>7, <1>8
<1>11. Cardinality(B) = numAllocated - Cardinality(freeList)
  BY <1>1, <1>9, <1>10
<1> QED
  BY <1>6, <1>7, <1>9, <1>11

\* evict returns as many blocks as it was asked for.
LEMMA EvictedCount ==
  ASSUME PoolInv, NEW n \in Nat, NEW P, NEW ev \in Evictions(n, P)
  PROVE  Cardinality(ev[1] \cup ev[2]) = n
<1> DEFINE m == FromT1(n, P)
<1>1. PICK E1 \in Oldest(t1, Evictable(t1, P), m) :
          ev \in {<<E1, E2>> : E2 \in Oldest(t2, Evictable(t2, P) \ E1, n - m)}
  BY Zenon DEF Evictions
<1>2. PICK E2 \in Oldest(t2, Evictable(t2, P) \ E1, n - m) : ev = <<E1, E2>>
  BY <1>1
<1>3. Cardinality(E1) = m /\ Cardinality(E2) = n - m /\ E1 \cap E2 = {}
  BY Zenon, <1>1, <1>2 DEF Oldest
<1>4. \A k \in ev[1] \cup ev[2] : k \in Cached
  BY NoneFacts, EvictedUnused DEF PoolInv, BlockAccounting, Cached
<1>5. IsFiniteSet(E1) /\ IsFiniteSet(E2)
  BY Zenon, <1>2, <1>4, CachedCount, FS_Subset
<1>6. Cardinality(E1 \cup E2) = Cardinality(E1) + Cardinality(E2) - Cardinality({})
  BY <1>3, <1>5, FS_Union
<1>7. Cardinality(E1) \in Nat
  BY Zenon, <1>5, FS_CardinalityType
<1> QED
  BY <1>2, <1>3, <1>6, <1>7, FS_EmptySet

-----------------------------------------------------------------------------
\* The steps of the cache in terms of the mapping: prepare_load.
LEMMA CacheRead ==
  ASSUME NEW S \in SUBSET ReadyKeys, Writing' = Writing, ReadyKeys' = ReadyKeys,
         ReadersOf' = [k \in Keys |-> IF k \in S THEN ReadersOf[k] + 1 ELSE ReadersOf[k]]
  PROVE  Cache!Next
<1>1. Cache!Read(S)
  BY Zenon DEF Cache!Read, ReadersOf
<1> QED
  BY <1>1 DEF Cache!Next, ReadyKeys, Writing

\* complete_load, in terms of the mapping.
LEMMA CacheDone ==
  ASSUME NEW S \in SUBSET {k \in ReadyKeys : ReadersOf[k] # 0},
         Writing' = Writing, ReadyKeys' = ReadyKeys,
         ReadersOf' = [k \in Keys |-> IF k \in S THEN ReadersOf[k] - 1 ELSE ReadersOf[k]]
  PROVE  Cache!Next
<1>1. Cache!Done(S)
  BY Zenon DEF Cache!Done, ReadersOf
<1>2. S \in SUBSET (ReadyKeys \ Cache!Unread)
  BY Zenon DEF Cache!Unread, ReadersOf, ReadyKeys
<1> QED
  BY Zenon, <1>1, <1>2 DEF Cache!Next, ReadyKeys, Writing

\* complete_store, in terms of the mapping.
LEMMA CacheFinish ==
  ASSUME NEW S \in SUBSET Writing, Writing' = Writing \ S, ReadersOf' = ReadersOf,
         ReadyKeys' \in {ReadyKeys, ReadyKeys \cup S}
  PROVE  Cache!Next
<1>1. Cache!Finish(S)
  BY DEF Cache!Finish, ReadyKeys, Writing
<1> QED
  BY <1>1 DEF Cache!Next, ReadyKeys, Writing, ReadersOf

\* Cardinality means the same inside the instance.
LEMMA SameCardinality == \A S : Cache!Cardinality(S) = Cardinality(S)
  BY Zenon DEF Cache!Cardinality, Cardinality, Cache!IsFiniteSet, IsFiniteSet

\* prepare_store, in terms of the mapping.
LEMMA CacheStore ==
  ASSUME NEW S \in SUBSET (Keys \ (Writing \cup ReadyKeys)),
         NEW E \in SUBSET {k \in ReadyKeys : ReadersOf[k] = 0},
         Cardinality(S \cup Writing \cup ReadyKeys) \in Int,
         Cardinality(E) = Most(0, Cardinality(S \cup Writing \cup ReadyKeys) - NumBlocks),
         Writing' = Writing \cup S, ReadyKeys' = ReadyKeys \ E, ReadersOf' = ReadersOf
  PROVE  Cache!Next
<1> DEFINE n == Cardinality(S \cup Writing \cup ReadyKeys) - NumBlocks
<1>1. n \in Int
  BY NumBlocksAssumption
<1>2. Cache!Excess(S) = Cache!Max({0, n})
  BY Zenon, SameCardinality DEF Cache!Excess, Writing, ReadyKeys
<1> HIDE DEF n
<1>3. Cache!Max({0, n}) = Most(0, n)
  <2>1. Most(0, n) \in {0, n} /\ \A y \in {0, n} : Most(0, n) >= y
    BY <1>1 DEF Most
  <2>2. \A x \in {0, n} : (\A y \in {0, n} : x >= y) => x = Most(0, n)
    BY <1>1 DEF Most
  <2> QED
    BY <2>1, <2>2 DEF Cache!Max
<1>4. Cardinality(E) = Cache!Excess(S)
  BY Zenon, <1>2, <1>3 DEF n
<1>5. E \in Cache!kSubset(Cache!Excess(S), Cache!Unread)
  BY <1>4, SameCardinality DEF Cache!kSubset, Cache!Unread, ReadersOf, ReadyKeys
<1>6. Cache!Store(S)
  BY <1>5 DEF Cache!Store, ReadyKeys, Writing
<1>7. S \in SUBSET Cache!Absent
  BY DEF Cache!Absent, ReadyKeys, Writing
<1> QED
  BY <1>6, <1>7 DEF Cache!Next, ReadersOf

-----------------------------------------------------------------------------
\* A load reads stored keys, and has read them when it completes.
LEMMA PrepareLoadReads ==
  ASSUME PoolInv, NEW j \in Jobs, NEW K \in SUBSET Keys, PrepareLoad(j, K)
  PROVE  Cache!Next
<1> USE NoneFacts
<1>1. /\ \A k \in K : Ready(k)
      /\ refCnt' = [k \in Keys |-> IF k \in K THEN refCnt[k] + 1 ELSE refCnt[k]]
      /\ blockId' = blockId
  BY DEF PrepareLoad
<1>3. Cached' = Cached
  BY <1>1 DEF Cached
<1>4. \A k \in Keys : /\ k \in K => refCnt[k] \in Nat /\ refCnt'[k] = refCnt[k] + 1
                      /\ k \notin K => refCnt'[k] = refCnt[k]
  BY Zenon, <1>1, Mapping
<1>6. \A k \in Keys : Ready(k)' <=> Ready(k)
  BY <1>4 DEF Ready
<1>7. ReadyKeys' = ReadyKeys /\ Writing' = Writing
  BY <1>3, <1>6 DEF ReadyKeys, Writing
<1>8. ReadersOf' = [k \in Keys |-> IF k \in K THEN ReadersOf[k] + 1 ELSE ReadersOf[k]]
  BY <1>1, <1>4, <1>6 DEF ReadersOf
<1>9. K \in SUBSET ReadyKeys
  BY <1>1 DEF ReadyKeys
<1> QED
  BY Zenon, <1>7, <1>8, <1>9, CacheRead

\* complete_load ends reads that prepare_load began.
LEMMA CompleteLoadReads ==
  ASSUME PoolInv, NEW j \in Jobs, CompleteLoad(j)
  PROVE  Cache!Next
<1> USE NoneFacts
<1> DEFINE K == JobKeys(j)
<1>1. /\ jobOp[j] = "load" /\ blockId' = blockId
      /\ refCnt' = [k \in Keys |-> IF k \in K THEN refCnt[k] - 1 ELSE refCnt[k]]
  BY DEF CompleteLoad
<1>2. \A k \in K : k \in Keys /\ refCnt[k] \in Nat \ {0}
  BY <1>1, JobKeysCached
<1> HIDE DEF K
<1>3. Cached' = Cached
  BY <1>1 DEF Cached
<1>4. \A k \in Keys : /\ k \in K => refCnt[k] \in Nat \ {0} /\ refCnt'[k] = refCnt[k] - 1
                      /\ k \notin K => refCnt'[k] = refCnt[k]
  BY <1>1, <1>2
<1>5. \A k \in Keys : Ready(k)' <=> Ready(k)
  BY <1>4 DEF Ready
<1>6. ReadyKeys' = ReadyKeys /\ Writing' = Writing
  BY <1>3, <1>5 DEF ReadyKeys, Writing
<1>7. \A k \in K : Ready(k)
  BY <1>2 DEF Ready
<1>8. ReadersOf' = [k \in Keys |-> IF k \in K THEN ReadersOf[k] - 1 ELSE ReadersOf[k]]
  BY <1>1, <1>4, <1>5, <1>7 DEF ReadersOf
<1>9. K \in SUBSET {k \in ReadyKeys : ReadersOf[k] # 0}
  BY <1>2, <1>7 DEF ReadyKeys, ReadersOf
<1> QED
  BY <1>6, <1>8, <1>9, CacheDone

\* A store that ends makes its keys readable, or removes them.
LEMMA CompleteStoreFinishes ==
  ASSUME PoolInv, NEW j \in Jobs, CompleteStore(j)
  PROVE  Cache!Next
<1> USE NoneFacts
<1> DEFINE K == Unfinished(j)
<1>1. /\ blockId' = blockId
      /\ refCnt' = [k \in Keys |-> IF k \in K THEN 0 ELSE refCnt[k]]
  BY DEF CompleteStore
<1>2. \A k \in K : k \in Keys /\ refCnt[k] = -1
  BY DEF Unfinished, JobKeys
<1> HIDE DEF K
<1>3. Cached' = Cached
  BY <1>1 DEF Cached
<1>4. \A k \in Keys : /\ k \in K => refCnt[k] = -1 /\ refCnt'[k] = 0
                      /\ k \notin K => refCnt'[k] = refCnt[k]
  BY <1>1, <1>2
<1>5. \A k \in Keys : /\ k \in K => ~Ready(k) /\ Ready(k)'
                      /\ k \notin K => (Ready(k)' <=> Ready(k))
  BY <1>4 DEF Ready
<1>6. K \in SUBSET Writing
  BY <1>2, Mapping
<1>7. ReadyKeys' = ReadyKeys \cup K
  BY <1>2, <1>5 DEF ReadyKeys
<1>8. Writing' = Writing \ K
  BY <1>3, <1>7 DEF Writing
<1>9. ReadersOf' = ReadersOf
  BY <1>4, <1>5 DEF ReadersOf
<1> QED
  BY Zenon, <1>6, <1>7, <1>8, <1>9, CacheFinish

\* complete_store(success = False) removes the keys it was writing.
LEMMA FailStoreFinishes ==
  ASSUME PoolInv, NEW j \in Jobs, FailStore(j)
  PROVE  Cache!Next
<1> USE NoneFacts
<1> DEFINE K == Unfinished(j)
<1>1. /\ refCnt' = [k \in Keys |-> IF k \in K THEN None ELSE refCnt[k]]
      /\ blockId' = [k \in Keys |-> IF k \in K THEN None ELSE blockId[k]]
  BY DEF FailStore
<1>2. \A k \in K : k \in Keys /\ refCnt[k] = -1
  BY DEF Unfinished, JobKeys
<1> HIDE DEF K
<1>3. Cached' = Cached \ K
  BY <1>1, <1>2 DEF Cached
<1>4. \A k \in Keys : /\ k \in K => refCnt[k] = -1 /\ refCnt'[k] = None
                      /\ k \notin K => refCnt'[k] = refCnt[k]
  BY <1>1, <1>2
<1>5. \A k \in Keys : /\ k \in K => ~Ready(k)
                      /\ Ready(k)' <=> Ready(k)
  BY <1>4 DEF Ready
<1>6. K \in SUBSET Writing
  BY <1>2, Mapping
<1>7. ReadyKeys' = ReadyKeys
  BY <1>5 DEF ReadyKeys
<1>8. Writing' = Writing \ K
  BY Zenon, <1>3, <1>7 DEF Writing
<1>9. ReadersOf' = ReadersOf
  BY <1>4, <1>5 DEF ReadersOf
<1> QED
  BY Zenon, <1>6, <1>7, <1>8, <1>9, CacheFinish

\* A store evicts stored keys that nobody reads, as many as do not fit.
LEMMA PrepareStoreStores ==
  ASSUME PoolInv, NEW j \in Jobs, NEW keys \in Requests, PrepareStore(j, keys)
  PROVE  Cache!Next
<1> USE NoneFacts
<1> DEFINE S == Wanted(keys) \ Cached
<1>1. PICK ev \in Evictions(NumToEvict(S), Wanted(keys)), slot \in [S -> Ids] :
        /\ refCnt' = [k \in Keys |-> IF k \in S THEN -1
                                     ELSE IF k \in ev[1] \cup ev[2] THEN None ELSE refCnt[k]]
        /\ blockId' = [k \in Keys |-> IF k \in S THEN slot[k]
                                      ELSE IF k \in ev[1] \cup ev[2] THEN None ELSE blockId[k]]
  BY Zenon DEF PrepareStore
<1>2. S \subseteq Keys \ Cached /\ IsFiniteSet(S) /\ Cardinality(S) \in Nat
  <2>1. S \subseteq Range(keys)
    BY DEF Wanted
  <2> QED
    BY Zenon, <2>1, RequestFinite, FS_Subset, FS_CardinalityType
<1>3. numAllocated \in Nat /\ NumBlocks \in Nat
  BY NumBlocksAssumption DEF PoolInv, PoolTyped
<1> HIDE DEF S
<1>4. NumToEvict(S) = Most(0, Cardinality(S) + Cardinality(Cached) - NumBlocks)
  <2>1. NumFree = Cardinality(freeList) + NumBlocks - numAllocated
    BY DEF NumFree
  <2>2. Cardinality(S) - NumFree = Cardinality(S) + Cardinality(Cached) - NumBlocks
    BY <1>2, <1>3, <2>1, CachedCount
  <2> QED
    BY <2>2 DEF NumToEvict
<1>5. NumToEvict(S) \in Nat
  BY <1>2, <1>3, <1>4, CachedCount DEF Most
<1> DEFINE E == ev[1] \cup ev[2]
<1>6. \A k \in E : k \in Keys /\ refCnt[k] = 0
  BY Zenon, EvictedUnused
<1>7. Cardinality(E) = NumToEvict(S)
  BY Zenon, <1>5, EvictedCount
<1>8. /\ refCnt' = [k \in Keys |-> IF k \in S THEN -1 ELSE IF k \in E THEN None ELSE refCnt[k]]
      /\ blockId' = [k \in Keys |-> IF k \in S THEN slot[k]
                                    ELSE IF k \in E THEN None ELSE blockId[k]]
  BY Zenon, <1>1
<1> HIDE DEF E
<1>9. \A k \in S : k \notin E /\ refCnt[k] = None /\ slot[k] \in Ids
  BY <1>2, <1>6 DEF PoolInv, BlockAccounting, Cached
<1>10. \A k \in Keys : /\ k \in S => refCnt'[k] = -1 /\ refCnt[k] = None
                       /\ k \in E => refCnt'[k] = None /\ refCnt[k] = 0
                       /\ k \notin S \cup E => refCnt'[k] = refCnt[k]
  BY <1>6, <1>8, <1>9
<1>11. Cached' = (Cached \ E) \cup S
  BY Zenon, <1>2, <1>8, <1>9 DEF Cached
<1>12. \A k \in Keys : /\ k \in S => ~Ready(k) /\ ~Ready(k)'
                       /\ k \in E => Ready(k) /\ ~Ready(k)'
                       /\ k \notin S \cup E => (Ready(k)' <=> Ready(k))
  <2> TAKE k \in Keys
  <2>1. k \in S => ~Ready(k) /\ ~Ready(k)'
    BY <1>10 DEF Ready
  <2>2. k \in E => Ready(k) /\ ~Ready(k)'
    BY <1>10 DEF Ready
  <2>3. k \notin S \cup E => (Ready(k)' <=> Ready(k))
    BY <1>10 DEF Ready
  <2> QED
    BY Zenon, <2>1, <2>2, <2>3
<1>13. ReadyKeys' = ReadyKeys \ E /\ E \subseteq ReadyKeys
  BY <1>2, <1>6, <1>12 DEF ReadyKeys
<1>14. S \cap ReadyKeys = {}
  BY <1>12 DEF ReadyKeys
<1>15. Writing' = Writing \cup S
  BY Zenon, <1>11, <1>13, <1>14 DEF Writing
<1>16. ReadersOf' = ReadersOf
  BY <1>10, <1>12 DEF ReadersOf
<1>17. E \in SUBSET {k \in ReadyKeys : ReadersOf[k] = 0}
  BY <1>6, <1>13 DEF ReadersOf
<1>18. /\ S \in SUBSET (Keys \ (Writing \cup ReadyKeys))
       /\ S \cup Writing \cup ReadyKeys = S \cup Cached
  BY Zenon, <1>2, Mapping
<1>19. Cardinality(S \cup Cached) = Cardinality(S) + Cardinality(Cached)
  <2>1. S \cap Cached = {}
    BY Zenon, <1>2
  <2>2. Cardinality(S \cup Cached) = Cardinality(S) + Cardinality(Cached) - Cardinality({})
    BY Zenon, <1>2, <2>1, CachedCount, FS_Union
  <2> QED
    BY <1>2, <2>2, CachedCount, FS_EmptySet
<1>20. /\ Cardinality(S \cup Writing \cup ReadyKeys) \in Int
       /\ Cardinality(E) = Most(0, Cardinality(S \cup Writing \cup ReadyKeys) - NumBlocks)
  <2>1. Cardinality(S \cup Writing \cup ReadyKeys) = Cardinality(S) + Cardinality(Cached)
    BY <1>18, <1>19
  <2>2. Cardinality(S) + Cardinality(Cached) \in Int
    BY <1>2, CachedCount
  <2>3. Cardinality(E) = Most(0, Cardinality(S) + Cardinality(Cached) - NumBlocks)
    BY Zenon, <1>4, <1>7
  <2>4. \A m : m = Cardinality(S) + Cardinality(Cached)
               => m \in Int /\ Cardinality(E) = Most(0, m - NumBlocks)
    BY <1>2, <1>3, <2>2, <2>3, CachedCount DEF Most
  <2> QED
    BY <2>1, <2>4
<1> QED
  BY Zenon, <1>13, <1>15, <1>16, <1>17, <1>18, <1>20, CacheStore

\* reset_cache empties the cache.
LEMMA ResetEmpties == ResetCache => Cache!Next
<1> SUFFICES ASSUME ResetCache PROVE Cache!Next
  OBVIOUS
<1>1. \A k \in Keys : ~Ready(k)'
  BY DEF ResetCache, Ready
<1>2. ReadyKeys' = {} /\ Cached' = {}
  BY <1>1 DEF ResetCache, ReadyKeys, Cached
<1>3. ReadersOf' = [k \in Keys |-> 0]
  BY <1>1 DEF ReadersOf
<1>4. Cache!Reset
  BY <1>2, <1>3 DEF Cache!Reset, ReadyKeys, ReadersOf
<1> QED
  BY <1>4 DEF Cache!Next

\* lookup and touch do not show in the cache.
LEMMA SameCache ==
  ASSUME UNCHANGED pool
  PROVE  UNCHANGED <<Writing, ReadyKeys, ReadersOf>>
<1>1. refCnt' = refCnt /\ blockId' = blockId
  BY DEF pool
<1>2. \A k \in Keys : Ready(k)' <=> Ready(k)
  BY <1>1 DEF Ready
<1>3. ReadyKeys' = ReadyKeys /\ Cached' = Cached
  BY <1>1, <1>2 DEF ReadyKeys, Cached
<1>4. ReadersOf' = ReadersOf
  BY <1>1, <1>2 DEF ReadersOf
<1> QED
  BY <1>3, <1>4 DEF Writing

\* Both start empty.
LEMMA InitCache == Init => Cache!Init
<1> SUFFICES ASSUME Init PROVE Cache!Init
  OBVIOUS
<1>1. \A k \in Keys : ~Ready(k)
  BY DEF Init, Ready
<1>2. Cached = {}
  BY DEF Init, Cached
<1> QED
  BY <1>1, <1>2 DEF Cache!Init

\* Every step of the manager is a step of the cache, or changes nothing in it.
LEMMA NextCache ==
  PoolInv /\ [Next]_vars => Cache!Next \/ UNCHANGED <<Writing, ReadyKeys, ReadersOf>>
<1> SUFFICES ASSUME PoolInv, [Next]_vars
             PROVE  Cache!Next \/ UNCHANGED <<Writing, ReadyKeys, ReadersOf>>
  OBVIOUS
<1>1. CASE (\E k \in Keys : Lookup(k) \/ Touch(k)) \/ UNCHANGED vars
  BY <1>1, SameCache DEF Lookup, Touch, vars
<1>2. ASSUME NEW j \in Jobs, NEW K \in SUBSET Keys, PrepareLoad(j, K) PROVE Cache!Next
  BY <1>2, PrepareLoadReads
<1>3. ASSUME NEW j \in Jobs, CompleteLoad(j) PROVE Cache!Next
  BY <1>3, CompleteLoadReads
<1>4. ASSUME NEW j \in Jobs, NEW keys \in Requests, PrepareStore(j, keys) PROVE Cache!Next
  BY <1>4, PrepareStoreStores
<1>5. ASSUME NEW j \in Jobs, CompleteStore(j) PROVE Cache!Next
  BY <1>5, CompleteStoreFinishes
<1>6. ASSUME NEW j \in Jobs, FailStore(j) PROVE Cache!Next
  BY <1>6, FailStoreFinishes
<1> QED
  BY <1>1, <1>2, <1>3, <1>4, <1>5, <1>6, ResetEmpties DEF Next

\* CPUOffloadingManager keeps the promise of the OffloadingManager interface under both
\* policies: it evicts only keys that are stored and not read, exactly as many as do not
\* fit, and a key becomes readable when its store has completed.
THEOREM ManagerImplementsCache == Spec => ImplementsCache
<1> DEFINE view == <<Cached \ {k \in Keys : Ready(k)}, {k \in Keys : Ready(k)},
                     [k \in Keys |-> IF Ready(k) THEN refCnt[k] ELSE 0]>>
<1>1. PoolInv /\ [Next]_vars => [Cache!Next]_view
  BY NextCache DEF Writing, ReadyKeys, ReadersOf
<1> QED
  BY <1>1, InitCache, InitPool, NextPool, PTL DEF Spec, ImplementsCache, Cache!Spec

-----------------------------------------------------------------------------
(***************************************************************************)
(* The policy's lists.                                                     *)
(***************************************************************************)
\* The places of a list with a property are numbered in their order.
LEMMA Ranked ==
  ASSUME NEW n \in Nat, NEW at \in SUBSET (1 .. n)
  PROVE  /\ IsFiniteSet(at) /\ Cardinality(at) \in Nat /\ Cardinality(at) <= n
         /\ \A i \in at : Cardinality({j \in at : j <= i}) \in 1 .. Cardinality(at)
         /\ \A i, k \in at : Cardinality({j \in at : j <= i}) = Cardinality({j \in at : j <= k})
                               => i = k
         /\ \A m \in 1 .. Cardinality(at) :
                \E i \in at : Cardinality({j \in at : j <= i}) = m
<1> DEFINE upTo(i) == {j \in at : j <= i}
           rank == [i \in at |-> Cardinality(upTo(i))]
           c == Cardinality(at)
<1>1. IsFiniteSet(1 .. n) /\ Cardinality(1 .. n) = n
  BY FS_Interval
<1>2. IsFiniteSet(at) /\ c \in Nat /\ c <= n
  BY Zenon, <1>1, FS_Subset, FS_CardinalityType
<1>3. ASSUME NEW i \in at PROVE Cardinality(upTo(i)) \in 1 .. c /\ IsFiniteSet(upTo(i))
  <2>1. upTo(i) \subseteq at /\ i \in upTo(i)
    OBVIOUS
  <2>2. IsFiniteSet(upTo(i)) /\ Cardinality(upTo(i)) <= c
    BY Zenon, <1>2, <2>1, FS_Subset
  <2>3. Cardinality(upTo(i)) \in Nat /\ Cardinality(upTo(i)) # 0
    BY Zenon, <2>1, <2>2, FS_CardinalityType, FS_EmptySet
  <2> HIDE DEF upTo, c
  <2> QED
    BY <1>2, <2>2, <2>3
<1>4. ASSUME NEW i \in at, NEW k \in at, Cardinality(upTo(i)) = Cardinality(upTo(k)), i < k
      PROVE  FALSE
  <2>1. upTo(i) \subseteq upTo(k) /\ k \in upTo(k) /\ k \notin upTo(i)
    <3>1. \A j \in at : j \in Int
      OBVIOUS
    <3>2. k <= k /\ ~(k <= i) /\ \A j \in Int : j <= i => j <= k
      BY <1>4, <3>1
    <3> QED
      BY Zenon, <3>1, <3>2
  <2>2. IsFiniteSet(upTo(k))
    BY <1>3
  <2> HIDE DEF upTo
  <2> QED
    BY Zenon, <1>4, <2>1, <2>2, FS_Subset
<1>5. \A i, k \in at : Cardinality(upTo(i)) = Cardinality(upTo(k)) => i = k
  <2> HIDE DEF upTo
  <2> QED
    BY <1>4
<1>6. rank \in Injection(at, 1 .. c)
  <2> HIDE DEF upTo, c
  <2> QED
    BY <1>3, <1>5 DEF Injection, IsInjective
<1>7. IsFiniteSet(1 .. c) /\ Cardinality(1 .. c) = c
  BY <1>2, FS_Interval
<1>8. rank \in Surjection(at, 1 .. c)
  <2> HIDE DEF rank
  <2> QED
    BY Zenon, <1>6, <1>7, FS_Injection
<1>9. \A m \in 1 .. c : \E i \in at : Cardinality(upTo(i)) = m
  <2> HIDE DEF upTo, c
  <2> QED
    BY Zenon, <1>8 DEF Surjection
<1> QED
  BY Zenon, <1>2, <1>3, <1>5, <1>9

\* The keys of S in a list, in its order.
LEMMA OnlyIs ==
  ASSUME NEW list \in Seq(Keys), IsInjective(list), NEW S
  PROVE  /\ Only(list, S) \in Seq(Keys) /\ IsInjective(Only(list, S))
         /\ Len(Only(list, S)) \in Nat /\ Len(Only(list, S)) <= Len(list)
         /\ \A k : k \in Range(Only(list, S)) <=> k \in Range(list) /\ k \in S
<1> DEFINE at == {i \in DOMAIN list : list[i] \in S}
           rank(i) == Cardinality({j \in at : j <= i})
           c == Cardinality(at)
           pick(m) == CHOOSE i \in at : rank(i) = m
<1>1. Len(list) \in Nat /\ DOMAIN list = 1 .. Len(list) /\ at \subseteq 1 .. Len(list)
  OBVIOUS
<1>2. /\ c \in Nat /\ c <= Len(list)
      /\ \A i \in at : rank(i) \in 1 .. c
      /\ \A i, k \in at : rank(i) = rank(k) => i = k
      /\ \A m \in 1 .. c : \E i \in at : rank(i) = m
  BY Zenon, <1>1, Ranked
<1>3. Only(list, S) = [m \in 1 .. c |-> list[pick(m)]]
  BY DEF Only
<1>4. \A i \in at : i \in DOMAIN list /\ list[i] \in S /\ list[i] \in Keys
  BY <1>1
<1>5. \A i \in DOMAIN list : list[i] \in S => i \in at
  OBVIOUS
<1> HIDE DEF at, rank, c
<1>6. \A m \in 1 .. c : pick(m) \in at /\ rank(pick(m)) = m
  BY Zenon, <1>2
<1>7. \A i \in at : pick(rank(i)) = i
  BY Zenon, <1>2, <1>6
<1> HIDE DEF pick
<1>8. Only(list, S) \in [1 .. c -> Keys]
  BY Zenon, <1>3, <1>4, <1>6
<1>9. Only(list, S) \in Seq(Keys) /\ Len(Only(list, S)) = c /\ DOMAIN Only(list, S) = 1 .. c
  BY <1>2, <1>8
<1>10. IsInjective(Only(list, S))
  <2> SUFFICES ASSUME NEW a \in 1 .. c, NEW b \in 1 .. c, list[pick(a)] = list[pick(b)]
               PROVE  a = b
    BY Zenon, <1>3, <1>9 DEF IsInjective
  <2>1. pick(a) = pick(b)
    BY Zenon, <1>4, <1>6 DEF IsInjective
  <2> QED
    BY Zenon, <1>6, <2>1
<1>11. ASSUME NEW k PROVE k \in Range(Only(list, S)) <=> k \in Range(list) /\ k \in S
  <2>1. ASSUME NEW m \in 1 .. c, k = list[pick(m)] PROVE k \in Range(list) /\ k \in S
    BY Zenon, <1>4, <1>6, <2>1 DEF Range
  <2>2. ASSUME NEW i \in DOMAIN list, k = list[i], k \in S
        PROVE  \E m \in 1 .. c : k = list[pick(m)]
    BY Zenon, <1>2, <1>5, <1>7, <2>2
  <2>3. k \in Range(Only(list, S)) <=> \E m \in 1 .. c : k = list[pick(m)]
    BY <1>3, <1>9 DEF Range
  <2>4. k \in Range(list) <=> \E i \in DOMAIN list : k = list[i]
    BY DEF Range
  <2> QED
    BY Zenon, <2>1, <2>2, <2>3, <2>4
<1> QED
  BY <1>2, <1>9, <1>10, <1>11


\* What an OrderedDict of keys is here.
Dict(list) == list \in Seq(Keys) /\ IsInjective(list)

LEMMA DictFacts ==
  ASSUME NEW list, Dict(list)
  PROVE  /\ Len(list) \in Nat /\ DOMAIN list = 1 .. Len(list) /\ Range(list) \subseteq Keys
         /\ IsFiniteSet(Range(list)) /\ Cardinality(Range(list)) = Len(list)
<1>1. Len(list) \in Nat /\ DOMAIN list = 1 .. Len(list) /\ Range(list) \subseteq Keys
  BY DEF Dict, Range
<1>2. list \in Bijection(1 .. Len(list), Range(list))
  BY <1>1 DEF Dict, Range, IsInjective, Bijection, Injection, Surjection
<1>3. PICK n \in Nat : n = Len(list)
  BY Zenon, <1>1
<1>4. IsFiniteSet(1 .. n) /\ Cardinality(1 .. n) = n
  BY FS_Interval
<1>5. IsFiniteSet(Range(list)) /\ Cardinality(Range(list)) = Cardinality(1 .. n)
  BY Zenon, <1>2, <1>3, <1>4, FS_Bijection DEF ExistsBijection
<1> QED
  BY Zenon, <1>1, <1>3, <1>4, <1>5

LEMMA OnlyDict ==
  ASSUME NEW list, Dict(list), NEW S
  PROVE  /\ Dict(Only(list, S)) /\ Len(Only(list, S)) <= Len(list)
         /\ \A k : k \in Range(Only(list, S)) <=> k \in Range(list) /\ k \in S
  BY Zenon, OnlyIs DEF Dict

LEMMA WithoutDict ==
  ASSUME NEW list, Dict(list), NEW S
  PROVE  /\ Dict(Without(list, S)) /\ Len(Without(list, S)) <= Len(list)
         /\ \A k : k \in Range(Without(list, S)) <=> k \in Range(list) /\ k \notin S
<1>1. \A k : k \in Range(list) \ S <=> k \in Range(list) /\ k \notin S
  OBVIOUS
<1> QED
  BY Zenon, <1>1, OnlyDict DEF Without

LEMMA ConcatDict ==
  ASSUME NEW x, NEW y, Dict(x), Dict(y), \A k : ~(k \in Range(x) /\ k \in Range(y))
  PROVE  /\ Dict(x \o y)
         /\ \A k : k \in Range(x \o y) <=> k \in Range(x) \/ k \in Range(y)
<1>1. /\ Len(x) \in Nat /\ DOMAIN x = 1 .. Len(x)
      /\ Len(y) \in Nat /\ DOMAIN y = 1 .. Len(y)
  BY Zenon, DictFacts
<1>2. /\ x \o y \in Seq(Keys) /\ DOMAIN (x \o y) = 1 .. Len(x) + Len(y)
      /\ \A i \in 1 .. Len(x) + Len(y) : (x \o y)[i] = IF i <= Len(x) THEN x[i] ELSE y[i - Len(x)]
  BY <1>1 DEF Dict
<1>3. ASSUME NEW i \in 1 .. Len(x) + Len(y)
      PROVE  IF i <= Len(x) THEN i \in DOMAIN x ELSE i - Len(x) \in DOMAIN y
  BY <1>1
<1>4. ASSUME NEW k PROVE k \in Range(x \o y) <=> k \in Range(x) \/ k \in Range(y)
  <2>1. ASSUME k \in Range(x \o y) PROVE k \in Range(x) \/ k \in Range(y)
    BY Zenon, <1>2, <1>3, <2>1 DEF Range
  <2>2. ASSUME NEW i \in DOMAIN x PROVE i \in DOMAIN (x \o y) /\ (x \o y)[i] = x[i]
    BY <1>1, <1>2
  <2>3. ASSUME NEW i \in DOMAIN y
        PROVE  i + Len(x) \in DOMAIN (x \o y) /\ (x \o y)[i + Len(x)] = y[i]
    BY <1>1, <1>2
  <2> QED
    BY Zenon, <2>1, <2>2, <2>3 DEF Range
<1>5. ASSUME NEW i \in 1 .. Len(x) + Len(y), NEW j \in 1 .. Len(x) + Len(y),
             (x \o y)[i] = (x \o y)[j]
      PROVE  i = j
  <2>1. \A a \in DOMAIN x, b \in DOMAIN y : x[a] # y[b]
    BY Zenon DEF Range
  <2>2. (i <= Len(x)) <=> (j <= Len(x))
    BY Zenon, <1>2, <1>3, <1>5, <2>1
  <2>3. CASE i <= Len(x) /\ j <= Len(x)
    BY <1>2, <1>3, <1>5, <2>3 DEF Dict, IsInjective
  <2>4. CASE ~(i <= Len(x)) /\ ~(j <= Len(x))
    <3>1. i - Len(x) \in DOMAIN y /\ j - Len(x) \in DOMAIN y /\ y[i - Len(x)] = y[j - Len(x)]
      BY <1>2, <1>3, <1>5, <2>4
    <3>2. i - Len(x) = j - Len(x)
      BY Zenon, <3>1 DEF Dict, IsInjective
    <3> QED
      BY <1>1, <3>2
  <2> QED
    BY <2>2, <2>3, <2>4
<1> QED
  BY Zenon, <1>2, <1>4, <1>5 DEF Dict, IsInjective

LEMMA AppendDict ==
  ASSUME NEW list, Dict(list), NEW k \in Keys, k \notin Range(list)
  PROVE  /\ Dict(Append(list, k)) /\ Len(Append(list, k)) = Len(list) + 1
         /\ \A x : x \in Range(Append(list, k)) <=> x \in Range(list) \/ x = k
<1> DEFINE one == <<k>>
<1>1. /\ one \in Seq(Keys) /\ DOMAIN one = {1} /\ one[1] = k
  OBVIOUS
<1>2. Append(list, k) = list \o one /\ Len(Append(list, k)) = Len(list) + 1
  BY DEF Dict
<1> HIDE DEF one
<1>3. Dict(one) /\ \A x : x \in Range(one) <=> x = k
  BY Zenon, <1>1 DEF Dict, IsInjective, Range
<1>4. \A x : ~(x \in Range(list) /\ x \in Range(one))
  BY Zenon, <1>3
<1>5. /\ Dict(list \o one)
      /\ \A x : x \in Range(list \o one) <=> x \in Range(list) \/ x \in Range(one)
  BY Zenon, <1>3, <1>4, ConcatDict
<1> QED
  BY Zenon, <1>2, <1>3, <1>5

LEMMA MoveDict ==
  ASSUME NEW list, Dict(list), NEW k \in Range(list)
  PROVE  /\ Dict(MoveToEnd(list, k)) /\ Len(MoveToEnd(list, k)) = Len(list)
         /\ \A x : x \in Range(MoveToEnd(list, k)) <=> x \in Range(list)
<1> DEFINE rest == Without(list, {k})
<1>1. k \in Keys
  BY DictFacts
<1>2. /\ Dict(rest)
      /\ \A x : x \in Range(rest) <=> x \in Range(list) /\ x \notin {k}
  BY Zenon, WithoutDict
<1> HIDE DEF rest
<1>3. k \notin Range(rest)
  BY Zenon, <1>2
<1>4. /\ Dict(Append(rest, k))
      /\ \A x : x \in Range(Append(rest, k)) <=> x \in Range(rest) \/ x = k
  BY Zenon, <1>1, <1>2, <1>3, AppendDict
<1>5. \A x : x \in Range(Append(rest, k)) <=> x \in Range(list)
  BY Zenon, <1>2, <1>4
<1>6. Range(Append(rest, k)) = Range(list)
  BY Zenon, <1>5
<1>7. Len(Append(rest, k)) = Len(list)
  BY Zenon, <1>4, <1>6, DictFacts
<1> QED
  BY Zenon, <1>4, <1>5, <1>7 DEF MoveToEnd, rest

LEMMA PartDict ==
  ASSUME NEW list, Dict(list), NEW a \in 1 .. Len(list) + 1
  PROVE  /\ Dict(SubSeq(list, a, Len(list)))
         /\ Len(SubSeq(list, a, Len(list))) = Len(list) - a + 1
         /\ \A x : x \in Range(SubSeq(list, a, Len(list))) => x \in Range(list)
<1> DEFINE part == SubSeq(list, a, Len(list))
           n == Len(list) - a + 1
<1>1. Len(list) \in Nat /\ DOMAIN list = 1 .. Len(list)
  BY DictFacts
<1>2. /\ part \in Seq(Keys) /\ Len(part) = n /\ DOMAIN part = 1 .. n
      /\ \A i \in 1 .. n : part[i] = list[i + a - 1] /\ i + a - 1 \in DOMAIN list
  BY <1>1 DEF Dict
<1>3. \A i, j \in 1 .. n : i + a - 1 = j + a - 1 => i = j
  BY <1>1
<1> HIDE DEF part, n
<1>4. IsInjective(part)
  BY <1>2, <1>3 DEF Dict, IsInjective
<1>5. \A x : x \in Range(part) => x \in Range(list)
  BY <1>2 DEF Range
<1> QED
  BY Zenon, <1>2, <1>4, <1>5 DEF Dict, part, n

LEMMA NewestDict ==
  ASSUME NEW list, Dict(list)
  PROVE  /\ Dict(NewestOf(list, NumBlocks)) /\ Len(NewestOf(list, NumBlocks)) <= NumBlocks
         /\ \A x : x \in Range(NewestOf(list, NumBlocks)) => x \in Range(list)
<1> DEFINE a == Most(1, Len(list) - NumBlocks + 1)
<1>1. Len(list) \in Nat /\ NumBlocks \in Nat \ {0}
  BY DictFacts, NumBlocksAssumption
<1>2. a \in 1 .. Len(list) + 1 /\ Len(list) - a + 1 <= NumBlocks
  BY <1>1 DEF Most
<1> HIDE DEF a
<1>3. NewestOf(list, NumBlocks) = SubSeq(list, a, Len(list))
  BY Zenon DEF NewestOf, a
<1> QED
  BY Zenon, <1>2, <1>3, PartDict


-----------------------------------------------------------------------------
(***************************************************************************)
(* The invariant of the lists: T1 and T2 are the cached keys, the ghosts   *)
(* are not cached, and what is in T2 is ready.                             *)
(***************************************************************************)
ListsInv ==
    /\ Dict(t1) /\ Dict(t2) /\ Dict(b1) /\ Dict(b2)
    /\ Len(b1) <= NumBlocks /\ Len(b2) <= NumBlocks
    /\ ListsConsistent /\ FrequentAreReady
TargetInv == target \in 0 .. Scale * NumBlocks
TrackerInv ==
    /\ Dict(tracked) /\ Len(tracked) <= MaxTrackerSize
    /\ count \in [Keys -> 0 .. Most(1, StoreThreshold)]
DataInv == policy \in {"lru", "arc"} /\ data \in [Ids -> {None} \cup Keys]

\* ListsConsistent, key by key.
Sorted(T1, T2, B1, B2, C) ==
    /\ \A k : k \in C <=> k \in T1 \/ k \in T2
    /\ \A k : ~(k \in T1 /\ k \in T2) /\ ~(k \in B1 /\ k \in B2)
    /\ \A k : k \in B1 \/ k \in B2 => k \notin C
LEMMA SortedLists ==
  ListsConsistent <=> Sorted(Range(t1), Range(t2), Range(b1), Range(b2), Cached)
  BY Zenon DEF ListsConsistent, Sorted
LEMMA SortedPrimed ==
  ListsConsistent' <=> Sorted(Range(t1'), Range(t2'), Range(b1'), Range(b2'), Cached')
  BY Zenon DEF ListsConsistent, Sorted

LEMMA ListsFrame ==
  ASSUME ListsInv, UNCHANGED lists, Cached' = Cached, \A k \in Keys : Ready(k) => Ready(k)'
  PROVE  ListsInv'
<1>1. UNCHANGED <<t1, t2, b1, b2>>
  BY DEF lists
<1>2. Range(t2) \subseteq Keys
  BY Zenon, DictFacts DEF ListsInv
<1>3. FrequentAreReady'
  BY Zenon, <1>1, <1>2 DEF ListsInv, FrequentAreReady
<1>4. ListsConsistent'
  BY Zenon, <1>1 DEF ListsInv, ListsConsistent
<1> QED
  BY Zenon, <1>1, <1>3, <1>4 DEF ListsInv

LEMMA TouchLists ==
  ASSUME ListsInv, NEW k \in Keys, Touch(k)
  PROVE  ListsInv'
<1>1. Cached' = Cached /\ \A x : Ready(x)' = Ready(x)
  BY DEF Touch, pool, Cached, Ready
<1>2. Sorted(Range(t1), Range(t2), Range(b1), Range(b2), Cached)
  BY Zenon, SortedLists DEF ListsInv
<1>3. CASE TouchT1(k) /\ Promoted(k)
  <2>1. /\ k \in Range(t1) /\ t1' = Without(t1, {k}) /\ t2' = Append(t2, k)
        /\ b1' = b1 /\ b2' = b2 /\ Ready(k)
    BY <1>3 DEF TouchT1, Promoted
  <2>2. k \notin Range(t2)
    BY Zenon, <1>2, <2>1 DEF Sorted
  <2>3. Dict(t1') /\ \A x : x \in Range(t1') <=> x \in Range(t1) /\ x \notin {k}
    BY Zenon, <2>1, WithoutDict DEF ListsInv
  <2>4. Dict(t2') /\ \A x : x \in Range(t2') <=> x \in Range(t2) \/ x = k
    BY Zenon, <2>1, <2>2, AppendDict DEF ListsInv
  <2>5. Sorted(Range(t1'), Range(t2'), Range(b1'), Range(b2'), Cached')
    BY Zenon, <1>1, <1>2, <2>1, <2>3, <2>4 DEF Sorted
  <2>6. FrequentAreReady'
    BY Zenon, <1>1, <2>1, <2>4 DEF ListsInv, FrequentAreReady
  <2> QED
    BY Zenon, <2>1, <2>3, <2>4, <2>5, <2>6, SortedPrimed DEF ListsInv
<1>4. CASE ~(TouchT1(k) /\ Promoted(k))
  <2>1. /\ t1' = t1 \/ (k \in Range(t1) /\ t1' = MoveToEnd(t1, k))
        /\ t2' = t2 \/ (k \in Range(t2) /\ t2' = MoveToEnd(t2, k))
        /\ b1' = b1 \/ (k \in Range(b1) /\ b1' = MoveToEnd(b1, k))
        /\ b2' = b2 \/ (k \in Range(b2) /\ b2' = MoveToEnd(b2, k))
    BY Zenon, <1>4 DEF Touch, TouchT1, TouchT2, TouchB1, TouchB2
  <2>2. Dict(t1') /\ \A x : x \in Range(t1') <=> x \in Range(t1)
    BY Zenon, <2>1, MoveDict DEF ListsInv
  <2>3. Dict(t2') /\ \A x : x \in Range(t2') <=> x \in Range(t2)
    BY Zenon, <2>1, MoveDict DEF ListsInv
  <2>4. Dict(b1') /\ (\A x : x \in Range(b1') <=> x \in Range(b1)) /\ Len(b1') = Len(b1)
    BY Zenon, <2>1, MoveDict DEF ListsInv
  <2>5. Dict(b2') /\ (\A x : x \in Range(b2') <=> x \in Range(b2)) /\ Len(b2') = Len(b2)
    BY Zenon, <2>1, MoveDict DEF ListsInv
  <2>6. Sorted(Range(t1'), Range(t2'), Range(b1'), Range(b2'), Cached')
    BY Zenon, <1>1, <1>2, <2>2, <2>3, <2>4, <2>5 DEF Sorted
  <2>7. FrequentAreReady'
    BY Zenon, <1>1, <2>3 DEF ListsInv, FrequentAreReady
  <2>8. Len(b1') <= NumBlocks /\ Len(b2') <= NumBlocks
    BY Zenon, <2>4, <2>5 DEF ListsInv
  <2> QED
    BY Zenon, <2>2, <2>3, <2>4, <2>5, <2>6, <2>7, <2>8, SortedPrimed DEF ListsInv
<1> QED
  BY <1>3, <1>4

LEMMA GhostsDict ==
  ASSUME NEW ghost, Dict(ghost), Len(ghost) <= NumBlocks, NEW list, Dict(list), NEW E,
         \A k : ~(k \in Range(ghost) /\ k \in Range(list))
  PROVE  /\ Dict(Ghosts(ghost, list, E)) /\ Len(Ghosts(ghost, list, E)) <= NumBlocks
         /\ \A k : k \in Range(Ghosts(ghost, list, E)) =>
                k \in Range(ghost) \/ (k \in Range(list) /\ k \in E)
<1>1. CASE policy = "lru"
  <2>1. Ghosts(ghost, list, E) = ghost
    BY <1>1 DEF Ghosts
  <2> QED
    BY Zenon, <2>1
<1>2. CASE policy # "lru"
  <2> DEFINE both == ghost \o Only(list, E)
  <2>1. Ghosts(ghost, list, E) = NewestOf(both, NumBlocks)
    BY <1>2 DEF Ghosts
  <2>2. /\ Dict(Only(list, E))
        /\ \A k : k \in Range(Only(list, E)) <=> k \in Range(list) /\ k \in E
    BY Zenon, OnlyDict
  <2>3. \A k : ~(k \in Range(ghost) /\ k \in Range(Only(list, E)))
    BY Zenon, <2>2
  <2>4. /\ Dict(both)
        /\ \A k : k \in Range(both) <=> k \in Range(ghost) \/ k \in Range(Only(list, E))
    BY Zenon, <2>2, <2>3, ConcatDict
  <2> HIDE DEF both
  <2>5. /\ Dict(NewestOf(both, NumBlocks)) /\ Len(NewestOf(both, NumBlocks)) <= NumBlocks
        /\ \A k : k \in Range(NewestOf(both, NumBlocks)) => k \in Range(both)
    BY Zenon, <2>4, NewestDict
  <2>6. \A k : k \in Range(both) => k \in Range(ghost) \/ (k \in Range(list) /\ k \in E)
    BY Zenon, <2>2, <2>4
  <2> QED
    BY Zenon, <2>1, <2>5, <2>6
<1> QED
  BY <1>1, <1>2

\* A prepare_store call names a key once.
LEMMA RequestDict ==
  ASSUME NEW keys \in Requests
  PROVE  Dict(keys)
<1>1. PICK n \in 1 .. MaxRequest : keys \in Injection(1 .. n, Keys)
  BY DEF Requests
<1>2. n \in Nat /\ keys \in [1 .. n -> Keys] /\ IsInjective(keys)
  BY <1>1 DEF Injection
<1> QED
  BY <1>2 DEF Dict

\* What evict may return comes from the lists.
LEMMA EvictedListed ==
  ASSUME NEW n, NEW P, NEW ev \in Evictions(n, P)
  PROVE  ev[1] \subseteq Range(t1) /\ ev[2] \subseteq Range(t2)
<1>1. PICK E1 \in Oldest(t1, Evictable(t1, P), FromT1(n, P)) :
          ev \in {<<E1, E2>> : E2 \in Oldest(t2, Evictable(t2, P) \ E1, n - FromT1(n, P))}
  BY Zenon DEF Evictions
<1>2. PICK E2 \in Oldest(t2, Evictable(t2, P) \ E1, n - FromT1(n, P)) : ev = <<E1, E2>>
  BY Zenon, <1>1
<1>3. E1 \subseteq Evictable(t1, P) /\ E2 \subseteq Evictable(t2, P)
  BY <1>1, <1>2 DEF Oldest
<1>4. E1 \subseteq Range(t1) /\ E2 \subseteq Range(t2)
  BY Zenon, <1>3 DEF Evictable
<1> QED
  BY Zenon, <1>2, <1>4

LEMMA PrepareStoreLists ==
  ASSUME PoolInv, ListsInv, NEW j \in Jobs, NEW keys \in Requests, PrepareStore(j, keys)
  PROVE  ListsInv'
<1> DEFINE S == Wanted(keys) \ Cached
<1>2. PICK ev \in Evictions(NumToEvict(S), Wanted(keys)), slot \in [S -> Ids] :
          /\ EvictAndInsert(ev[1], ev[2], Only(keys, S))
          /\ refCnt' = [k \in Keys |-> IF k \in S THEN -1
                                       ELSE IF k \in ev[1] \cup ev[2] THEN None ELSE refCnt[k]]
          /\ blockId' = [k \in Keys |-> IF k \in S THEN slot[k]
                                        ELSE IF k \in ev[1] \cup ev[2] THEN None ELSE blockId[k]]
  BY Zenon DEF PrepareStore
<1>1. S \subseteq Range(keys) /\ \A k : ~(k \in S /\ k \in Cached)
  BY Zenon DEF Wanted
<1> HIDE DEF S
<1>3. PICK E1, E2, new : E1 = ev[1] /\ E2 = ev[2] /\ new = Only(keys, S)
  BY Zenon
<1>4. E1 \in SUBSET Range(t1) /\ E2 \in SUBSET Range(t2)
  BY Zenon, <1>2, <1>3, EvictedListed
<1>5. /\ t1' = Without(t1, E1) \o new /\ t2' = Without(t2, E2)
      /\ b1' = Without(Ghosts(b1, t1, E1), Range(new))
      /\ b2' = Without(Ghosts(b2, t2, E2), Range(new))
  BY Zenon, <1>2, <1>3 DEF EvictAndInsert
<1>6. S \subseteq Range(keys) /\ \A k : ~(k \in S /\ k \in Cached)
  BY Zenon, <1>1
<1>7. Dict(new) /\ \A k : k \in Range(new) <=> k \in S
  <2>1. Dict(keys)
    BY Zenon, RequestDict
  <2>2. Dict(new) /\ \A k : k \in Range(new) <=> k \in Range(keys) /\ k \in S
    BY Zenon, <1>3, <2>1, OnlyDict
  <2> QED
    BY Zenon, <1>6, <2>2
<1>8. Sorted(Range(t1), Range(t2), Range(b1), Range(b2), Cached)
  BY Zenon, SortedLists DEF ListsInv
<1>9. /\ \A k : k \in Cached <=> k \in Range(t1) \/ k \in Range(t2)
      /\ \A k : ~(k \in Range(t1) /\ k \in Range(t2))
      /\ \A k : ~(k \in Range(b1) /\ k \in Range(t1)) /\ ~(k \in Range(b2) /\ k \in Range(t2))
  BY Zenon, <1>8 DEF Sorted
<1>10. Dict(t1') /\ \A k : k \in Range(t1') <=> (k \in Range(t1) /\ k \notin E1) \/ k \in S
  <2>1. PICK rest : rest = Without(t1, E1)
    BY Zenon
  <2>2. Dict(rest) /\ \A k : k \in Range(rest) <=> k \in Range(t1) /\ k \notin E1
    BY Zenon, <2>1, WithoutDict DEF ListsInv
  <2>3. \A k : ~(k \in Range(rest) /\ k \in Range(new))
    BY Zenon, <1>6, <1>7, <1>9, <2>2
  <2>4. /\ Dict(rest \o new)
        /\ \A k : k \in Range(rest \o new) <=> k \in Range(rest) \/ k \in Range(new)
    BY Zenon, <1>7, <2>2, <2>3, ConcatDict
  <2>5. \A k : k \in Range(rest \o new) <=> (k \in Range(t1) /\ k \notin E1) \/ k \in S
    BY Zenon, <1>7, <2>2, <2>4
  <2> QED
    BY Zenon, <1>5, <2>1, <2>4, <2>5
<1>11. Dict(t2') /\ \A k : k \in Range(t2') <=> k \in Range(t2) /\ k \notin E2
  BY Zenon, <1>5, WithoutDict DEF ListsInv
<1>12. /\ Dict(b1') /\ Len(b1') <= NumBlocks
       /\ \A k : k \in Range(b1') =>
              (k \in Range(b1) \/ (k \in Range(t1) /\ k \in E1)) /\ k \notin S
  <2>1. PICK g : g = Ghosts(b1, t1, E1)
    BY Zenon
  <2>2. /\ Dict(g) /\ Len(g) <= NumBlocks
        /\ \A k : k \in Range(g) => k \in Range(b1) \/ (k \in Range(t1) /\ k \in E1)
    BY Zenon, <1>9, <2>1, GhostsDict DEF ListsInv
  <2>3. /\ Dict(b1') /\ Len(b1') <= Len(g)
        /\ \A k : k \in Range(b1') <=> k \in Range(g) /\ k \notin Range(new)
    <3>1. PICK N, x : N = Range(new) /\ x = Without(g, N)
      BY Zenon
    <3>2. /\ Dict(x) /\ Len(x) <= Len(g)
          /\ \A k : k \in Range(x) <=> k \in Range(g) /\ k \notin N
      BY Zenon, <2>2, <3>1, WithoutDict
    <3>3. b1' = x
      BY Zenon, <1>5, <2>1, <3>1
    <3> QED
      BY Zenon, <3>1, <3>2, <3>3
  <2>4. Len(b1') <= NumBlocks
    BY <2>2, <2>3, DictFacts, NumBlocksAssumption
  <2>5. \A k : k \in Range(b1') =>
              (k \in Range(b1) \/ (k \in Range(t1) /\ k \in E1)) /\ k \notin S
    BY Zenon, <1>7, <2>2, <2>3
  <2> QED
    BY Zenon, <2>3, <2>4, <2>5
<1>13. /\ Dict(b2') /\ Len(b2') <= NumBlocks
       /\ \A k : k \in Range(b2') =>
              (k \in Range(b2) \/ (k \in Range(t2) /\ k \in E2)) /\ k \notin S
  <2>1. PICK g : g = Ghosts(b2, t2, E2)
    BY Zenon
  <2>2. /\ Dict(g) /\ Len(g) <= NumBlocks
        /\ \A k : k \in Range(g) => k \in Range(b2) \/ (k \in Range(t2) /\ k \in E2)
    BY Zenon, <1>9, <2>1, GhostsDict DEF ListsInv
  <2>3. /\ Dict(b2') /\ Len(b2') <= Len(g)
        /\ \A k : k \in Range(b2') <=> k \in Range(g) /\ k \notin Range(new)
    <3>1. PICK N, x : N = Range(new) /\ x = Without(g, N)
      BY Zenon
    <3>2. /\ Dict(x) /\ Len(x) <= Len(g)
          /\ \A k : k \in Range(x) <=> k \in Range(g) /\ k \notin N
      BY Zenon, <2>2, <3>1, WithoutDict
    <3>3. b2' = x
      BY Zenon, <1>5, <2>1, <3>1
    <3> QED
      BY Zenon, <3>1, <3>2, <3>3
  <2>4. Len(b2') <= NumBlocks
    BY <2>2, <2>3, DictFacts, NumBlocksAssumption
  <2>5. \A k : k \in Range(b2') =>
              (k \in Range(b2) \/ (k \in Range(t2) /\ k \in E2)) /\ k \notin S
    BY Zenon, <1>7, <2>2, <2>3
  <2> QED
    BY Zenon, <2>3, <2>4, <2>5
<1>14. S \subseteq Keys
  BY Zenon, <1>6, RequestFinite
<1>15. \A k : k \in Cached' <=> k \in S \/ (k \in Cached /\ k \notin E1 /\ k \notin E2)
  <2>1. ASSUME NEW k \in S PROVE blockId'[k] # None
    BY Zenon, <1>2, <1>14, NoneFacts
  <2>2. ASSUME NEW k \in Keys, k \notin S, k \in E1 \/ k \in E2 PROVE blockId'[k] = None
    BY Zenon, <1>2, <1>3, <2>2
  <2>3. ASSUME NEW k \in Keys, k \notin S, k \notin E1, k \notin E2 PROVE blockId'[k] = blockId[k]
    BY Zenon, <1>2, <1>3, <2>3
  <2>4. \A k : (k \in Cached' <=> k \in Keys /\ blockId'[k] # None) /\ (k \in Cached <=> k \in Keys /\ blockId[k] # None)
    BY Zenon DEF Cached
  <2> QED
    BY Zenon, <1>14, <2>1, <2>2, <2>3, <2>4
<1>16. Sorted(Range(t1'), Range(t2'), Range(b1'), Range(b2'), Cached')
  <2>1. /\ \A k : ~(k \in Range(b1) /\ k \in Range(b2))
        /\ \A k : k \in Range(b1) \/ k \in Range(b2) => k \notin Cached
    BY Zenon, <1>8 DEF Sorted
  <2>2. \A k : (k \in E1 => k \in Range(t1)) /\ (k \in E2 => k \in Range(t2))
    BY Zenon, <1>4
  <2>3. ASSUME NEW k PROVE k \in Cached' <=> k \in Range(t1') \/ k \in Range(t2')
    BY Zenon, <1>6, <1>9, <1>10, <1>11, <1>15, <2>2
  <2>4. ASSUME NEW k PROVE ~(k \in Range(t1') /\ k \in Range(t2'))
    BY Zenon, <1>6, <1>9, <1>10, <1>11, <2>2
  <2>5. ASSUME NEW k PROVE ~(k \in Range(b1') /\ k \in Range(b2'))
    BY Zenon, <1>9, <1>12, <1>13, <2>1, <2>2
  <2>6. ASSUME NEW k PROVE k \in Range(b1') \/ k \in Range(b2') => k \notin Cached'
    BY Zenon, <1>9, <1>12, <1>13, <1>15, <2>1, <2>2
  <2> QED
    BY Zenon, <2>3, <2>4, <2>5, <2>6 DEF Sorted
<1>17. FrequentAreReady'
  <2> SUFFICES ASSUME NEW k \in Range(t2') PROVE Ready(k)'
    BY Zenon DEF FrequentAreReady
  <2>1. k \in Range(t2) /\ k \notin E2 /\ k \notin E1 /\ k \notin S /\ k \in Keys
    BY Zenon, <1>4, <1>6, <1>9, <1>11 DEF Cached
  <2>2. refCnt'[k] = refCnt[k]
    BY Zenon, <1>2, <1>3, <2>1
  <2>3. Ready(k)
    BY Zenon, <2>1 DEF ListsInv, FrequentAreReady
  <2> QED
    BY Zenon, <2>2, <2>3 DEF Ready
<1> QED
  BY Zenon, <1>10, <1>11, <1>12, <1>13, <1>16, <1>17, SortedPrimed DEF ListsInv

LEMMA FailStoreLists ==
  ASSUME PoolInv, ListsInv, NEW j \in Jobs, FailStore(j)
  PROVE  ListsInv'
<1> DEFINE F == Unfinished(j)
<1>1. /\ t1' = Without(t1, F) /\ t2' = Without(t2, F) /\ b1' = b1 /\ b2' = b2
      /\ refCnt' = [k \in Keys |-> IF k \in F THEN None ELSE refCnt[k]]
      /\ blockId' = [k \in Keys |-> IF k \in F THEN None ELSE blockId[k]]
  BY Zenon DEF FailStore
<1> HIDE DEF F
<1>2. Sorted(Range(t1), Range(t2), Range(b1), Range(b2), Cached)
  BY Zenon, SortedLists DEF ListsInv
<1>3. Dict(t1') /\ \A k : k \in Range(t1') <=> k \in Range(t1) /\ k \notin F
  BY Zenon, <1>1, WithoutDict DEF ListsInv
<1>4. Dict(t2') /\ \A k : k \in Range(t2') <=> k \in Range(t2) /\ k \notin F
  BY Zenon, <1>1, WithoutDict DEF ListsInv
<1>5. \A k : k \in Cached' <=> k \in Cached /\ k \notin F
  BY Zenon, <1>1 DEF Cached
<1>6. Sorted(Range(t1'), Range(t2'), Range(b1'), Range(b2'), Cached')
  BY Zenon, <1>1, <1>2, <1>3, <1>4, <1>5 DEF Sorted
<1>7. FrequentAreReady'
  <2> SUFFICES ASSUME NEW k \in Range(t2') PROVE Ready(k)'
    BY Zenon DEF FrequentAreReady
  <2>1. k \in Range(t2) /\ k \notin F /\ k \in Keys
    BY Zenon, <1>4, DictFacts DEF ListsInv
  <2>2. refCnt'[k] = refCnt[k]
    BY Zenon, <1>1, <2>1
  <2>3. Ready(k)
    BY Zenon, <2>1 DEF ListsInv, FrequentAreReady
  <2> QED
    BY Zenon, <2>2, <2>3 DEF Ready
<1> QED
  BY Zenon, <1>1, <1>3, <1>4, <1>6, <1>7, SortedPrimed DEF ListsInv

\* Loads, and stores that succeed, leave the lists alone and a ready block ready.
LEMMA ReadyKept ==
  ASSUME PoolInv, NEW j \in Jobs,
         (\E K \in SUBSET Keys : PrepareLoad(j, K)) \/ CompleteLoad(j) \/ CompleteStore(j)
  PROVE  UNCHANGED lists /\ Cached' = Cached /\ \A k \in Keys : Ready(k) => Ready(k)'
<1>1. UNCHANGED lists /\ Cached' = Cached
  <2>1. UNCHANGED lists /\ UNCHANGED blockId
    BY Zenon DEF PrepareLoad, CompleteLoad, CompleteStore
  <2> QED
    BY Zenon, <2>1 DEF Cached
<1>2. ASSUME NEW k \in Keys, Ready(k) PROVE Ready(k)'
  <2>1. refCnt[k] \in Nat
    BY <1>2 DEF PoolInv, PoolTyped, Ready
  <2>2. CASE \E K \in SUBSET Keys : PrepareLoad(j, K)
    <3>1. refCnt'[k] = refCnt[k] + 1 \/ refCnt'[k] = refCnt[k]
      BY Zenon, <2>2 DEF PrepareLoad
    <3> QED
      BY <2>1, <3>1, NoneFacts DEF Ready
  <2>3. CASE CompleteLoad(j)
    <3>1. CASE k \in JobKeys(j)
      <4>1. refCnt[k] \in Nat \ {0}
        BY Zenon, <2>3, <3>1, JobKeysCached DEF CompleteLoad
      <4>2. refCnt'[k] = refCnt[k] - 1
        BY Zenon, <2>3, <3>1 DEF CompleteLoad
      <4> QED
        BY <4>1, <4>2, NoneFacts DEF Ready
    <3>2. CASE k \notin JobKeys(j)
      <4>1. refCnt'[k] = refCnt[k]
        BY Zenon, <2>3, <3>2 DEF CompleteLoad
      <4> QED
        BY Zenon, <1>2, <4>1 DEF Ready
    <3> QED
      BY Zenon, <3>1, <3>2
  <2>4. CASE CompleteStore(j)
    <3>1. refCnt'[k] = 0 \/ refCnt'[k] = refCnt[k]
      BY Zenon, <2>4 DEF CompleteStore
    <3> QED
      BY <2>1, <3>1, NoneFacts DEF Ready
  <2> QED
    BY Zenon, <2>2, <2>3, <2>4
<1> QED
  BY Zenon, <1>1, <1>2

LEMMA EmptyLists ==
  ASSUME NEW list, list = <<>>
  PROVE  Dict(list) /\ Len(list) = 0 /\ \A k : k \notin Range(list)
  BY DEF Dict, IsInjective, Range

LEMMA InitLists == Init => ListsInv
<1> SUFFICES ASSUME Init PROVE ListsInv
  OBVIOUS
<1>1. t1 = <<>> /\ t2 = <<>> /\ b1 = <<>> /\ b2 = <<>>
  BY Zenon DEF Init
<1>2. \A k : k \notin Cached
  BY Zenon DEF Init, Cached
<1>3. Sorted(Range(t1), Range(t2), Range(b1), Range(b2), Cached) /\ FrequentAreReady
  BY Zenon, <1>1, <1>2, EmptyLists DEF Sorted, FrequentAreReady
<1>4. Len(b1) <= NumBlocks /\ Len(b2) <= NumBlocks
  BY <1>1, NumBlocksAssumption
<1> QED
  BY Zenon, <1>1, <1>3, <1>4, EmptyLists, SortedLists DEF ListsInv

LEMMA ResetLists == ResetCache => ListsInv'
<1> SUFFICES ASSUME ResetCache PROVE ListsInv'
  OBVIOUS
<1>1. t1' = <<>> /\ t2' = <<>> /\ b1' = <<>> /\ b2' = <<>>
  BY Zenon DEF ResetCache
<1>2. \A k : k \notin Cached'
  BY Zenon DEF ResetCache, Cached
<1>3. Sorted(Range(t1'), Range(t2'), Range(b1'), Range(b2'), Cached') /\ FrequentAreReady'
  BY Zenon, <1>1, <1>2, EmptyLists DEF Sorted, FrequentAreReady
<1>4. Len(b1') <= NumBlocks /\ Len(b2') <= NumBlocks
  BY <1>1, NumBlocksAssumption
<1> QED
  BY Zenon, <1>1, <1>3, <1>4, EmptyLists, SortedPrimed DEF ListsInv

LEMMA NextLists == PoolInv /\ ListsInv /\ [Next]_vars => ListsInv'
<1> SUFFICES ASSUME PoolInv, ListsInv, [Next]_vars PROVE ListsInv'
  OBVIOUS
<1>1. ASSUME NEW k \in Keys, Lookup(k) PROVE ListsInv'
  <2>1. UNCHANGED lists /\ Cached' = Cached /\ \A x \in Keys : Ready(x) => Ready(x)'
    BY Zenon, <1>1 DEF Lookup, pool, Cached, Ready
  <2> QED
    BY Zenon, <2>1, ListsFrame
<1>2. ASSUME NEW k \in Keys, Touch(k) PROVE ListsInv'
  BY Zenon, <1>2, TouchLists
<1>3. ASSUME NEW j \in Jobs,
             (\E K \in SUBSET Keys : PrepareLoad(j, K)) \/ CompleteLoad(j) \/ CompleteStore(j)
      PROVE  ListsInv'
  BY Zenon, <1>3, ReadyKept, ListsFrame
<1>4. ASSUME NEW j \in Jobs, NEW keys \in Requests, PrepareStore(j, keys) PROVE ListsInv'
  BY Zenon, <1>4, PrepareStoreLists
<1>5. ASSUME NEW j \in Jobs, FailStore(j) PROVE ListsInv'
  BY Zenon, <1>5, FailStoreLists
<1>6. CASE ResetCache
  BY Zenon, <1>6, ResetLists
<1>7. CASE UNCHANGED vars
  <2>1. UNCHANGED lists /\ Cached' = Cached /\ \A x \in Keys : Ready(x) => Ready(x)'
    BY Zenon, <1>7 DEF vars, pool, Cached, Ready
  <2> QED
    BY Zenon, <2>1, ListsFrame
<1> QED
  BY Zenon, <1>1, <1>2, <1>3, <1>4, <1>5, <1>6, <1>7 DEF Next

-----------------------------------------------------------------------------
(***************************************************************************)
(* The adaptive target, the counts of lookup and the contents.             *)
(***************************************************************************)
\* The target moves by at least 1 and stays within the capacity.
LEMMA TargetStep ==
  ASSUME TargetInv, ListsInv, [Next]_vars
  PROVE  TargetInv'
<1>1. PICK M \in Nat : M = Scale * NumBlocks
  BY ScaleAssumption, NumBlocksAssumption
<1>2. target \in 0 .. M
  BY Zenon, <1>1 DEF TargetInv
<1>3. ASSUME NEW x, NEW y, Dict(x), Dict(y), NEW k \in Range(y) PROVE Delta(x, y) \in Nat
  <2>1. Len(x) \in Nat /\ Len(y) \in Nat \ {0}
    BY <1>3, DictFacts DEF Range
  <2>2. PICK m \in Nat : m = Scale * Len(x)
    BY <2>1, ScaleAssumption
  <2>3. m \div Len(y) \in Int
    BY <2>1, <2>2
  <2> QED
    BY <2>2, <2>3, ScaleAssumption DEF Delta, Most
<1>4. Dict(b1) /\ Dict(b2)
  BY Zenon DEF ListsInv
<1>5. ASSUME NEW k \in Keys, TouchB1(k) PROVE target' \in 0 .. M
  <2>1. Delta(b2, b1) \in Nat /\ target' = Least(target + Delta(b2, b1), M)
    BY Zenon, <1>1, <1>3, <1>4, <1>5 DEF TouchB1
  <2> QED
    BY <1>2, <2>1 DEF Least
<1>6. ASSUME NEW k \in Keys, TouchB2(k) PROVE target' \in 0 .. M
  <2>1. Delta(b1, b2) \in Nat /\ target' = Most(target - Delta(b1, b2), 0)
    BY Zenon, <1>3, <1>4, <1>6 DEF TouchB2
  <2> QED
    BY <1>2, <2>1 DEF Most
<1>7. target' = target \/ target' = 0 \/ \E k \in Keys : TouchB1(k) \/ TouchB2(k)
  <2>1. ASSUME NEW k \in Keys, Lookup(k) PROVE target' = target
    BY Zenon, <2>1 DEF Lookup, lists
  <2>2. ASSUME NEW k \in Keys, Touch(k), ~TouchB1(k), ~TouchB2(k) PROVE target' = target
    BY Zenon, <2>2 DEF Touch, TouchT1, TouchT2
  <2>3. ASSUME NEW j \in Jobs, NEW K \in SUBSET Keys, PrepareLoad(j, K) PROVE target' = target
    BY Zenon, <2>3 DEF PrepareLoad, lists
  <2>4. ASSUME NEW j \in Jobs, CompleteLoad(j) \/ CompleteStore(j) PROVE target' = target
    BY Zenon, <2>4 DEF CompleteLoad, CompleteStore, lists
  <2>5. ASSUME NEW j \in Jobs, NEW keys \in Requests, PrepareStore(j, keys) PROVE target' = target
    BY Zenon, <2>5 DEF PrepareStore, EvictAndInsert
  <2>6. ASSUME NEW j \in Jobs, FailStore(j) PROVE target' = target
    BY Zenon, <2>6 DEF FailStore
  <2>7. ASSUME ResetCache PROVE target' = 0
    BY Zenon, <2>7 DEF ResetCache
  <2>8. ASSUME UNCHANGED vars PROVE target' = target
    BY Zenon, <2>8 DEF vars, lists
  <2> QED
    BY Zenon, <2>1, <2>2, <2>3, <2>4, <2>5, <2>6, <2>7, <2>8 DEF Next
<1>8. target' \in 0 .. M
  <2>1. 0 \in 0 .. M
    OBVIOUS
  <2> QED
    BY Zenon, <1>2, <1>5, <1>6, <1>7, <2>1
<1> QED
  BY Zenon, <1>1, <1>8 DEF TargetInv

\* counts keeps MaxTrackerSize keys at most.
LEMMA LookupTracker ==
  ASSUME TrackerInv, NEW k \in Keys, Lookup(k)
  PROVE  TrackerInv'
<1>1. PICK m \in Nat : m = Most(1, StoreThreshold) /\ 1 <= m /\ StoreThreshold <= m
  BY TrackerAssumption DEF Most
<1>2. Dict(tracked) /\ Len(tracked) <= MaxTrackerSize /\ count \in [Keys -> 0 .. m]
  BY Zenon, <1>1 DEF TrackerInv
<1>3. Len(tracked) \in Nat
  BY Zenon, <1>2, DictFacts
<1>4. CASE LookupTracked(k)
  <2>1. /\ k \in Range(tracked) /\ tracked' = MoveToEnd(tracked, k)
        /\ count' = [count EXCEPT ![k] = Least(count[k] + 1, StoreThreshold)]
    BY Zenon, <1>4 DEF LookupTracked
  <2>2. Dict(tracked') /\ Len(tracked') = Len(tracked)
    BY Zenon, <1>2, <2>1, MoveDict
  <2>3. Least(count[k] + 1, StoreThreshold) \in 0 .. m
    BY <1>1, <1>2, TrackerAssumption DEF Least
  <2>4. count' \in [Keys -> 0 .. m]
    BY Zenon, <1>2, <2>1, <2>3
  <2> QED
    BY Zenon, <1>1, <1>2, <2>2, <2>4 DEF TrackerInv
<1>5. CASE LookupNew(k)
  <2>1. PICK kept : /\ kept = (IF Len(tracked) >= MaxTrackerSize THEN Tail(tracked) ELSE tracked)
                    /\ tracked' = Append(kept, k)
                    /\ count' = [j \in Keys |-> IF j = k THEN 1
                                                ELSE IF j \in Range(kept) THEN count[j] ELSE 0]
    BY Zenon, <1>5 DEF LookupNew
  <2>2. /\ Dict(kept) /\ Len(kept) + 1 <= MaxTrackerSize
        /\ \A x : x \in Range(kept) => x \in Range(tracked)
    <3>1. CASE Len(tracked) >= MaxTrackerSize
      <4>1. 2 \in 1 .. Len(tracked) + 1
        BY <1>3, <3>1, TrackerAssumption
      <4>2. kept = SubSeq(tracked, 2, Len(tracked))
        BY <1>2, <1>3, <2>1, <3>1, <4>1 DEF Dict
      <4>3. PICK a \in 1 .. Len(tracked) + 1 : a = 2
        BY Zenon, <4>1
      <4>4. /\ Dict(SubSeq(tracked, a, Len(tracked)))
            /\ Len(SubSeq(tracked, a, Len(tracked))) = Len(tracked) - a + 1
            /\ \A x : x \in Range(SubSeq(tracked, a, Len(tracked))) => x \in Range(tracked)
        BY Zenon, <1>2, PartDict
      <4>5. Len(tracked) - a + 1 + 1 <= MaxTrackerSize
        BY <1>2, <1>3, <4>3, TrackerAssumption
      <4> QED
        BY Zenon, <4>2, <4>3, <4>4, <4>5
    <3>2. CASE ~(Len(tracked) >= MaxTrackerSize)
      <4>1. kept = tracked
        BY Zenon, <2>1, <3>2
      <4>2. Len(tracked) + 1 <= MaxTrackerSize
        BY <1>3, <3>2, TrackerAssumption
      <4> QED
        BY Zenon, <1>2, <4>1, <4>2
    <3> QED
      BY Zenon, <3>1, <3>2
  <2>3. k \notin Range(kept)
    BY Zenon, <1>5, <2>2 DEF LookupNew
  <2>4. Dict(tracked') /\ Len(tracked') = Len(kept) + 1
    BY Zenon, <2>1, <2>2, <2>3, AppendDict
  <2>5. 0 \in 0 .. m /\ 1 \in 0 .. m
    BY <1>1
  <2>6. \A j \in Keys : count[j] \in 0 .. m
    BY Zenon, <1>2
  <2>7. count' \in [Keys -> 0 .. m]
    BY <2>1, <2>5, <2>6
  <2> QED
    BY Zenon, <1>1, <2>2, <2>4, <2>7 DEF TrackerInv
<1> QED
  BY Zenon, <1>4, <1>5 DEF Lookup

LEMMA TrackerStep ==
  ASSUME TrackerInv, [Next]_vars
  PROVE  TrackerInv'
<1>1. (\E k \in Keys : Lookup(k)) \/ UNCHANGED tracker
  <2>1. ASSUME NEW k \in Keys, Touch(k) PROVE UNCHANGED tracker
    BY Zenon, <2>1 DEF Touch
  <2>2. ASSUME NEW j \in Jobs, NEW K \in SUBSET Keys, PrepareLoad(j, K) PROVE UNCHANGED tracker
    BY Zenon, <2>2 DEF PrepareLoad
  <2>3. ASSUME NEW j \in Jobs, CompleteLoad(j) \/ CompleteStore(j) \/ FailStore(j)
        PROVE  UNCHANGED tracker
    BY Zenon, <2>3 DEF CompleteLoad, CompleteStore, FailStore
  <2>4. ASSUME NEW j \in Jobs, NEW keys \in Requests, PrepareStore(j, keys)
        PROVE  UNCHANGED tracker
    BY Zenon, <2>4 DEF PrepareStore
  <2>5. ASSUME ResetCache PROVE UNCHANGED tracker
    BY Zenon, <2>5 DEF ResetCache
  <2>6. ASSUME UNCHANGED vars PROVE UNCHANGED tracker
    BY Zenon, <2>6 DEF vars
  <2> QED
    BY Zenon, <2>1, <2>2, <2>3, <2>4, <2>5, <2>6 DEF Next
<1>2. ASSUME UNCHANGED tracker PROVE TrackerInv'
  <2>1. tracked' = tracked /\ count' = count
    BY Zenon, <1>2 DEF tracker
  <2> QED
    BY Zenon, <2>1 DEF TrackerInv
<1> QED
  BY Zenon, <1>1, <1>2, LookupTracker

LEMMA DataStep ==
  ASSUME DataInv, [Next]_vars
  PROVE  DataInv'
<1>1. ASSUME policy' = policy, data' = data PROVE DataInv'
  BY Zenon, <1>1 DEF DataInv
<1>2. ASSUME NEW k \in Keys, Lookup(k) \/ Touch(k) PROVE DataInv'
  BY Zenon, <1>1, <1>2 DEF Lookup, Touch
<1>3. ASSUME NEW j \in Jobs, NEW K \in SUBSET Keys, PrepareLoad(j, K) PROVE DataInv'
  BY Zenon, <1>1, <1>3 DEF PrepareLoad
<1>4. ASSUME NEW j \in Jobs, CompleteLoad(j) \/ FailStore(j) PROVE DataInv'
  BY Zenon, <1>1, <1>4 DEF CompleteLoad, FailStore
<1>5. ASSUME NEW j \in Jobs, NEW keys \in Requests, PrepareStore(j, keys) PROVE DataInv'
  <2>1. policy' = policy /\ \E R : data' = [i \in Ids |-> IF i \in R THEN None ELSE data[i]]
    BY Zenon, <1>5 DEF PrepareStore
  <2> QED
    BY <2>1 DEF DataInv
<1>6. ASSUME NEW j \in Jobs, CompleteStore(j) PROVE DataInv'
  <2>1. /\ policy' = policy
        /\ data' = [i \in Ids |-> IF \E k \in JobKeys(j) : jobIds[j][k] = i
                                  THEN CHOOSE k \in JobKeys(j) : jobIds[j][k] = i
                                  ELSE data[i]]
    BY Zenon, <1>6 DEF CompleteStore
  <2>2. ASSUME NEW i \in Ids, \E k \in JobKeys(j) : jobIds[j][k] = i
        PROVE  (CHOOSE k \in JobKeys(j) : jobIds[j][k] = i) \in Keys
    BY Zenon, <2>2 DEF JobKeys
  <2>3. ASSUME NEW i \in Ids PROVE data'[i] \in {None} \cup Keys
    BY Zenon, <2>1, <2>2 DEF DataInv
  <2>4. data' \in [Ids -> {None} \cup Keys]
    BY Zenon, <2>1, <2>3
  <2> QED
    BY Zenon, <2>1, <2>4 DEF DataInv
<1>7. ASSUME ResetCache PROVE DataInv'
  BY Zenon, <1>7 DEF ResetCache, DataInv
<1>8. ASSUME UNCHANGED vars PROVE DataInv'
  BY Zenon, <1>1, <1>8 DEF vars
<1> QED
  BY Zenon, <1>2, <1>3, <1>4, <1>5, <1>6, <1>7, <1>8 DEF Next

LEMMA InitData == Init => TargetInv /\ TrackerInv /\ DataInv
<1> SUFFICES ASSUME Init PROVE TargetInv /\ TrackerInv /\ DataInv
  OBVIOUS
<1>1. Scale * NumBlocks \in Nat
  BY ScaleAssumption, NumBlocksAssumption
<1>2. TargetInv
  BY <1>1 DEF Init, TargetInv
<1>3. Dict(tracked) /\ Len(tracked) = 0
  BY Zenon, EmptyLists DEF Init
<1>4. Most(1, StoreThreshold) \in Nat
  BY TrackerAssumption DEF Most
<1>5. count \in [Keys -> 0 .. Most(1, StoreThreshold)]
  BY <1>4 DEF Init
<1>6. Len(tracked) <= MaxTrackerSize
  BY <1>3, TrackerAssumption
<1>7. DataInv
  BY Zenon DEF Init, DataInv
<1> QED
  BY Zenon, <1>2, <1>3, <1>5, <1>6, <1>7 DEF TrackerInv

\* The inductive invariant of the whole manager.
ManagerInv == PoolInv /\ ListsInv /\ TargetInv /\ TrackerInv /\ DataInv
LEMMA ManagerInvariant == Spec => []ManagerInv
<1>1. Init => ManagerInv
  BY Zenon, InitPool, InitLists, InitData DEF ManagerInv
<1>2. ManagerInv /\ [Next]_vars => ManagerInv'
  BY Zenon, NextPool, NextLists, TargetStep, TrackerStep, DataStep DEF ManagerInv
<1> QED
  BY <1>1, <1>2, PTL DEF Spec

\* No key is in two lists of the policy, T1 and T2 hold exactly the cached keys and no ghost
\* is a block: after any touch, eviction, insert, failed store and reset, for either policy.
THEOREM ListsCorrect == Spec => []ListsConsistent
<1>1. ManagerInv => ListsConsistent
  BY Zenon DEF ManagerInv, ListsInv
<1> QED
  BY <1>1, ManagerInvariant, PTL

\* touch never makes a block frequent that is still being written: what ARC holds in T2 is
\* ready, through every interleaving of touches, loads and stores.
THEOREM FrequentReady == Spec => []FrequentAreReady
<1>1. ManagerInv => FrequentAreReady
  BY Zenon DEF ManagerInv, ListsInv
<1> QED
  BY <1>1, ManagerInvariant, PTL

\* The target of ARC, the ghost lists, the lookup counts and the reference counts stay within
\* their bounds, and every slot id within the pool.
THEOREM ManagerTyped == Spec => []OffloadTypeOK
<1>1. ASSUME ManagerInv PROVE OffloadTypeOK
  <2>1. ASSUME NEW list, Dict(list) PROVE IsList(list)
    BY Zenon, <2>1, DictFacts DEF IsList, Dict
  <2>2. \A list \in {t1, t2, b1, b2, tracked} : IsList(list)
    BY Zenon, <1>1, <2>1 DEF ManagerInv, ListsInv, TrackerInv
  <2>3. ASSUME NEW k \in Keys PROVE refCnt[k] \in {None, -1} \cup (0 .. Cardinality(Jobs))
    <3>1. refCnt[k] \in {None, -1} \cup Nat
      BY Zenon, <1>1 DEF ManagerInv, PoolInv, PoolTyped
    <3>2. ASSUME refCnt[k] \in Nat PROVE refCnt[k] \in 0 .. Cardinality(Jobs)
      <4>1. k \in Cached
        BY Zenon, <1>1, <3>2, NoneFacts DEF ManagerInv, PoolInv, BlockAccounting, Cached
      <4>2. Cardinality(Using(k, "load")) = IF refCnt[k] = -1 THEN 0 ELSE refCnt[k]
        BY Zenon, <1>1, <4>1 DEF ManagerInv, PoolInv, RefCountExact
      <4>3. Using(k, "load") \subseteq Jobs
        BY Zenon DEF Using
      <4>4. Cardinality(Using(k, "load")) <= Cardinality(Jobs) /\ Cardinality(Jobs) \in Nat
        BY Zenon, <4>3, JobsAssumption, FS_Subset, FS_CardinalityType
      <4> QED
        BY <3>2, <4>2, <4>4
    <3> QED
      BY Zenon, <3>1, <3>2
  <2>4. DOMAIN refCnt = Keys /\ refCnt = [k \in Keys |-> refCnt[k]]
    BY Zenon, <1>1 DEF ManagerInv, PoolInv, PoolTyped
  <2>5. refCnt \in [Keys -> {None, -1} \cup (0 .. Cardinality(Jobs))]
    BY Zenon, <2>3, <2>4
  <2> QED
    BY Zenon, <1>1, <2>2, <2>5 DEF OffloadTypeOK, ManagerInv, PoolInv, PoolTyped, Slots,
         ListsInv, TargetInv, TrackerInv, DataInv
<1> QED
  BY <1>1, ManagerInvariant, PTL
=============================================================================
