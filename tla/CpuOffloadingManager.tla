------------------------ MODULE CpuOffloadingManager ------------------------
(***************************************************************************)
(* CPUOffloadingManager of v1/kv_offload/cpu/manager.py with its two cache *)
(* policies, policies/lru.py and policies/arc.py: which KV blocks are kept *)
(* in the CPU pool, in which slot, and which of them may be evicted.       *)
(*                                                                         *)
(* The manager runs in the scheduler and every call is one step.  Copies   *)
(* run in workers: prepare_load and prepare_store hand slot ids to a job,  *)
(* complete_load and complete_store follow when the job ends, in any order *)
(* with other calls.                                                       *)
(*                                                                         *)
(* The LRU policy's `blocks' is t1 with the other three lists empty.  The  *)
(* dicts t1 and t2 hold BlockStatus objects; here the lists hold the keys  *)
(* and the two fields are the functions refCnt and blockId.                *)
(***************************************************************************)
EXTENDS Integers, FiniteSets, Sequences, Functions

CONSTANTS
    Keys,            \* offload keys
    Jobs,            \* names of transfer jobs; bounds how many are in flight
    NumBlocks,       \* num_blocks, which is also the policy's cache_capacity
    StoreThreshold,  \* store_threshold
    MaxTrackerSize,  \* max_tracker_size
    Scale,           \* target_t1_size is kept in units of 1/Scale
    MaxRequest,      \* bound: keys in one prepare_store
    None

ASSUME NumBlocksAssumption == NumBlocks \in Nat \ {0}
ASSUME JobsAssumption == IsFiniteSet(Jobs)
ASSUME TrackerAssumption == StoreThreshold \in Nat /\ MaxTrackerSize \in Nat \ {0}
ASSUME ScaleAssumption == Scale \in Nat \ {0}
ASSUME NoneIsNoNumber == None \notin Int

VARIABLES
    policy,          \* "lru" or "arc": cache_policy
    t1, t2, b1, b2,  \* the policy's OrderedDicts, oldest first
    target,          \* target_t1_size * Scale
    refCnt,          \* BlockStatus.ref_cnt of a cached key, None of any other
    blockId,         \* BlockStatus.block_id of a cached key, None of any other
    freeList,        \* _free_list
    numAllocated,    \* _num_allocated_blocks
    tracked,         \* the keys of counts, oldest first
    count,           \* the values of counts, capped at StoreThreshold; 0 if absent
    jobOp,           \* what a transfer job does: "load", "store" or "idle"
    jobIds,          \* its LoadStoreSpec: the slot of each of its keys
    data             \* the key whose KV a CPU slot holds, None while undefined

lists == <<t1, t2, b1, b2, target>>
pool == <<refCnt, blockId, freeList, numAllocated>>
tracker == <<tracked, count>>
jobs == <<jobOp, jobIds>>
vars == <<policy, lists, pool, tracker, jobs, data>>

Ids == 0 .. NumBlocks - 1
Least(m, n) == IF m <= n THEN m ELSE n
Most(m, n) == IF m >= n THEN m ELSE n

\* OrderedDict operations on the sequence of keys.
Only(list, S) ==
    LET at == {i \in DOMAIN list : list[i] \in S} IN
    [n \in 1 .. Cardinality(at) |->
        list[CHOOSE i \in at : Cardinality({j \in at : j <= i}) = n]]
Without(list, S) == Only(list, Range(list) \ S)
MoveToEnd(list, k) == Append(Without(list, {k}), k)
NewestOf(list, n) == SubSeq(list, Most(1, Len(list) - n + 1), Len(list))

\* Defect: a block counts as ready as soon as it has a slot.
ReadyOnceCached(k) == refCnt[k] # None
\* _policy.get(key) is not None, and BlockStatus.is_ready.
Cached == {k \in Keys : blockId[k] # None}
Ready(k) == refCnt[k] # None /\ refCnt[k] >= 0

Init ==
    /\ policy \in {"lru", "arc"}
    /\ t1 = <<>> /\ t2 = <<>> /\ b1 = <<>> /\ b2 = <<>> /\ target = 0
    /\ refCnt = [k \in Keys |-> None]
    /\ blockId = [k \in Keys |-> None]
    /\ freeList = {} /\ numAllocated = 0
    /\ tracked = <<>> /\ count = [k \in Keys |-> 0]
    /\ jobOp = [j \in Jobs |-> "idle"]
    /\ jobIds = [j \in Jobs |-> [k \in Keys |-> None]]
    /\ data = [i \in Ids |-> None]

-----------------------------------------------------------------------------
(* lookup and touch *)

\* lookup changes state only through counts; its answer is Cached and Ready.
LookupTracked(k) ==
    /\ k \in Range(tracked)
    /\ tracked' = MoveToEnd(tracked, k)
    /\ count' = [count EXCEPT ![k] = Least(@ + 1, StoreThreshold)]

LookupNew(k) ==
    /\ k \notin Range(tracked)
    /\ LET kept == IF Len(tracked) >= MaxTrackerSize THEN Tail(tracked) ELSE tracked IN
       /\ tracked' = Append(kept, k)
       /\ count' = [j \in Keys |-> IF j = k THEN 1
                                   ELSE IF j \in Range(kept) THEN count[j] ELSE 0]

Lookup(k) ==
    /\ StoreThreshold >= 2
    /\ LookupTracked(k) \/ LookupNew(k)
    /\ UNCHANGED <<policy, lists, pool, jobs, data>>

\* Defect: a block that is being written is promoted too.
PromotedUnready(k) == policy = "arc"
\* Whether touch moves the key from T1 to T2.
Promoted(k) == policy = "arc" /\ Ready(k)

TouchT1(k) ==
    /\ k \in Range(t1)
    /\ IF Promoted(k)
       THEN t1' = Without(t1, {k}) /\ t2' = Append(t2, k)
       ELSE t1' = MoveToEnd(t1, k) /\ t2' = t2
    /\ UNCHANGED <<b1, b2, target>>

TouchT2(k) ==
    /\ k \in Range(t2)
    /\ t2' = MoveToEnd(t2, k)
    /\ UNCHANGED <<t1, b1, b2, target>>

\* len(x) / len(y), at least 1.  Exact when the length of y divides Scale * len(x).
Delta(x, y) == Most(Scale, (Scale * Len(x)) \div Len(y))

\* Defect: the target is not capped at the capacity.
TouchB1Uncapped(k) ==
    /\ k \in Range(b1)
    /\ target' = target + Delta(b2, b1)
    /\ b1' = MoveToEnd(b1, k)
    /\ UNCHANGED <<t1, t2, b2>>

TouchB1(k) ==
    /\ k \in Range(b1)
    /\ target' = Least(target + Delta(b2, b1), Scale * NumBlocks)
    /\ b1' = MoveToEnd(b1, k)
    /\ UNCHANGED <<t1, t2, b2>>

TouchB2(k) ==
    /\ k \in Range(b2)
    /\ target' = Most(target - Delta(b1, b2), 0)
    /\ b2' = MoveToEnd(b2, k)
    /\ UNCHANGED <<t1, t2, b1>>

\* touch visits its keys one by one: a call with several is as many steps.
Touch(k) ==
    /\ TouchT1(k) \/ TouchT2(k) \/ TouchB1(k) \/ TouchB2(k)
    /\ UNCHANGED <<policy, pool, tracker, jobs, data>>

-----------------------------------------------------------------------------
(* Loads *)

\* The connector loads keys whose lookup, in the same scheduling step, was True.
PrepareLoad(j, K) ==
    /\ jobOp[j] = "idle" /\ K # {}
    /\ \A k \in K : Ready(k)
    /\ refCnt' = [k \in Keys |-> IF k \in K THEN refCnt[k] + 1 ELSE refCnt[k]]
    /\ jobOp' = [jobOp EXCEPT ![j] = "load"]
    /\ jobIds' = [jobIds EXCEPT ![j] = [k \in Keys |-> IF k \in K THEN blockId[k] ELSE None]]
    /\ UNCHANGED <<policy, lists, blockId, freeList, numAllocated, tracker, data>>

JobKeys(j) == {k \in Keys : jobIds[j][k] # None}

EndJob(j) ==
    /\ jobOp' = [jobOp EXCEPT ![j] = "idle"]
    /\ jobIds' = [jobIds EXCEPT ![j] = [k \in Keys |-> None]]

CompleteLoad(j) ==
    /\ jobOp[j] = "load"
    /\ refCnt' = [k \in Keys |-> IF k \in JobKeys(j) THEN refCnt[k] - 1 ELSE refCnt[k]]
    /\ EndJob(j)
    /\ UNCHANGED <<policy, lists, blockId, freeList, numAllocated, tracker, data>>

-----------------------------------------------------------------------------
(* Stores *)

\* Defect: blocks in use are candidates.
EvictableInUse(list, protected) == Range(list) \ protected
\* Both policies' eviction candidates: no reader, not being written, not protected.
Evictable(list, protected) == {k \in Keys \ protected : k \in Range(list) /\ refCnt[k] = 0}

\* The first n keys of C in the order of the list; no set when C has fewer.
Oldest(list, C, n) ==
    {E \in SUBSET C :
        /\ Cardinality(E) = n
        /\ \A i, j \in DOMAIN list : list[i] \in E /\ list[j] \in C \ E => i < j}

\* How many of n evictions the loop of ARCCachePolicy.evict takes from T1: it goes
\* on while virtual_t1_size >= int(target_t1_size) and T1 has a candidate, and
\* once it has turned to T2 virtual_t1_size no longer changes.
FromT1(n, protected) ==
    IF policy = "lru" THEN n
    ELSE Least(n, Least(Cardinality(Evictable(t1, protected)),
                        Most(0, Len(t1) - (target \div Scale) + 1)))

\* evict: what it may return, as the keys taken from T1 and those taken from T2.
\* There is no such pair when it returns None.
Evictions(n, protected) ==
    LET m == FromT1(n, protected) IN
    UNION {{<<E1, E2>> : E2 \in Oldest(t2, Evictable(t2, protected) \ E1, n - m)} :
               E1 \in Oldest(t1, Evictable(t1, protected), m)}

\* A ghost list after the evicted keys of a list are appended and it is trimmed.
Ghosts(ghost, list, E) ==
    IF policy = "lru" THEN ghost
    ELSE NewestOf(ghost \o Only(list, E), NumBlocks)

\* Defect: insert leaves the key in the ghost lists.
InsertKeepsGhosts(E1, E2, new) ==
    /\ t1' = Without(t1, E1) \o new
    /\ t2' = Without(t2, E2)
    /\ b1' = Ghosts(b1, t1, E1)
    /\ b2' = Ghosts(b2, t2, E2)
    /\ UNCHANGED target
\* The policy's lists after evict, then insert of the new keys.
EvictAndInsert(E1, E2, new) ==
    /\ t1' = Without(t1, E1) \o new
    /\ t2' = Without(t2, E2)
    /\ b1' = Without(Ghosts(b1, t1, E1), Range(new))
    /\ b2' = Without(Ghosts(b2, t2, E2), Range(new))
    /\ UNCHANGED target

\* Defect: the free list is not counted.
NumUnused == NumBlocks - numAllocated
NumFree == Cardinality(freeList) + NumBlocks - numAllocated

NumFresh(n) == Least(n, NumBlocks - numAllocated)

\* Defect: reused slots stay on the free list.
AllocateKeepsFree(S, free, slot) ==
    LET fresh == NumFresh(Cardinality(S)) IN
    /\ slot \in Injection(S, (numAllocated .. numAllocated + fresh - 1) \cup free)
    /\ freeList' = free
    /\ numAllocated' = numAllocated + fresh
\* _allocate_blocks on the free list `free': slots never used so far, in order, and
\* then slots of the free list.  Which key gets which slot is left open.
Allocate(S, free, slot) ==
    LET fresh == NumFresh(Cardinality(S))
        reused == Range(slot) \cap free IN
    /\ slot \in Injection(S, (numAllocated .. numAllocated + fresh - 1) \cup free)
    /\ Cardinality(reused) = Cardinality(S) - fresh
    /\ freeList' = free \ reused
    /\ numAllocated' = numAllocated + fresh

\* Requests: lists of distinct keys.
Requests == UNION {Injection(1 .. n, Keys) : n \in 1 .. MaxRequest}

\* The keys prepare_store goes on with once counts has filtered its input.
Wanted(keys) == {k \in Range(keys) : StoreThreshold < 2 \/ count[k] >= StoreThreshold}

NumToEvict(S) == Most(0, Cardinality(S) - NumFree)

\* prepare_store where it stores something.  When there is nothing to store, or
\* evict returns None, it changes nothing.
PrepareStore(j, keys) ==
    LET S == Wanted(keys) \ Cached IN
    /\ jobOp[j] = "idle" /\ S # {}
    /\ \E ev \in Evictions(NumToEvict(S), Wanted(keys)) :
       LET E == ev[1] \cup ev[2]
           free == freeList \cup {blockId[k] : k \in E} IN
       \E slot \in [S -> Ids] :
           /\ Allocate(S, free, slot)
           /\ EvictAndInsert(ev[1], ev[2], Only(keys, S))
           /\ refCnt' = [k \in Keys |-> IF k \in S THEN -1
                                        ELSE IF k \in E THEN None ELSE refCnt[k]]
           /\ blockId' = [k \in Keys |-> IF k \in S THEN slot[k]
                                         ELSE IF k \in E THEN None ELSE blockId[k]]
           /\ jobOp' = [jobOp EXCEPT ![j] = "store"]
           /\ jobIds' = [jobIds EXCEPT ![j] =
                            [k \in Keys |-> IF k \in S THEN slot[k] ELSE None]]
           /\ data' = [i \in Ids |-> IF i \in Range(slot) THEN None ELSE data[i]]
    /\ UNCHANGED <<policy, tracker>>

\* Defect: the condition on is_ready is negated.
Finished(j) == {k \in JobKeys(j) : refCnt[k] # -1}
\* The keys of a store job that complete_store finds cached and not ready.
Unfinished(j) == {k \in JobKeys(j) : refCnt[k] = -1}

\* complete_store(success = True); the worker has written the job's slots.
CompleteStore(j) ==
    /\ jobOp[j] = "store"
    /\ refCnt' = [k \in Keys |-> IF k \in Unfinished(j) THEN 0 ELSE refCnt[k]]
    /\ data' = [i \in Ids |-> IF \E k \in JobKeys(j) : jobIds[j][k] = i
                              THEN CHOOSE k \in JobKeys(j) : jobIds[j][k] = i
                              ELSE data[i]]
    /\ EndJob(j)
    /\ UNCHANGED <<policy, lists, blockId, freeList, numAllocated, tracker>>

\* complete_store(success = False)
FailStore(j) ==
    LET failed == Unfinished(j) IN
    /\ jobOp[j] = "store"
    /\ t1' = Without(t1, failed)
    /\ t2' = Without(t2, failed)
    /\ freeList' = freeList \cup {blockId[k] : k \in failed}
    /\ refCnt' = [k \in Keys |-> IF k \in failed THEN None ELSE refCnt[k]]
    /\ blockId' = [k \in Keys |-> IF k \in failed THEN None ELSE blockId[k]]
    /\ EndJob(j)
    /\ UNCHANGED <<policy, b1, b2, target, numAllocated, tracker, data>>

\* reset_cache: counts is kept.  The connector's _stale_job_threshold forgets every
\* job in flight, and its workers are flushed before a slot is used again.
ResetCache ==
    /\ t1' = <<>> /\ t2' = <<>> /\ b1' = <<>> /\ b2' = <<>> /\ target' = 0
    /\ refCnt' = [k \in Keys |-> None]
    /\ blockId' = [k \in Keys |-> None]
    /\ freeList' = {} /\ numAllocated' = 0
    /\ jobOp' = [j \in Jobs |-> "idle"]
    /\ jobIds' = [j \in Jobs |-> [k \in Keys |-> None]]
    /\ data' = [i \in Ids |-> None]
    /\ UNCHANGED <<policy, tracker>>

Next ==
    \/ \E k \in Keys : Lookup(k)
    \/ \E k \in Keys : Touch(k)
    \/ \E j \in Jobs, K \in SUBSET Keys : PrepareLoad(j, K)
    \/ \E j \in Jobs : CompleteLoad(j)
    \/ \E j \in Jobs, keys \in Requests : PrepareStore(j, keys)
    \/ \E j \in Jobs : CompleteStore(j)
    \/ \E j \in Jobs : FailStore(j)
    \/ ResetCache

Spec == Init /\ [][Next]_vars
=============================================================================
