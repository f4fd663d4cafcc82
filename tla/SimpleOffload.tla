---------------------------- MODULE SimpleOffload ----------------------------
(***************************************************************************)
(* v1/simple_kv_offload: CPU offloading with two block pools.  The         *)
(* scheduler-side manager (manager.py) decides what is copied, the worker  *)
(* (worker.py) hands copies to a background thread (copy_backend.py), the  *)
(* thread issues them on two CUDA streams and records an event for each.   *)
(* The model holds the manager, the worker, the thread, the streams, and   *)
(* as much of the scheduler and of BlockPool as they rely on.              *)
(*                                                                         *)
(* A block's content is the hash of the tokens whose KV it holds.  Freed   *)
(* blocks go to the end of a pool's free queue, so those never taken come  *)
(* first; of the others any may be next, the oldest included.              *)
(* One attention group, one worker; a request is its full blocks, and a    *)
(* step computes one of them.                                              *)
(***************************************************************************)
EXTENDS Integers, FiniteSets, Sequences, Functions

CONSTANTS
    Reqs, GpuBlocks, CpuBlocks,
    Prompt,      \* the block hashes of each request
    Budget,      \* blocks a step computes at most (max_num_batched_tokens)
    Ahead,       \* forward passes that may be unfinished when a step is scheduled:
                 \* 0, or 1 with async scheduling
    MaxLoads, MaxStores,  \* bounds: load events, store events
    None

\* The hash of a block covers the blocks before it, so that no two of a request are equal.
ASSUME SimpleAssumption ==
    /\ IsFiniteSet(Reqs)
    /\ \A r \in Reqs : /\ Prompt[r] \in Seq(Range(Prompt[r])) /\ IsInjective(Prompt[r])
                       /\ None \notin Range(Prompt[r])
    /\ None \notin Int

VARIABLES
    lazy,        \* _lazy_mode
    phase,       \* where the engine's step is
    status, blocks, computed,  \* of a request: state, block table, computed blocks
    leaving,     \* finished_req_ids is not empty
    scheduled,   \* requests this step has looked at
    preempted,   \* whether this step preempted a request
    batch,       \* block and hash of what this step computes
    computing,   \* forward passes issued and not finished
    gpuRef, gpuHash, gpuKV,          \* the GPU BlockPool and its contents
    cpuRef, cpuHash, cpuKV, cached,  \* the CPU one; cached: blocks in its hash map
    gpuFresh, cpuFresh,  \* the blocks of each pool that were never taken, in order
    hits,        \* _pending_cpu_hits: the blocks pinned for a request
    toLoad,      \* _reqs_to_load: <<CPU block, GPU block>> pairs
    loadEvent,   \* LoadRequestState.load_event
    numStored,   \* StoreRequestState.num_stored_blocks
    inStore,     \* _store_event_to_blocks as <<event, GPU block, CPU block>>
    ctr,         \* _load_event_counter and _store_event_counter
    meta,        \* the copies of this step's SimpleCPUOffloadMetadata
    pend,        \* _pending_load_event_indices and _pending_store_event_indices
    queue,       \* the copy thread's queue
    thread,      \* the copy it has issued and not recorded, or None
    stream,      \* copies issued and not executed
    events,      \* _load_events and _store_events
    hwm,         \* _load_hwm and _store_hwm
    recving, stored  \* load and store events the worker reports in this step

engine == <<status, blocks, computed, leaving, scheduled, preempted, batch>>
gpu == <<gpuRef, gpuHash, gpuFresh>>
cpuMap == <<cpuHash, cached, cpuFresh>>
kv == <<gpuKV, cpuKV>>
loads == <<hits, toLoad, loadEvent>>
stores == <<numStored, inStore>>
copies == <<queue, thread, stream, events>>
worker == <<meta, pend, hwm, recving, stored>>
vars == <<lazy, phase, engine, computing, gpu, cpuRef, cpuMap, kv, loads, stores, ctr,
          copies, worker>>

Dirs == {"load", "store"}
InOrder(B) == CHOOSE q \in Injection(1 .. Cardinality(B), B) : TRUE

Init ==
    /\ lazy \in BOOLEAN
    /\ phase = "idle"
    /\ status = [r \in Reqs |-> "waiting"]
    /\ blocks = [r \in Reqs |-> <<>>]
    /\ computed = [r \in Reqs |-> 0]
    /\ leaving = FALSE /\ scheduled = {} /\ preempted = FALSE /\ batch = {} /\ computing = <<>>
    /\ gpuRef = [g \in GpuBlocks |-> 0]
    /\ gpuHash = [g \in GpuBlocks |-> None] /\ gpuKV = [g \in GpuBlocks |-> None]
    /\ cpuRef = [c \in CpuBlocks |-> 0]
    /\ cpuHash = [c \in CpuBlocks |-> None] /\ cpuKV = [c \in CpuBlocks |-> None]
    /\ cached = {}
    /\ gpuFresh = InOrder(GpuBlocks) /\ cpuFresh = InOrder(CpuBlocks)
    /\ hits = [r \in Reqs |-> {}]
    /\ toLoad = [r \in Reqs |-> {}]
    /\ loadEvent = [r \in Reqs |-> None]
    /\ numStored = [r \in Reqs |-> 0]
    /\ inStore = {}
    /\ ctr = [d \in Dirs |-> 0]
    /\ meta = <<>>
    /\ pend = [d \in Dirs |-> {}]
    /\ queue = <<>> /\ thread = None
    /\ stream = [d \in Dirs |-> <<>>]
    /\ events = [d \in Dirs |-> <<>>]
    /\ hwm = [d \in Dirs |-> -1]
    /\ recving = {} /\ stored = {}

-----------------------------------------------------------------------------
(* BlockPool *)

Touched(ref, S) == [b \in DOMAIN ref |-> IF b \in S THEN ref[b] + 1 ELSE ref[b]]
Freed(ref, S) == [b \in DOMAIN ref |-> IF b \in S THEN ref[b] - 1 ELSE ref[b]]
FreeOf(ref) == {b \in DOMAIN ref : ref[b] = 0}

\* The hashes under which get_one_block finds a CPU block.
CpuCached == {cpuHash[c] : c \in cached}

\* How many of a request's hashes, after the first n, are in S without a gap.
Leading(r, n, S) ==
    CHOOSE m \in 0 .. Len(Prompt[r]) - n :
        /\ \A i \in n + 1 .. n + m : Prompt[r][i] \in S
        /\ n + m = Len(Prompt[r]) \/ Prompt[r][n + m + 1] \notin S

\* get_computed_blocks, and find_longest_cache_hit on the hashes that follow.
LocalHits(r) == Leading(r, 0, Range(gpuHash))
CpuHits(r) == Leading(r, LocalHits(r), CpuCached)

\* Which block get_one_block finds under a hash that several carry is left open.
Locals(r) ==
    {t \in [1 .. LocalHits(r) -> GpuBlocks] : \A i \in DOMAIN t : gpuHash[t[i]] = Prompt[r][i]}
Matches(r) ==
    {t \in [1 .. CpuHits(r) -> cached] :
        \A i \in DOMAIN t : cpuHash[t[i]] = Prompt[r][LocalHits(r) + i]}

\* get_new_blocks: n free blocks outside S, the fresh ones first.
NewBlocks(ref, fresh, S, n) ==
    {new \in Injection(1 .. n, FreeOf(ref) \ S) :
        \A i \in 1 .. n : i <= Len(fresh) => new[i] = fresh[i]}
Rest(fresh, n) == SubSeq(fresh, n + 1, Len(fresh))

-----------------------------------------------------------------------------
(* Scheduling *)

\* has_requests: the engine stops stepping when no request is left, a finished one whose
\* load is in flight included, and the ids of the finished ones have been sent on.
HasRequests == leaving \/ \E r \in Reqs : status[r] # "finished" \/ toLoad[r] # {}

BeginStep ==
    /\ phase = "idle" /\ HasRequests
    /\ phase' = "schedule" /\ leaving' = FALSE
    /\ scheduled' = {} /\ preempted' = FALSE /\ batch' = {}
    /\ UNCHANGED <<lazy, status, blocks, computed, computing, gpu, cpuRef, cpuMap, kv,
                   loads, stores, ctr, copies, worker>>

\* A loop of schedule() comes to a request: the running ones first, then, if none was
\* preempted, the waiting ones.
Visit(r, loop) ==
    /\ phase = loop /\ r \notin scheduled
    /\ Cardinality(batch) < Budget /\ ctr["store"] < MaxStores
    /\ scheduled' = scheduled \cup {r}
    /\ UNCHANGED <<lazy, leaving, preempted, computing, cpuMap, kv, stores, ctr, copies,
                   worker>>

\* get_num_new_matched_tokens drops the pin of an earlier call, then pins its hits.
Repinned(r, pins) == Touched(Freed(cpuRef, hits[r]), pins)

\* The request is looked up, but there are no blocks for it: the loop ends.
LookUpOnly(r) ==
    /\ Visit(r, "admit") /\ status[r] = "waiting"
    /\ phase' = "stores"
    /\ \E match \in Matches(r) :
        /\ hits' = [hits EXCEPT ![r] = Range(match)]
        /\ cpuRef' = Repinned(r, Range(match))
    /\ UNCHANGED <<status, blocks, computed, batch, gpu, toLoad, loadEvent>>

\* allocate_slots for n blocks to compute, after the blocks in table: they are cached
\* under their hashes at once.
Compute(r, table, n) ==
    \E new \in NewBlocks(gpuRef, gpuFresh, Range(table), n) :
        LET hash(i) == Prompt[r][Len(table) + i] IN
        /\ blocks' = [blocks EXCEPT ![r] = table \o new]
        /\ gpuRef' = Touched(gpuRef, Range(new) \cup (Range(table) \ Range(blocks[r])))
        /\ gpuHash' = [g \in GpuBlocks |->
                          IF g \in Range(new) THEN hash(CHOOSE i \in 1 .. n : new[i] = g)
                          ELSE gpuHash[g]]
        /\ batch' = batch \cup {<<new[i], hash(i)>> : i \in 1 .. n}
        /\ status' = [status EXCEPT ![r] = "running"]
        /\ gpuFresh' = Rest(gpuFresh, n)

\* How much of the request the next step computes.
Chunk(r, n) == IF n < Len(Prompt[r]) THEN 1 ELSE 0

\* A request without a hit in the CPU pool starts to run.
StartFresh(r) ==
    /\ Visit(r, "admit") /\ status[r] = "waiting"
    /\ CpuHits(r) = 0
    /\ \E local \in Locals(r) : Compute(r, local, Chunk(r, LocalHits(r)))
    /\ computed' = [computed EXCEPT ![r] = LocalHits(r)]
    /\ hits' = [hits EXCEPT ![r] = {}]
    /\ cpuRef' = Repinned(r, {})
    /\ UNCHANGED <<phase, toLoad, loadEvent>>

\* Defect: the CPU blocks are not kept for the copy.
LoadRefsUnpinned(r, pins) == Freed(cpuRef, hits[r])
\* The pin of get_num_new_matched_tokens becomes the reference of the load.
LoadRefs(r, pins) == Repinned(r, pins)

\* update_state_after_alloc with external tokens.
StartLoad(r) ==
    /\ Visit(r, "admit") /\ status[r] = "waiting"
    /\ CpuHits(r) > 0 /\ ctr["load"] < MaxLoads
    /\ \E local \in Locals(r), match \in Matches(r) :
       \E new \in NewBlocks(gpuRef, gpuFresh, Range(local), CpuHits(r)) :
        /\ blocks' = [blocks EXCEPT ![r] = local \o new]
        /\ gpuRef' = Touched(Touched(gpuRef, Range(new) \cup Range(local)), Range(new))
        /\ gpuHash' = [g \in GpuBlocks |-> IF g \in Range(new) THEN None ELSE gpuHash[g]]
        /\ toLoad' = [toLoad EXCEPT ![r] = {<<match[i], new[i]>> : i \in DOMAIN new}]
        /\ cpuRef' = LoadRefs(r, Range(match))
    /\ gpuFresh' = Rest(gpuFresh, CpuHits(r))
    /\ computed' = [computed EXCEPT ![r] = LocalHits(r) + CpuHits(r)]
    /\ status' = [status EXCEPT ![r] = "loading"]
    /\ hits' = [hits EXCEPT ![r] = {}]
    /\ UNCHANGED <<phase, batch, loadEvent>>

\* _update_waiting_for_remote_kv: the loaded blocks are cached under their hashes.
Promote(r) ==
    /\ phase = "admit" /\ status[r] = "loaded"
    /\ status' = [status EXCEPT ![r] = "ready"]
    /\ gpuHash' = [g \in GpuBlocks |->
                      IF g \in Range(blocks[r])
                      THEN Prompt[r][CHOOSE i \in DOMAIN blocks[r] : blocks[r][i] = g]
                      ELSE gpuHash[g]]
    /\ UNCHANGED <<lazy, phase, blocks, computed, leaving, scheduled, preempted, batch,
                   computing, gpuRef, gpuFresh, cpuRef, cpuMap, kv, loads, stores, ctr,
                   copies, worker>>

\* A request that runs, or whose load is over, is scheduled.
Continue(r) ==
    /\ \/ Visit(r, "schedule") /\ status[r] = "running"
       \/ Visit(r, "admit") /\ status[r] = "ready"
    /\ Compute(r, blocks[r], Chunk(r, Len(blocks[r])))
    /\ UNCHANGED <<phase, computed, cpuRef, loads>>

\* _preempt_request.  The cursor of a resumed request starts again from 0.
Preempt(r) ==
    /\ phase = "schedule" /\ status[r] = "running" /\ r \notin scheduled
    /\ status' = [status EXCEPT ![r] = "waiting"]
    /\ gpuRef' = Freed(gpuRef, Range(blocks[r]))
    /\ blocks' = [blocks EXCEPT ![r] = <<>>]
    /\ computed' = [computed EXCEPT ![r] = 0]
    /\ numStored' = [numStored EXCEPT ![r] = 0]
    /\ preempted' = TRUE
    /\ UNCHANGED <<lazy, phase, leaving, scheduled, batch, computing, gpuHash, gpuFresh,
                   cpuRef, cpuMap, kv, loads, inStore, ctr, copies, worker>>

\* A loop is over, or the token budget is.
EndLoop ==
    /\ phase \in {"schedule", "admit"}
    /\ phase' = IF phase = "schedule" /\ ~preempted THEN "admit" ELSE "stores"
    /\ UNCHANGED <<lazy, engine, computing, gpu, cpuRef, cpuMap, kv, loads, stores, ctr,
                   copies, worker>>

-----------------------------------------------------------------------------
(* Stores *)

InFlight == {t[2] : t \in inStore}

\* Defect: the GPU blocks are not kept for the copy.
StoreRefsUntouched(S) == gpuRef
\* touch on the GPU blocks of a store.
StoreRefs(S) == Touched(gpuRef, S)

\* CPU blocks are allocated (a cached one leaves the hash map), stamped with the hashes
\* of the GPU blocks in src, and the GPU blocks touched.
Store(src) ==
    \E dst \in NewBlocks(cpuRef, cpuFresh, {}, Len(src)) :
        /\ inStore' = inStore \cup {<<ctr["store"], src[i], dst[i]>> : i \in DOMAIN src}
        /\ cpuRef' = Touched(cpuRef, Range(dst))
        /\ cached' = cached \ Range(dst)
        /\ cpuHash' = [c \in CpuBlocks |->
                          IF c \in Range(dst)
                          THEN gpuHash[src[CHOOSE i \in DOMAIN dst : dst[i] = c]]
                          ELSE cpuHash[c]]
        /\ gpuRef' = StoreRefs(Range(src))
        /\ cpuFresh' = Rest(cpuFresh, Len(src))

\* The places in a request's table of the blocks that _prepare_eager_store_specs picks
\* among the first n, which were computed in earlier steps: it skips the ones in flight or
\* cached, and stops when the pool is full.
Wanted(r, n) ==
    {i \in DOMAIN blocks[r] :
        /\ numStored[r] < i /\ i <= n
        /\ blocks[r][i] \notin InFlight /\ gpuHash[blocks[r][i]] \notin CpuCached}
Fits(r, n) == Cardinality(Wanted(r, n)) <= Cardinality(FreeOf(cpuRef))
Advanced(r) ==
    CHOOSE n \in numStored[r] .. computed[r] :
        Fits(r, n) /\ (n = computed[r] \/ ~Fits(r, n + 1))
Ascending(S) ==
    {at \in Injection(1 .. Cardinality(S), S) : \A i, j \in DOMAIN at : i < j => at[i] < at[j]}

EagerStore(r) ==
    /\ phase = "stores" /\ ~lazy
    /\ r \in scheduled /\ status[r] = "running"
    /\ scheduled' = scheduled \ {r}
    /\ \E at \in Ascending(Wanted(r, Advanced(r))) :
        Store([i \in DOMAIN at |-> blocks[r][at[i]]])
    /\ numStored' = [numStored EXCEPT ![r] = Advanced(r)]
    /\ UNCHANGED <<lazy, phase, status, blocks, computed, leaving, preempted, batch,
                   computing, gpuHash, gpuFresh, kv, loads, ctr, copies, worker>>

\* _prepare_lazy_store_specs: cached blocks of the GPU free queue that the CPU pool
\* does not hold.  How far the cursor gets is left open.
LazyStore ==
    /\ phase = "stores" /\ lazy
    /\ ctr["store"] < MaxStores /\ \A t \in inStore : t[1] # ctr["store"]
    /\ \E n \in 1 .. Cardinality(FreeOf(cpuRef)) :
       \E src \in Injection(1 .. n, FreeOf(gpuRef)) :
        /\ \A i \in 1 .. n : gpuHash[src[i]] # None /\ gpuHash[src[i]] \notin CpuCached
        /\ Store(src)
    /\ UNCHANGED <<lazy, phase, engine, computing, gpuHash, gpuFresh, kv, loads, numStored,
                   ctr, copies, worker>>

Copy(d, pairs) == [dir |-> d, idx |-> ctr[d], pairs |-> pairs]

\* The rest of build_connector_meta: an event for this step's stores, one for its loads.
\* The scheduler then counts what the step computes, and the worker binds the metadata.
BuildMeta ==
    /\ phase = "stores"
    /\ lazy \/ \A r \in scheduled : status[r] # "running"
    /\ LET new == {r \in Reqs : toLoad[r] # {} /\ loadEvent[r] = None}
           pairs == [d \in Dirs |->
                        IF d = "load" THEN UNION {toLoad[r] : r \in new}
                        ELSE {<<t[2], t[3]>> : t \in {u \in inStore : u[1] = ctr["store"]}}]
           has(d) == pairs[d] # {}
           copy(d) == IF has(d) THEN <<Copy(d, pairs[d])>> ELSE <<>>
       IN
       /\ loadEvent' = [r \in Reqs |-> IF r \in new THEN ctr["load"] ELSE loadEvent[r]]
       /\ meta' = copy("load") \o copy("store")
       /\ pend' = [d \in Dirs |-> IF has(d) THEN pend[d] \cup {ctr[d]} ELSE pend[d]]
       /\ ctr' = [d \in Dirs |-> IF has(d) THEN ctr[d] + 1 ELSE ctr[d]]
    /\ computed' = [r \in Reqs |-> Len(blocks[r])]
    /\ scheduled' = {} /\ preempted' = FALSE
    /\ phase' = IF preempted THEN "sync load" ELSE "execute"
    /\ UNCHANGED <<lazy, status, blocks, leaving, batch, computing, gpu, cpuRef, cpuMap, kv,
                   hits, toLoad, stores, copies, hwm, recving, stored>>

-----------------------------------------------------------------------------
(* The worker *)

\* event.query(): the stream has passed the event.
Done(d, j) == \A k \in 1 .. Len(stream[d]) : stream[d][k].idx > j

\* Defect: the events that are waited for are forgotten, but not counted as done.
SyncedUncounted(d) == hwm[d]
\* The mark after the loop of _flush_and_sync_all.
Synced(d) == IF events[d] = <<>> THEN hwm[d] ELSE events[d][Len(events[d])]

\* _flush_and_sync_all waits for the recorded events of one direction ...
Sync(d) ==
    /\ phase = (IF d = "load" THEN "sync load" ELSE "sync store")
    /\ \A i \in DOMAIN events[d] : Done(d, events[d][i])
    /\ hwm' = [hwm EXCEPT ![d] = Synced(d)]
    /\ phase' = IF d = "load" THEN "clear load" ELSE "clear store"
    /\ UNCHANGED <<lazy, engine, computing, gpu, cpuRef, cpuMap, kv, loads, stores, ctr,
                   copies, meta, pend, recving, stored>>

\* ... and clears the list, with what the thread has appended since.
Clear(d) ==
    /\ phase = (IF d = "load" THEN "clear load" ELSE "clear store")
    /\ events' = [events EXCEPT ![d] = <<>>]
    /\ phase' = IF d = "load" THEN "sync store" ELSE "execute"
    /\ UNCHANGED <<lazy, engine, computing, gpu, cpuRef, cpuMap, kv, loads, stores, ctr,
                   queue, thread, stream, worker>>

\* The forward pass is issued; get_finished then hands the copies to the thread.
ExecuteModel ==
    /\ phase = "execute"
    /\ computing' = IF batch = {} THEN computing ELSE Append(computing, batch)
    /\ queue' = queue \o meta
    /\ batch' = {} /\ meta' = <<>>
    /\ phase' = "poll"
    /\ UNCHANGED <<lazy, status, blocks, computed, leaving, scheduled, preempted, gpu,
                   cpuRef, cpuMap, kv, loads, stores, ctr, thread, stream, events, pend,
                   hwm, recving, stored>>

\* Defect: an event counts as done once it is recorded.
PolledUnfinished(d) == Len(events[d])
\* _poll_stream_events: how many recorded events, from the oldest, are done.
Polled(d) ==
    CHOOSE n \in 0 .. Len(events[d]) :
        /\ \A i \in 1 .. n : Done(d, events[d][i])
        /\ n = Len(events[d]) \/ ~Done(d, events[d][n + 1])

\* Defect: the load event at the mark itself is missed.
ReportedBefore(d, mark) == {j \in pend[d] : j < mark \/ (d = "store" /\ j = mark)}
Reported(d, mark) == {j \in pend[d] : j <= mark}

\* The rest of get_finished, and build_connector_worker_meta.
Poll ==
    /\ phase = "poll"
    /\ LET n == [d \in Dirs |-> IF pend[d] = {} THEN 0 ELSE Polled(d)]
           mark == [d \in Dirs |-> IF n[d] = 0 THEN hwm[d] ELSE events[d][n[d]]]
           done == [d \in Dirs |-> Reported(d, mark[d])]
       IN
       /\ hwm' = mark
       /\ events' = [d \in Dirs |-> SubSeq(events[d], n[d] + 1, Len(events[d]))]
       /\ pend' = [d \in Dirs |-> pend[d] \ done[d]]
       /\ recving' = done["load"] /\ stored' = done["store"]
    /\ phase' = "update"
    /\ UNCHANGED <<lazy, engine, computing, gpu, cpuRef, cpuMap, kv, loads, stores, ctr,
                   queue, thread, stream, meta>>

\* copy_blocks issues the copy on its stream ...
ThreadIssue ==
    /\ thread = None /\ queue # <<>>
    /\ thread' = Head(queue) /\ queue' = Tail(queue)
    /\ stream' = [stream EXCEPT ![Head(queue).dir] = Append(@, Head(queue))]
    /\ UNCHANGED <<lazy, phase, engine, computing, gpu, cpuRef, cpuMap, kv, loads, stores,
                   ctr, events, worker>>

\* ... and the event recorded behind it is appended to the worker's list.
ThreadRecord ==
    /\ thread # None
    /\ events' = [events EXCEPT ![thread.dir] = Append(@, thread.idx)]
    /\ thread' = None
    /\ UNCHANGED <<lazy, phase, engine, computing, gpu, cpuRef, cpuMap, kv, loads, stores,
                   ctr, queue, stream, worker>>

\* The memory an executed list of <<source, destination>> copies leaves.
Moved(to, from, pairs) ==
    [b \in DOMAIN to |-> IF \E p \in pairs : p[2] = b
                         THEN from[(CHOOSE p \in pairs : p[2] = b)[1]] ELSE to[b]]

\* A stream executes the oldest copy issued on it.
StreamCopy(d) ==
    /\ stream[d] # <<>>
    /\ stream' = [stream EXCEPT ![d] = Tail(@)]
    /\ LET pairs == Head(stream[d]).pairs IN
       IF d = "load" THEN gpuKV' = Moved(gpuKV, cpuKV, pairs) /\ cpuKV' = cpuKV
       ELSE cpuKV' = Moved(cpuKV, gpuKV, pairs) /\ gpuKV' = gpuKV
    /\ UNCHANGED <<lazy, phase, engine, computing, gpu, cpuRef, cpuMap, loads, stores, ctr,
                   queue, thread, events, worker>>

\* The compute stream executes the oldest forward pass.
StreamCompute ==
    /\ computing # <<>>
    /\ computing' = Tail(computing)
    /\ gpuKV' = [g \in GpuBlocks |-> IF \E p \in Head(computing) : p[1] = g
                                     THEN (CHOOSE p \in Head(computing) : p[1] = g)[2]
                                     ELSE gpuKV[g]]
    /\ UNCHANGED <<lazy, phase, engine, gpu, cpuRef, cpuMap, cpuKV, loads, stores, ctr,
                   copies, worker>>

-----------------------------------------------------------------------------
(* The step's output *)

\* Defect: a finished request leaves its pin behind.
UnpinnedNot(r) == cpuRef
\* request_finished releases the pin of a request that was only looked up.
Unpinned(r) == Freed(cpuRef, hits[r])

\* A running request stops, or the client aborts any.  Blocks that a load is writing
\* are freed when it ends, the others at once.
Finish(r) ==
    /\ \/ phase = "update" /\ status[r] = "running" /\ Len(computing) <= Ahead
       \/ phase = "idle" /\ status[r] # "finished"
    /\ status' = [status EXCEPT ![r] = "finished"] /\ leaving' = TRUE
    /\ hits' = [hits EXCEPT ![r] = {}]
    /\ cpuRef' = Unpinned(r)
    /\ IF toLoad[r] # {} THEN UNCHANGED <<blocks, gpuRef>>
       ELSE /\ gpuRef' = Freed(gpuRef, Range(blocks[r]))
            /\ blocks' = [blocks EXCEPT ![r] = <<>>]
    /\ computed' = [computed EXCEPT ![r] = 0]
    /\ numStored' = [numStored EXCEPT ![r] = 0]
    /\ UNCHANGED <<lazy, phase, scheduled, preempted, batch, computing, gpuHash, gpuFresh,
                   cpuMap, kv, toLoad, loadEvent, inStore, ctr, copies, worker>>

\* update_connector_output, then _update_from_kv_xfer_finished.
UpdateOutput ==
    /\ phase = "update" /\ Len(computing) <= Ahead
    /\ LET R == {r \in Reqs : loadEvent[r] \in recving}
           S == {t \in inStore : t[1] \in stored}
           over == {r \in R : status[r] = "finished"}
       IN
       /\ toLoad' = [r \in Reqs |-> IF r \in R THEN {} ELSE toLoad[r]]
       /\ loadEvent' = [r \in Reqs |-> IF r \in R THEN None ELSE loadEvent[r]]
       /\ inStore' = inStore \ S
       /\ cached' = cached \cup {t[3] : t \in S}
       /\ cpuRef' = [c \in CpuBlocks |->
                        cpuRef[c] - Cardinality({t \in S : t[3] = c})
                          - Cardinality({r \in R : \E p \in toLoad[r] : p[1] = c})]
       /\ gpuRef' = [g \in GpuBlocks |->
                        gpuRef[g] - Cardinality({t \in S : t[2] = g})
                          - Cardinality({r \in R : \E p \in toLoad[r] : p[2] = g})
                          - Cardinality({r \in over : g \in Range(blocks[r])})]
       /\ status' = [r \in Reqs |-> IF r \in R \ over THEN "loaded" ELSE status[r]]
       /\ blocks' = [r \in Reqs |-> IF r \in over THEN <<>> ELSE blocks[r]]
    /\ recving' = {} /\ stored' = {}
    /\ phase' = "idle"
    /\ UNCHANGED <<lazy, computed, leaving, scheduled, preempted, batch, computing, gpuHash,
                   gpuFresh, cpuHash, cpuFresh, kv, hits, numStored, ctr, copies, meta,
                   pend, hwm>>

-----------------------------------------------------------------------------
\* What the engine does without a choice.
Advance ==
    \/ BeginStep \/ EndLoop \/ BuildMeta \/ ExecuteModel \/ Poll \/ UpdateOutput
    \/ \E r \in Reqs : EagerStore(r)
    \/ \E d \in Dirs : Sync(d) \/ Clear(d)

Choices ==
    \/ \E r \in Reqs : \/ LookUpOnly(r) \/ StartFresh(r) \/ StartLoad(r) \/ Promote(r)
                       \/ Continue(r) \/ Preempt(r) \/ Finish(r)
    \/ LazyStore

Device == ThreadIssue \/ ThreadRecord \/ StreamCompute \/ \E d \in Dirs : StreamCopy(d)

Next == Advance \/ Choices \/ Device

Spec == Init /\ [][Next]_vars

\* The engine steps while a request is unfinished; the thread and the streams get on.
Fairness ==
    /\ WF_vars(Advance)
    /\ WF_vars(ThreadIssue \/ ThreadRecord) /\ WF_vars(StreamCompute)
    /\ \A d \in Dirs : WF_vars(StreamCopy(d))

FairSpec == Spec /\ Fairness
=============================================================================
