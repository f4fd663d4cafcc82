------------------------ MODULE OffloadingConnector ------------------------
(***************************************************************************)
(* kv_connector/v1/offloading: the connector between the scheduler, an     *)
(* OffloadingManager and the copy engines of the workers.  Its scheduler   *)
(* side (scheduler.py) turns prefix hits into load jobs and new blocks     *)
(* into store jobs, and fences the reuse of GPU blocks; its worker side    *)
(* (worker.py, kv_offload/cpu/gpu_worker.py) queues them on two streams.   *)
(*                                                                         *)
(* The manager is the OffloadCache that CpuOffloadingManager implements,   *)
(* with the slot of each key.  A block's content is the key of the tokens  *)
(* whose KV it holds.  Free queues are sets.  One full-attention group,    *)
(* block_size_factor 1; a request is its full blocks, and a step computes  *)
(* one of them.                                                            *)
(***************************************************************************)
EXTENDS Integers, FiniteSets, Sequences, Functions

CONSTANTS
    Reqs, GpuBlocks, CpuSlots, Workers,
    Prompt,   \* the offload keys of each request
    Budget,   \* blocks a step computes at most (max_num_batched_tokens)
    Ahead,    \* outputs that may be due when a step is scheduled: 1 with async scheduling
    MaxJobs,  \* BOUND: job ids
    None

VARIABLES
    phase,       \* where the engine's step is
    status, blocks,  \* of a request: state, block table
    leaving,     \* finished_req_ids is not empty
    scheduled,   \* requests this step has looked at
    preempted,   \* preempted_req_ids
    batch,       \* block and key of what this step computes
    given,       \* new_block_ids of this step's SchedulerOutput
    gpuRef, gpuHash,                  \* the GPU BlockPool
    storing, stored, readers, slotOf, \* the OffloadingManager
    tracked,     \* the requests in _req_status
    nextStored,  \* next_stored_block_idx
    transfers,   \* transfer_jobs
    jobs,        \* _jobs
    pendingOf,   \* _block_id_to_pending_jobs
    loading,     \* _blocks_being_loaded
    newLoads, newStores, flush,  \* the OffloadingConnectorMetadata of this step
    counter,     \* _job_counter
    stale,       \* _stale_job_threshold
    raised,      \* an assertion or a lookup of the scheduler side has failed
    unsubmitted, \* _unsubmitted_store_jobs
    stream,      \* of a worker and a direction: jobs submitted and not executed
    ended,       \* of a worker: jobs executed and not reported
    computing,   \* of a worker: forward passes issued and not finished
    gpuKV, cpuKV,  \* of a worker: what its blocks and slots hold
    recvLeft,    \* workers that still have to report the load of a request
    outputs      \* outputs of executed steps that the scheduler has not processed

engine == <<status, blocks, leaving, scheduled, preempted, batch, given>>
pool == <<gpuRef, gpuHash>>
cache == <<storing, stored, readers, slotOf>>
book == <<tracked, nextStored, transfers, jobs, pendingOf, loading>>
meta == <<newLoads, newStores, flush>>
device == <<stream, ended, computing, gpuKV, cpuKV>>
out == <<recvLeft, outputs>>
vars == <<phase, engine, pool, cache, book, meta, counter, stale, raised, unsubmitted,
          device, out>>

Dirs == {"load", "store"}
Keys == UNION {Range(Prompt[r]) : r \in Reqs}

Cache == INSTANCE OffloadCache WITH Capacity <- Cardinality(CpuSlots)

Init ==
    /\ phase = "idle"
    /\ status = [r \in Reqs |-> "waiting"] /\ blocks = [r \in Reqs |-> <<>>]
    /\ leaving = FALSE /\ scheduled = {} /\ preempted = {} /\ batch = {}
    /\ given = [r \in Reqs |-> {}]
    /\ gpuRef = [g \in GpuBlocks |-> 0] /\ gpuHash = [g \in GpuBlocks |-> None]
    /\ Cache!Init /\ slotOf = [k \in Keys |-> None]
    /\ tracked = {}
    /\ nextStored = [r \in Reqs |-> 0] /\ transfers = [r \in Reqs |-> {}]
    /\ jobs = {} /\ pendingOf = [g \in GpuBlocks |-> {}] /\ loading = {}
    /\ newLoads = <<>> /\ newStores = <<>> /\ flush = {}
    /\ counter = 0 /\ stale = 0 /\ raised = FALSE
    /\ unsubmitted = <<>>
    /\ stream = [w \in Workers |-> [d \in Dirs |-> <<>>]]
    /\ ended = [w \in Workers |-> {}] /\ computing = [w \in Workers |-> <<>>]
    /\ gpuKV = [w \in Workers |-> [g \in GpuBlocks |-> None]]
    /\ cpuKV = [w \in Workers |-> [c \in CpuSlots |-> None]]
    /\ recvLeft = [r \in Reqs |-> Cardinality(Workers)] /\ outputs = <<>>

-----------------------------------------------------------------------------
(* BlockPool *)

Touched(S) == [g \in GpuBlocks |-> IF g \in S THEN gpuRef[g] + 1 ELSE gpuRef[g]]
Freed(S) == [g \in GpuBlocks |-> IF g \in S THEN gpuRef[g] - 1 ELSE gpuRef[g]]
FreeBlocks == {g \in GpuBlocks : gpuRef[g] = 0}

\* get_new_blocks: any n free blocks outside S.
NewBlocks(S, n) == Injection(1 .. n, FreeBlocks \ S)

\* How many of a request's keys, after the first n, are in S without a gap.
Leading(r, n, S) ==
    CHOOSE m \in 0 .. Len(Prompt[r]) - n :
        /\ \A i \in n + 1 .. n + m : Prompt[r][i] \in S
        /\ n + m = Len(Prompt[r]) \/ Prompt[r][n + m + 1] \notin S

\* get_computed_blocks.  Which block is found under a key that several carry is open.
LocalHits(r) == Leading(r, 0, Range(gpuHash))
Locals(r) ==
    {t \in [1 .. LocalHits(r) -> GpuBlocks] : \A i \in DOMAIN t : gpuHash[t[i]] = Prompt[r][i]}

-----------------------------------------------------------------------------
(* Lookups *)

\* _maximal_prefix_lookup: a key whose store is in flight counts as a hit ...
Hits(r) == Leading(r, LocalHits(r), storing \cup stored)
HitKeys(r) == Range(SubSeq(Prompt[r], LocalHits(r) + 1, LocalHits(r) + Hits(r)))

\* ... that defers the lookup; so does a hit that is being loaded.
Deferred(r) == HitKeys(r) \cap (storing \cup loading) # {}

\* Where the engine is.  An exception in the scheduler ends it.
At(p) == phase = p /\ ~raised

\* has_requests: the engine stops stepping when no request is left, a finished one whose
\* load is in flight included, and the ids of the finished ones have been sent on.
HasRequests == leaving \/ \E r \in Reqs : status[r] # "finished" \/ blocks[r] # <<>>

BeginStep ==
    /\ At("idle") /\ HasRequests /\ Len(outputs) <= Ahead
    /\ phase' = "schedule" /\ leaving' = FALSE
    /\ scheduled' = {} /\ preempted' = {} /\ batch' = {}
    /\ given' = [r \in Reqs |-> {}]
    /\ UNCHANGED <<status, blocks, pool, cache, book, meta, counter, stale, raised,
                   unsubmitted, device, out>>

\* A loop of schedule() comes to a request: the running ones first, then, if none was
\* preempted, the waiting ones.
Visit(r, loop) ==
    /\ At(loop) /\ r \notin scheduled
    /\ Cardinality(batch) < Budget /\ counter + Cardinality(scheduled) < MaxJobs
    /\ scheduled' = scheduled \cup {r}
    /\ UNCHANGED <<leaving, preempted, newStores, stale, unsubmitted, device, out>>

\* get_num_new_matched_tokens
LookUp(r) ==
    /\ Visit(r, "admit") /\ status[r] = "waiting"
    /\ tracked' = tracked \cup {r}

\* The connector needs more time, and the loop goes on; or there are no blocks for the
\* request, and it ends.
LookUpOnly(r) ==
    /\ LookUp(r)
    /\ phase' \in IF Deferred(r) THEN {"admit"} ELSE {"stores"}
    /\ UNCHANGED <<status, blocks, batch, given, pool, cache, nextStored, transfers, jobs,
                   pendingOf, loading, newLoads, flush, counter, raised>>

\* allocate_slots for n blocks to compute, after the blocks in table: they are cached
\* under their keys at once.
Compute(r, table, n) ==
    \E new \in NewBlocks(Range(table), n) :
        LET key(i) == Prompt[r][Len(table) + i] IN
        /\ blocks' = [blocks EXCEPT ![r] = table \o new]
        /\ gpuRef' = Touched(Range(new) \cup (Range(table) \ Range(blocks[r])))
        /\ gpuHash' = [g \in GpuBlocks |->
                          IF g \in Range(new) THEN key(CHOOSE i \in 1 .. n : new[i] = g)
                          ELSE gpuHash[g]]
        /\ batch' = batch \cup {<<new[i], key(i)>> : i \in 1 .. n}
        /\ status' = [status EXCEPT ![r] = "running"]
        /\ given' = [given EXCEPT ![r] =
                        Range(new) \cup (IF status[r] = "running" THEN {} ELSE Range(table))]

\* How much of the request the next step computes.
Chunk(r, n) == IF n < Len(Prompt[r]) THEN 1 ELSE 0

\* A request without a hit in the offload cache starts to run.
StartFresh(r) ==
    /\ LookUp(r)
    /\ Hits(r) = 0
    /\ \E local \in Locals(r) : Compute(r, local, Chunk(r, LocalHits(r)))
    /\ UNCHANGED <<phase, cache, nextStored, transfers, jobs, pendingOf, loading, newLoads,
                   flush, counter, raised>>

-----------------------------------------------------------------------------
(* Jobs *)

\* pairs: the <<source, destination>> blocks; left: pending_count.
Job(r, store, keys, pairs) ==
    [id |-> counter, req |-> r, store |-> store, keys |-> keys, pairs |-> pairs,
     left |-> Cardinality(Workers)]

Sources(j) == IF j.store THEN {p[1] : p \in j.pairs} ELSE {}
Ids(J) == {j.id : j \in J}

\* Whether `assert self._jobs[any_jid].is_store` fails for the requests of R: it looks at
\* one job of each.
AnyJobRaises(R) ==
    LET P == {r \in R : transfers[r] # {}}
        stores == Ids({j \in jobs : j.store})
        picks == {p \in [P -> 0 .. MaxJobs] : \A r \in P : p[r] \in transfers[r]}
    IN  {\E r \in P : p[r] \notin stores : p \in picks}

\* The stores of finished requests that still read a block of S.
JobsOn(S) == UNION {pendingOf[g] : g \in S}

\* update_state_after_alloc with external tokens.
StartLoad(r) ==
    /\ LookUp(r)
    /\ Hits(r) > 0 /\ ~Deferred(r)
    /\ \E local \in Locals(r) : \E new \in NewBlocks(Range(local), Hits(r)) :
        LET key(i) == Prompt[r][Len(local) + i]
            job == Job(r, FALSE, HitKeys(r), {<<slotOf[key(i)], new[i]>> : i \in DOMAIN new})
        IN
        /\ blocks' = [blocks EXCEPT ![r] = local \o new]
        /\ gpuRef' = Touched(Range(new) \cup Range(local))
        /\ gpuHash' = [g \in GpuBlocks |-> IF g \in Range(new) THEN None ELSE gpuHash[g]]
        /\ flush' = flush \cup JobsOn(Range(new))
        /\ newLoads' = Append(newLoads, job) /\ jobs' = jobs \cup {job}
    /\ Cache!Read(HitKeys(r))
    /\ loading' = loading \cup HitKeys(r)
    /\ raised' = (transfers[r] # {})
    /\ transfers' = [transfers EXCEPT ![r] = @ \cup {counter}]
    /\ nextStored' = [nextStored EXCEPT ![r] = LocalHits(r) + Hits(r)]
    /\ counter' = counter + 1
    /\ status' = [status EXCEPT ![r] = "loading"]
    /\ UNCHANGED <<phase, batch, given, storing, stored, slotOf, pendingOf>>

\* _update_waiting_for_remote_kv: the loaded blocks are cached under their keys.
Promote(r) ==
    /\ At("admit") /\ status[r] = "loaded"
    /\ status' = [status EXCEPT ![r] = "ready"]
    /\ gpuHash' = [g \in GpuBlocks |->
                      IF g \in Range(blocks[r])
                      THEN Prompt[r][CHOOSE i \in DOMAIN blocks[r] : blocks[r][i] = g]
                      ELSE gpuHash[g]]
    /\ UNCHANGED <<phase, blocks, leaving, scheduled, preempted, batch, given, gpuRef, cache,
                   book, meta, counter, stale, raised, unsubmitted, device, out>>

\* A request that runs, or whose load is over, is scheduled.
Continue(r) ==
    /\ \/ Visit(r, "schedule") /\ status[r] = "running"
       \/ Visit(r, "admit") /\ status[r] = "ready"
    /\ Compute(r, blocks[r], Chunk(r, Len(blocks[r])))
    /\ UNCHANGED <<phase, cache, book, newLoads, flush, counter, raised>>

\* _preempt_request.  When memory is short is left open: the partial blocks that take it
\* are not modelled.
Preempt(r) ==
    /\ At("schedule") /\ status[r] = "running" /\ r \notin scheduled
    /\ status' = [status EXCEPT ![r] = "waiting"]
    /\ gpuRef' = Freed(Range(blocks[r]))
    /\ blocks' = [blocks EXCEPT ![r] = <<>>]
    /\ preempted' = preempted \cup {r}
    /\ UNCHANGED <<phase, leaving, scheduled, batch, given, gpuHash, cache, book, meta,
                   counter, stale, raised, unsubmitted, device, out>>

\* A loop is over, or the token budget is.
EndLoop ==
    /\ At("schedule") \/ At("admit")
    /\ phase' = IF phase = "schedule" /\ preempted = {} THEN "admit" ELSE "stores"
    /\ UNCHANGED <<engine, pool, cache, book, meta, counter, stale, raised, unsubmitted,
                   device, out>>

\* The keys of r that _build_store_jobs offers the manager: those of blocks that are
\* computed, or will be when this step's store starts.
Offered(r) == Range(SubSeq(Prompt[r], nextStored[r] + 1, Len(blocks[r])))
Wanted(r) == Offered(r) \ (storing \cup stored)
CanStore(r) == Cache!Excess(Wanted(r)) <= Cardinality(Cache!Unread \ Offered(r))

\* prepare_store evicts no key it was offered; the new keys get the slots that are free.
PrepareStore(r) ==
    /\ Cache!Store(Wanted(r))
    /\ stored \cap Offered(r) \subseteq stored'
    /\ LET held == [k \in Keys |-> IF k \in storing \cup stored' THEN slotOf[k] ELSE None] IN
       \E t \in Injection(Wanted(r), CpuSlots \ Range(held)) :
           slotOf' = [k \in Keys |-> IF k \in Wanted(r) THEN t[k] ELSE held[k]]

\* Defect: blocks are reused while the store of a finished request still reads them.
FencedNot(r) == flush
\* The new blocks of r are fenced against the stores of finished requests.
Fenced(r) == flush \cup JobsOn(given[r])

\* _build_store_jobs for one request.
StoreJob(r) ==
    /\ At("stores") /\ r \in scheduled /\ status[r] = "running"
    /\ scheduled' = scheduled \ {r}
    /\ flush' = Fenced(r)
    /\ nextStored' = IF Wanted(r) # {} /\ ~CanStore(r) THEN nextStored
                     ELSE [nextStored EXCEPT ![r] = Len(blocks[r])]
    /\ IF Wanted(r) = {} \/ ~CanStore(r)
       THEN UNCHANGED <<cache, transfers, jobs, newStores, counter, raised>>
       ELSE /\ PrepareStore(r)
            /\ LET at(k) == blocks[r][CHOOSE i \in DOMAIN blocks[r] : Prompt[r][i] = k]
                   job == Job(r, TRUE, Wanted(r), {<<at(k), slotOf'[k]>> : k \in Wanted(r)})
               IN  newStores' = Append(newStores, job) /\ jobs' = jobs \cup {job}
            /\ raised' \in AnyJobRaises({r})
            /\ transfers' = [transfers EXCEPT ![r] = @ \cup {counter}]
            /\ counter' = counter + 1
            /\ UNCHANGED readers
    /\ UNCHANGED <<phase, status, blocks, leaving, preempted, batch, given, pool, tracked,
                   pendingOf, loading, newLoads, stale, unsubmitted, device, out>>

\* The stores of the preempted requests, whose blocks are free now.
PreemptedJobs == UNION {transfers[r] : r \in preempted \cap tracked}

\* Defect: jobs may outlive the last step.
LastJobsNone == {}
\* All jobs, when every tracked request is finished: there may be no further step.
LastJobs == IF \A r \in tracked : status[r] = "finished" THEN Ids(jobs) ELSE {}

\* The rest of build_connector_meta.
BuildMeta ==
    /\ At("stores") /\ \A r \in scheduled : status[r] # "running"
    /\ flush' = flush \cup PreemptedJobs \cup LastJobs
    /\ raised' \in AnyJobRaises(preempted \cap tracked)
    /\ phase' = "submit" /\ scheduled' = {}
    /\ UNCHANGED <<status, blocks, leaving, preempted, batch, given, pool, cache, book,
                   newLoads, newStores, counter, stale, unsubmitted, device, out>>

-----------------------------------------------------------------------------
(* The workers *)

\* transfer_async queues a job behind the others of its direction.  A store also waits
\* for the forward passes issued before it.
Queued(w, d, J) ==
    [i \in DOMAIN J |-> [job |-> J[i], after |-> IF d = "store" THEN Len(computing[w]) ELSE 0]]

\* handle_preemptions submits the stores of the last step ...
Submit ==
    /\ At("submit")
    /\ stream' = [w \in Workers |->
                     [stream[w] EXCEPT !["store"] = @ \o Queued(w, "store", unsubmitted)]]
    /\ unsubmitted' = <<>>
    /\ phase' = "flush"
    /\ UNCHANGED <<engine, pool, cache, book, meta, counter, stale, raised, ended, computing,
                   gpuKV, cpuKV, out>>

\* ... and waits for the jobs to flush.  start_kv_transfers then submits the loads, the
\* forward pass is issued, and prepare_store_kv keeps the stores for the next step.
Forward ==
    /\ At("flush")
    /\ \A w \in Workers, d \in Dirs : \A i \in DOMAIN stream[w][d] :
           stream[w][d][i].job.id \notin flush
    /\ stream' = [w \in Workers |->
                     [stream[w] EXCEPT !["load"] = @ \o Queued(w, "load", newLoads)]]
    /\ computing' = [w \in Workers |-> Append(computing[w], batch)]
    /\ unsubmitted' = newStores
    /\ newLoads' = <<>> /\ newStores' = <<>> /\ flush' = {}
    /\ batch' = {}
    /\ phase' = "poll"
    /\ UNCHANGED <<status, blocks, leaving, scheduled, preempted, given, pool, cache, book,
                   counter, stale, raised, ended, gpuKV, cpuKV, out>>

\* get_finished and build_connector_worker_meta of every worker, and the
\* KVOutputAggregator: done counts the workers that report a job, recving are the
\* requests whose load the last worker reports.
Poll ==
    /\ At("poll")
    /\ LET all == UNION Range(ended)
           by(j) == Cardinality({w \in Workers : j \in ended[w]})
           left == [r \in Reqs |->
                       recvLeft[r] - Cardinality({w \in Workers :
                           \E j \in ended[w] : ~j.store /\ j.req = r})]
       IN
       /\ outputs' = Append(outputs, [done |-> {<<j.id, by(j)>> : j \in all},
                                      recving |-> {r \in Reqs : left[r] = 0}])
       /\ recvLeft' = [r \in Reqs |-> IF left[r] = 0 THEN Cardinality(Workers) ELSE left[r]]
    /\ ended' = [w \in Workers |-> {}]
    /\ phase' = "idle"
    /\ UNCHANGED <<engine, pool, cache, book, meta, counter, stale, raised, unsubmitted,
                   stream, computing, gpuKV, cpuKV>>

\* The memory an executed list of <<source, destination>> copies leaves.
Moved(to, from, pairs) ==
    [b \in DOMAIN to |-> IF \E p \in pairs : p[2] = b
                         THEN from[(CHOOSE p \in pairs : p[2] = b)[1]] ELSE to[b]]

\* A stream executes the oldest job submitted to it.
StreamCopy(w, d) ==
    /\ stream[w][d] # <<>> /\ Head(stream[w][d]).after = 0
    /\ stream' = [stream EXCEPT ![w][d] = Tail(@)]
    /\ LET job == Head(stream[w][d]).job IN
       /\ ended' = [ended EXCEPT ![w] = @ \cup {job}]
       /\ IF d = "load"
          THEN gpuKV' = [gpuKV EXCEPT ![w] = Moved(@, cpuKV[w], job.pairs)] /\ cpuKV' = cpuKV
          ELSE cpuKV' = [cpuKV EXCEPT ![w] = Moved(@, gpuKV[w], job.pairs)] /\ gpuKV' = gpuKV
    /\ UNCHANGED <<phase, engine, pool, cache, book, meta, counter, stale, raised, unsubmitted,
                   computing, out>>

\* The compute stream executes the oldest forward pass.
StreamCompute(w) ==
    /\ computing[w] # <<>>
    /\ computing' = [computing EXCEPT ![w] = Tail(@)]
    /\ LET new == Head(computing[w])
           was(c) == IF c.after = 0 THEN 0 ELSE c.after - 1
       IN
       /\ gpuKV' = [gpuKV EXCEPT ![w] =
                       [g \in GpuBlocks |-> IF \E p \in new : p[1] = g
                                            THEN (CHOOSE p \in new : p[1] = g)[2] ELSE @[g]]]
       /\ stream' = [stream EXCEPT ![w]["store"] =
                        [i \in DOMAIN @ |-> [@[i] EXCEPT !.after = was(stream[w]["store"][i])]]]
    /\ UNCHANGED <<phase, engine, pool, cache, book, meta, counter, stale, raised, unsubmitted,
                   ended, cpuKV, out>>

-----------------------------------------------------------------------------
(* The step's output *)

\* The forward pass whose output is the oldest one has ended.
OutputReady == outputs # <<>> /\ \A w \in Workers : Len(computing[w]) < Len(outputs)

\* request_finished: the stores that outlive the request are found by their blocks.
Watched(r) ==
    [g \in GpuBlocks |->
        pendingOf[g] \cup Ids({j \in jobs : j.id \in transfers[r] /\ g \in Sources(j)})]

\* Defect: the blocks of an aborted request are freed while a load writes them.
HeldNot(r) == FALSE
\* Blocks that a load is writing are freed when it ends, the others at once.
Held(r) == status[r] = "loading"

\* A running request stops, or the client aborts any.
Finish(r) ==
    /\ At("idle") /\ status[r] # "finished"
    /\ Len(outputs) <= Ahead \/ (OutputReady /\ status[r] = "running")
    /\ status' = [status EXCEPT ![r] = "finished"] /\ leaving' = TRUE
    /\ raised' = ~(transfers[r] \subseteq Ids(jobs))
    /\ tracked' = IF transfers[r] = {} THEN tracked \ {r} ELSE tracked
    /\ pendingOf' = Watched(r)
    /\ IF Held(r) THEN UNCHANGED <<blocks, gpuRef>>
       ELSE /\ gpuRef' = Freed(Range(blocks[r]))
            /\ blocks' = [blocks EXCEPT ![r] = <<>>]
    /\ UNCHANGED <<phase, scheduled, preempted, batch, given, gpuHash, cache, nextStored,
                   transfers, jobs, loading, meta, counter, stale, unsubmitted, device, out>>

\* update_from_output comes to the connector's part.
BeginUpdate ==
    /\ At("idle") /\ OutputReady
    /\ phase' = "update"
    /\ UNCHANGED <<engine, pool, cache, book, meta, counter, stale, raised, unsubmitted,
                   device, out>>

\* Defect: a job is complete once the first worker reports it.
CompleteBySome(j, n) == TRUE
CompleteBy(j, n) == j.left = n

\* Defect: a finished request is forgotten with the first of its jobs.
UntrackedEarly(r, id) == status[r] = "finished"
\* The last job of a finished request is over.
Untracked(r, id) == status[r] = "finished" /\ transfers[r] = {id}

\* Defect: the keys of a finished load stay in _blocks_being_loaded.
StillLoadingAll(j) == loading
StillLoading(j) == loading \ j.keys

\* update_connector_output for one reported job: it is stale, or some worker has still to
\* report it, or it is over.
Complete(id, n) ==
    /\ At("update") /\ <<id, n>> \in Head(outputs).done
    /\ outputs' = [outputs EXCEPT ![1].done = @ \ {<<id, n>>}]
    /\ IF id < stale THEN UNCHANGED <<cache, book, raised>>
       ELSE IF id \notin Ids(jobs) THEN raised' = TRUE /\ UNCHANGED <<cache, book>>
       ELSE LET j == CHOOSE x \in jobs : x.id = id
                r == j.req
                over == status[r] = "finished"
            IN
            IF ~CompleteBy(j, n)
            THEN /\ jobs' = (jobs \ {j}) \cup {[j EXCEPT !.left = @ - n]}
                 /\ UNCHANGED <<cache, tracked, nextStored, transfers, pendingOf, loading, raised>>
            ELSE /\ IF j.store THEN /\ storing' = storing \ j.keys
                                    /\ stored' = stored \cup j.keys
                                    /\ UNCHANGED <<readers, loading>>
                    ELSE /\ Cache!Done(j.keys)
                         /\ loading' = StillLoading(j)
                         /\ UNCHANGED <<storing, stored>>
                 /\ pendingOf' = [g \in GpuBlocks |->
                                     IF over /\ g \in Sources(j) THEN pendingOf[g] \ {id}
                                     ELSE pendingOf[g]]
                 /\ raised' = \/ r \notin tracked
                              \/ /\ over /\ JobsOn(GpuBlocks) # {}
                                 /\ \E g \in Sources(j) : id \notin pendingOf[g]
                 /\ jobs' = jobs \ {j}
                 /\ transfers' = [transfers EXCEPT ![r] = @ \ {id}]
                 /\ tracked' = IF Untracked(r, id) THEN tracked \ {r} ELSE tracked
                 /\ UNCHANGED <<nextStored, slotOf>>
    /\ UNCHANGED <<phase, engine, pool, meta, counter, stale, unsubmitted, device, recvLeft>>

\* _update_from_kv_xfer_finished: a request whose load is over can be scheduled, or, if it
\* has been aborted, its blocks are freed.
Deliver ==
    /\ At("update") /\ Head(outputs).done = {}
    /\ LET R == Head(outputs).recving
           over == {r \in R : status[r] = "finished"}
       IN
       /\ status' = [r \in Reqs |-> IF r \in R \ over THEN "loaded" ELSE status[r]]
       /\ gpuRef' = [g \in GpuBlocks |->
                        gpuRef[g] - Cardinality({r \in over : g \in Range(blocks[r])})]
       /\ blocks' = [r \in Reqs |-> IF r \in over THEN <<>> ELSE blocks[r]]
    /\ outputs' = Tail(outputs)
    /\ phase' = "idle"
    /\ UNCHANGED <<leaving, scheduled, preempted, batch, given, gpuHash, cache, book, meta,
                   counter, stale, raised, unsubmitted, device, recvLeft>>

-----------------------------------------------------------------------------
\* OffloadingConnectorScheduler.reset_cache: what is in flight is forgotten, and flushed
\* with the next step.  The transfer_jobs of the requests are kept.  It asserts that no
\* load and no flush waits for the step to be built.
ResetCache ==
    /\ raised' = (newLoads # <<>> \/ flush # {})
    /\ flush' = flush \cup Ids(jobs)
    /\ Cache!Reset /\ slotOf' = [k \in Keys |-> None]
    /\ nextStored' = [r \in Reqs |-> 0]
    /\ stale' = counter
    /\ jobs' = {} /\ pendingOf' = [g \in GpuBlocks |-> {}] /\ loading' = {}
    /\ UNCHANGED <<tracked, transfers>>

\* Scheduler.reset_prefix_cache(reset_running_requests, reset_connector), between steps.
\* The requests it preempts are in no preempted_req_ids.  The prefix cache is reset if no
\* block is in use; if some is although nothing runs, that ends the call.
Reset(running, connector) ==
    /\ At("idle") /\ Len(outputs) <= Ahead
    /\ LET R == {r \in Reqs : running /\ status[r] = "running"}
           ref == [g \in GpuBlocks |->
                      gpuRef[g] - Cardinality({r \in R : g \in Range(blocks[r])})]
           unused == \A g \in GpuBlocks : ref[g] = 0
       IN
       /\ status' = [r \in Reqs |-> IF r \in R THEN "waiting" ELSE status[r]]
       /\ blocks' = [r \in Reqs |-> IF r \in R THEN <<>> ELSE blocks[r]]
       /\ gpuRef' = ref
       /\ gpuHash' = IF unused THEN [g \in GpuBlocks |-> None] ELSE gpuHash
       /\ IF connector /\ (unused \/ ~running) THEN ResetCache
          ELSE UNCHANGED <<cache, book, flush, stale, raised>>
    /\ UNCHANGED <<phase, leaving, scheduled, preempted, batch, given, newLoads, newStores,
                   counter, unsubmitted, device, out>>

-----------------------------------------------------------------------------
\* What the engine does without a choice.
Advance ==
    \/ BeginStep \/ EndLoop \/ BuildMeta \/ Submit \/ Forward \/ Poll \/ BeginUpdate \/ Deliver
    \/ \E id \in 0 .. MaxJobs, n \in 1 .. Cardinality(Workers) : Complete(id, n)
    \/ \E r \in Reqs : StoreJob(r)

Choices ==
    \E r \in Reqs : \/ LookUpOnly(r) \/ StartFresh(r) \/ StartLoad(r) \/ Promote(r)
                    \/ Continue(r) \/ Preempt(r) \/ Finish(r)

Device == \E w \in Workers : StreamCompute(w) \/ \E d \in Dirs : StreamCopy(w, d)

Next == Advance \/ Choices \/ Device

Spec == Init /\ [][Next]_vars

\* The engine steps while a request is unfinished, and the streams get on.
Fairness ==
    /\ WF_vars(Advance)
    /\ \A w \in Workers : WF_vars(StreamCompute(w))
    /\ \A w \in Workers, d \in Dirs : WF_vars(StreamCopy(w, d))

FairSpec == Spec /\ Fairness

\* The same with a client that resets the caches.
NextWithReset == Next \/ \E running, connector \in BOOLEAN : Reset(running, connector)
SpecWithReset == Init /\ [][NextWithReset]_vars
=============================================================================
