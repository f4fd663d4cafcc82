---------------------- MODULE OffloadingConnectorProps ----------------------
(***************************************************************************)
(* What the offloading connector promises the engine, the cache and the    *)
(* requests.                                                               *)
(***************************************************************************)
EXTENDS OffloadingConnector

\* No step is under way and every output has been processed.
Quiet == phase = "idle" /\ outputs = <<>>

\* A key that can be loaded is in its slot on every worker.  complete_store publishes it
\* only after the last worker's copy (pending_count), no store has read a GPU block after
\* it was given to another request, and no slot was refilled under a transfer.
StoredKVExact == \A k \in stored, w \in Workers : cpuKV[w][slotOf[k]] = k

\* Between steps, the blocks that the prefix cache offers and the blocks of a request that
\* may run hold the KV they stand for, on every worker: no load writes a block that
\* has gone to another request, and a loaded request waits for all workers.
GpuKVExact ==
    Quiet => \A w \in Workers :
        /\ \A g \in GpuBlocks : gpuHash[g] # None => gpuKV[w][g] = gpuHash[g]
        /\ \A r \in Reqs : status[r] \in {"running", "loaded", "ready"} =>
               \A i \in DOMAIN blocks[r] : gpuKV[w][blocks[r][i]] = Prompt[r][i]

\* A store reads what it was made for: from the moment it may run until it has, its GPU
\* blocks keep their KV, although the request may have been preempted or have finished
\* and its blocks may have been given away.  jobs_to_flush fences their reuse.
SourcesKept ==
    \A w \in Workers : \A i \in DOMAIN stream[w]["store"] :
        LET copy == stream[w]["store"][i] IN
        copy.after = 0 => {gpuKV[w][g] : g \in Sources(copy.job)} = copy.job.keys

\* No assertion and no dictionary lookup of the scheduler side fails: a load is issued only
\* when no other job of its request is pending, a store only when no load is, and every
\* job a worker reports or a request records is known.
NoRaise == ~raised

\* When the engine stops stepping nothing is left behind: no job, no tracked request, no
\* deferred key, no pin and no fence, although the workers are not polled again
\* (build_connector_meta flushes all jobs with the last step).
SettledWhenIdle ==
    Quiet /\ ~HasRequests =>
        /\ jobs = {} /\ tracked = {} /\ loading = {}
        /\ storing = {} /\ \A k \in Keys : readers[k] = 0
        /\ \A g \in GpuBlocks : pendingOf[g] = {}

\* A lookup that is deferred because of another request's transfer is not deferred for
\* ever (_lookup returns None while a hit is being stored or loaded).
Waits(r) == status[r] = "waiting" /\ Deferred(r)
DeferralEnds == \A r \in Reqs : Waits(r) ~> ~Waits(r)
=============================================================================
