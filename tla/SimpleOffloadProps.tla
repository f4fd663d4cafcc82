------------------------- MODULE SimpleOffloadProps -------------------------
(* What v1/simple_kv_offload promises. *)
EXTENDS SimpleOffload

\* Reference counts are exact: a CPU block is held once by every pin, load and store
\* that uses it, a GPU block by every block table, load and store.  Nothing stays
\* referenced after its request finished, was preempted or was looked up twice
\* (get_num_new_matched_tokens, update_state_after_alloc, request_finished).
RefsExact ==
    /\ \A c \in CpuBlocks :
        cpuRef[c] = Cardinality({r \in Reqs : c \in hits[r]})
                    + Cardinality({r \in Reqs : \E p \in toLoad[r] : p[1] = c})
                    + Cardinality({t \in inStore : t[3] = c})
    /\ \A g \in GpuBlocks :
        gpuRef[g] = Cardinality({r \in Reqs : g \in Range(blocks[r])})
                    + Cardinality({r \in Reqs : \E p \in toLoad[r] : p[2] = g})
                    + Cardinality({t \in inStore : t[2] = g})

\* A block in the CPU pool's hash map holds the KV of its hash: it is published
\* (_process_store_completion) only after the copy ran, and leaves the map before
\* another copy overwrites it.
CacheCoherent == \A c \in cached : cpuKV[c] = cpuHash[c]

Copies ==
    Range(queue) \cup Range(stream["load"]) \cup Range(stream["store"]) \cup Range(meta)

\* From build_connector_meta to its execution a copy keeps both ends: a store reads a
\* block that still carries the hash stamped on the CPU block, which is not published
\* yet; a load reads a block that stays published, into a block that is not yet cached.
\* Requests are preempted, aborted and scheduled meanwhile, and the flush before a
\* preempted request's blocks are reused misses the copies still in the thread's queue:
\* only the touch of the blocks at either end protects them.
CopiesKeepTheirBlocks ==
    \A x \in Copies : \A p \in x.pairs :
        IF x.dir = "store"
        THEN gpuHash[p[1]] = cpuHash[p[2]] /\ p[2] \notin cached
        ELSE p[1] \in cached /\ gpuHash[p[2]] = None

\* What a request has computed or loaded, and the step under way does not write, is on the
\* GPU: whatever was preempted, aborted, evicted or copied meanwhile, attention reads the
\* KV of the request's own tokens.
Written == {p[1] : p \in batch} \cup {p[1] : p \in UNION Range(computing)}
KVExact ==
    \A r \in Reqs : status[r] \in {"loaded", "ready", "running"} =>
        \A i \in DOMAIN blocks[r] :
            blocks[r][i] \notin Written => gpuKV[blocks[r][i]] = Prompt[r][i]

\* The copy of event j has left the thread, which recorded its event.
Recorded(d, j) ==
    /\ thread # None => thread.dir # d \/ thread.idx # j
    /\ \A x \in Range(queue) \cup Range(meta) : x.dir # d \/ x.idx # j

\* An event that is recorded and not reported is on the worker's list, or the high-water
\* mark covers it: "When the event list is empty, the hwm covers all prior events."
Tracked(d, j) == Recorded(d, j) => j <= hwm[d] \/ j \in Range(events[d])
RecordedEventsTracked == \A d \in Dirs : \A j \in pend[d] : Tracked(d, j)

\* Every load ends: its blocks are handed to the request, or freed if it was aborted.  As
\* there are finitely many, again and again none is outstanding.  The exception is an
\* event that the worker lost track of (RecordedEventsTracked).
LoadsEnd ==
    []<>(\A r \in Reqs :
            toLoad[r] = {} \/ \E j \in pend["load"] : j = loadEvent[r] /\ ~Tracked("load", j))
=============================================================================
