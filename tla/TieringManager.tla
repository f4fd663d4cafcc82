--------------------------- MODULE TieringManager ---------------------------
(***************************************************************************)
(* v1/kv_offload/tiering: TieringOffloadingManager puts secondary tiers    *)
(* behind the CPU manager.  What is stored on the CPU is cascaded to every *)
(* tier, and a lookup that finds a key only in a tier promotes it: it gets *)
(* a CPU slot at once and is loaded by a job submitted at the end of the   *)
(* step.  The tiers are FileSystemTierManagers (tiering/fs), whose threads *)
(* work on one block at a time.                                            *)
(*                                                                         *)
(* The CPU manager is the OffloadCache it implements, with the slot of     *)
(* each key.  The connector is modelled as far as the manager sees it: one *)
(* full-attention group, enough GPU blocks, all keys of a request looked   *)
(* up from the first, one load and one store for it.  A slot or a file     *)
(* holds the KV of a key.                                                  *)
(***************************************************************************)
EXTENDS Integers, FiniteSets, Sequences, Functions

CONSTANTS
    Reqs, CpuSlots,
    NumTiers,  \* len(secondary_tiers)
    Prompt,    \* the offload keys of each request
    None,
    Junk       \* what a slot holds that nobody has written in full

ASSUME TieringAssumption ==
    /\ IsFiniteSet(Reqs) /\ NumTiers \in Nat
    /\ \A r \in Reqs : Prompt[r] \in Seq(Range(Prompt[r]))

VARIABLES
    phase,      \* where the engine's step is
    status,     \* of a request
    visited,    \* waiting requests this step has looked up
    looking,    \* the request whose keys are being looked up, or None
    hit,        \* hit_count of that lookup
    deferred,   \* its defer_lookup
    storing, stored, readers, slotOf,  \* the primary tier
    gpuJobs,    \* transfers between GPU and CPU
    pending,    \* _pending_load_submissions
    processed,  \* _processed_jobs_this_step
    jobs,       \* _transfer_jobs, with what is left of them in the thread pool
    data,       \* what the CPU slots hold
    files       \* what the files of a tier hold; None: there is no such file

engine == <<phase, status, visited>>
lookup == <<looking, hit, deferred>>
primary == <<storing, stored, readers, slotOf>>
tiering == <<pending, processed, jobs>>
memory == <<data, files>>
vars == <<engine, lookup, primary, gpuJobs, tiering, memory>>

Tiers == 1..NumTiers
Keys == UNION {Range(Prompt[r]) : r \in Reqs}
Cache == INSTANCE OffloadCache WITH Capacity <- Cardinality(CpuSlots)

Init ==
    /\ phase = "idle" /\ status = [r \in Reqs |-> "gone"] /\ visited = {}
    /\ looking = None /\ hit = 0 /\ deferred = FALSE
    /\ Cache!Init /\ slotOf = [k \in Keys |-> None]
    /\ gpuJobs = {} /\ jobs = {} /\ processed = FALSE
    /\ pending = [t \in Tiers |-> [r \in Reqs |-> {}]]
    /\ data = [s \in CpuSlots |-> Junk]
    /\ files = [t \in Tiers |-> [k \in Keys |-> None]]

-----------------------------------------------------------------------------
(* Jobs of the secondary tiers *)

\* The keys of a transfer with the slots it was given when it was prepared.
Blocks(K, slots) == {<<k, slots[k]>> : k \in K}
KeysOf(B) == {b[1] : b \in B}

\* A JobMetadata and its JobState: the blocks no thread has taken, the temporary files
\* that are written and not yet in place, and whether every block so far succeeded.
Job(t, promotion, B) ==
    [tier |-> t, promotion |-> promotion, keys |-> KeysOf(B), todo |-> B, tmp |-> {},
     ok |-> TRUE]

\* Defect: a block that fails is not counted by task_done.
FinishedIfOk(j) == j.todo = {} /\ j.tmp = {} /\ j.ok

\* task_done of the last block.
Finished(j) == j.todo = {} /\ j.tmp = {}

Becomes(j, i) == jobs' = (jobs \ {j}) \cup {i}

\* store_block up to the temporary file; nothing to do if the file exists.
StoreBlock(j, b) ==
    /\ ~j.promotion /\ b \in j.todo
    /\ Becomes(j, [j EXCEPT !.todo = @ \ {b},
                            !.tmp = IF files[j.tier][b[1]] # None THEN @
                                    ELSE @ \cup {<<b[1], data[b[2]]>>}])
    /\ UNCHANGED memory

\* os.replace, or an error of the write.
StoreEnds(j, w) ==
    /\ w \in j.tmp
    /\ files' \in {files, [files EXCEPT ![j.tier][w[1]] = w[2]]}
    /\ Becomes(j, [j EXCEPT !.tmp = @ \ {w}])
    /\ UNCHANGED data

\* load_block: a file that cannot be read is removed.
LoadBlock(j, b) ==
    /\ j.promotion /\ b \in j.todo
    /\ \E success \in BOOLEAN :
       /\ success => files[j.tier][b[1]] # None
       /\ data' = [data EXCEPT ![b[2]] = IF success THEN files[j.tier][b[1]] ELSE Junk]
       /\ files' = IF success THEN files ELSE [files EXCEPT ![j.tier][b[1]] = None]
       /\ Becomes(j, [j EXCEPT !.todo = @ \ {b}, !.ok = @ /\ success])

\* The steps of the threads on one block.
Threads(t, promotion, k) ==
    /\ \E j \in jobs : /\ j.tier = t /\ j.promotion = promotion
                       /\ \/ \E b \in j.todo : b[1] = k /\ (StoreBlock(j, b) \/ LoadBlock(j, b))
                          \/ \E w \in j.tmp : w[1] = k /\ StoreEnds(j, w)
    /\ UNCHANGED <<engine, lookup, primary, gpuJobs, pending, processed>>

\* Defect: complete_write is called for promotions that succeeded only.
GivenUpNone(done) == {}

\* The keys of finished promotions: complete_write with success and without.
Promoted(done) == UNION {j.keys : j \in {i \in done : i.promotion /\ i.ok}}
GivenUp(done) == UNION {j.keys : j \in {i \in done : i.promotion /\ ~i.ok}}

\* _process_finished_jobs.  Every call that begins with _maybe_process_finished_jobs
\* waits for this step once per engine step.
Poll ==
    /\ phase # "idle" /\ ~processed /\ looking = None
    /\ LET done == {j \in jobs : Finished(j)} IN
       /\ storing' = storing \ (Promoted(done) \cup GivenUp(done))
       /\ stored' = stored \cup Promoted(done)
       /\ slotOf' = [k \in Keys |-> IF k \in GivenUp(done) THEN None ELSE slotOf[k]]
       /\ readers' = [k \in Keys |->
              readers[k] - Cardinality({j \in done : ~j.promotion /\ k \in j.keys})]
       /\ jobs' = jobs \ done
    /\ processed' = TRUE
    /\ UNCHANGED <<engine, lookup, gpuJobs, pending, memory>>

-----------------------------------------------------------------------------
(* The step of the engine *)

HasRequests == \E r \in Reqs : status[r] # "gone"

BeginStep ==
    /\ phase = "idle" /\ HasRequests
    /\ phase' = "schedule"
    /\ UNCHANGED <<status, visited, lookup, primary, gpuJobs, tiering, memory>>

\* primary.prepare_store(K) where it stores: no key of `offered' is evicted, and the new
\* keys get the slots that are free.
Allocate(K, offered) ==
    /\ Cache!Store(K)
    /\ stored \cap offered \subseteq stored'
    /\ LET held == [k \in Keys |-> IF k \in storing \cup stored' THEN slotOf[k] ELSE None] IN
       \E new \in Injection(K, CpuSlots \ Range(held)) :
           /\ slotOf' = [k \in Keys |-> IF k \in K THEN new[k] ELSE held[k]]
           /\ data' = [s \in CpuSlots |-> IF s \in Range(new) THEN Junk ELSE data[s]]
    /\ UNCHANGED readers
CanAllocate(K, offered) == Cache!Excess(K) <= Cardinality(Cache!Unread \ offered)

\* _maximal_prefix_lookup of a waiting request begins.
LookUp(r) ==
    /\ phase = "schedule" /\ processed /\ looking = None
    /\ status[r] = "waiting" /\ r \notin visited
    /\ looking' = r /\ hit' = 0 /\ deferred' = FALSE /\ visited' = visited \cup {r}
    /\ UNCHANGED <<phase, status, primary, gpuJobs, tiering, memory>>

NextKey == Prompt[looking][hit + 1]
HasNext == looking # None /\ hit < Len(Prompt[looking])
Holding(k) == {t \in Tiers : files[t][k] # None}

\* lookup answers True, or None for a key that is being stored or promoted.
LookUpPrimary ==
    /\ HasNext /\ NextKey \in storing \cup stored
    /\ hit' = hit + 1 /\ deferred' = (deferred \/ NextKey \in storing)
    /\ UNCHANGED <<engine, looking, primary, gpuJobs, tiering, memory>>

\* lookup finds the key in a tier: _initiate_promotion.
Promote(t) ==
    /\ HasNext /\ NextKey \notin storing \cup stored
    /\ t \in Holding(NextKey) /\ \A u \in Holding(NextKey) : t <= u
    /\ CanAllocate({NextKey}, {})
    /\ Allocate({NextKey}, {NextKey})
    /\ pending' = [pending EXCEPT ![t][looking] = @ \cup Blocks({NextKey}, slotOf')]
    /\ hit' = hit + 1 /\ deferred' = TRUE
    /\ UNCHANGED <<engine, looking, gpuJobs, processed, jobs, files>>

Miss ==
    /\ HasNext /\ NextKey \notin storing \cup stored
    /\ Holding(NextKey) = {} \/ ~CanAllocate({NextKey}, {})
GpuJob(r, store, B) == [req |-> r, store |-> store, blocks |-> B]
Hits == Range(SubSeq(Prompt[looking], 1, hit))

\* The lookup ends, and prepare_load of what it has found unless it was deferred.
EndLookUp ==
    /\ looking # None /\ (hit = Len(Prompt[looking]) \/ Miss)
    /\ IF deferred THEN UNCHANGED <<status, readers, gpuJobs>>
       ELSE IF hit = 0
       THEN /\ status' = [status EXCEPT ![looking] = "running"]
            /\ UNCHANGED <<readers, gpuJobs>>
       ELSE /\ status' = [status EXCEPT ![looking] = "loading"]
            /\ Cache!Read(Hits)
            /\ gpuJobs' = gpuJobs \cup {GpuJob(looking, FALSE, Blocks(Hits, slotOf))}
    /\ looking' = None /\ hit' = 0 /\ deferred' = FALSE
    /\ UNCHANGED <<phase, visited, storing, stored, slotOf, tiering, memory>>

EndSchedule ==
    /\ phase = "schedule" /\ looking = None
    /\ phase' = "stores" /\ visited' = {}
    /\ UNCHANGED <<status, lookup, primary, gpuJobs, tiering, memory>>

\* prepare_store for the keys of a request that are computed and not cached.
Wanted(r) == Range(Prompt[r]) \ (storing \cup stored)
PrepareStore(r) ==
    /\ phase = "stores" /\ processed /\ status[r] = "running"
    /\ status' = [status EXCEPT ![r] = "stored"]
    /\ IF Wanted(r) = {} THEN UNCHANGED <<primary, gpuJobs, data>>
       ELSE /\ CanAllocate(Wanted(r), Range(Prompt[r]))
            /\ Allocate(Wanted(r), Range(Prompt[r]))
            /\ gpuJobs' = gpuJobs \cup {GpuJob(r, TRUE, Blocks(Wanted(r), slotOf'))}
    /\ UNCHANGED <<phase, visited, lookup, tiering, files>>

EndStores ==
    /\ phase = "stores"
    /\ phase' = "update"
    /\ UNCHANGED <<status, visited, lookup, primary, gpuJobs, tiering, memory>>

CompleteLoad(g) ==
    /\ phase = "update" /\ ~g.store
    /\ Cache!Done(KeysOf(g.blocks))
    /\ gpuJobs' = gpuJobs \ {g}
    /\ status' = IF status[g.req] = "loading" THEN [status EXCEPT ![g.req] = "running"]
                 ELSE status
    /\ UNCHANGED <<phase, visited, lookup, storing, stored, slotOf, tiering, memory>>

\* Defect: the cascade does not call prepare_read.
PinnedNot(K) == readers

\* prepare_read of new keys, once for each tier.
Pinned(K) == [k \in Keys |-> IF k \in K THEN NumTiers ELSE readers[k]]

\* complete_store: the keys can be loaded, and are cascaded to every tier.
CompleteStore(g) ==
    /\ phase = "update" /\ g.store
    /\ storing' = storing \ KeysOf(g.blocks) /\ stored' = stored \cup KeysOf(g.blocks)
    /\ readers' = Pinned(KeysOf(g.blocks))
    /\ jobs' = jobs \cup {Job(t, FALSE, Blocks(KeysOf(g.blocks), slotOf)) : t \in Tiers}
    /\ data' = [s \in CpuSlots |-> IF \E b \in g.blocks : b[2] = s
                                   THEN (CHOOSE b \in g.blocks : b[2] = s)[1] ELSE data[s]]
    /\ gpuJobs' = gpuJobs \ {g}
    /\ UNCHANGED <<engine, lookup, slotOf, pending, processed, files>>

\* complete_store(success = False), which the connector never calls: nothing is cascaded.
FailStore(g) ==
    /\ phase = "update" /\ g.store
    /\ storing' = storing \ KeysOf(g.blocks)
    /\ slotOf' = [k \in Keys |-> IF k \in KeysOf(g.blocks) THEN None ELSE slotOf[k]]
    /\ gpuJobs' = gpuJobs \ {g}
    /\ UNCHANGED <<engine, lookup, stored, readers, tiering, memory>>

\* take_events, at the end of a step: one job per tier and request.
Submitted ==
    {Job(p[1], TRUE, pending[p[1]][p[2]]) :
        p \in {q \in Tiers \X Reqs : pending[q[1]][q[2]] # {}}}
TakeEvents ==
    /\ phase = "update" /\ processed
    /\ jobs' = jobs \cup Submitted
    /\ pending' = [t \in Tiers |-> [r \in Reqs |-> {}]]
    /\ processed' = FALSE
    /\ phase' = "idle"
    /\ UNCHANGED <<status, visited, lookup, primary, gpuJobs, memory>>

-----------------------------------------------------------------------------
(* Clients and crashes *)

Arrive(r) ==
    /\ phase = "idle" /\ status[r] = "gone" /\ \A g \in gpuJobs : g.req # r
    /\ status' = [status EXCEPT ![r] = "waiting"]
    /\ UNCHANGED <<phase, visited, lookup, primary, gpuJobs, tiering, memory>>

\* A request ends or is aborted.
Finish(r) ==
    /\ phase = "idle" /\ status[r] # "gone"
    /\ status' = [status EXCEPT ![r] = "gone"]
    /\ UNCHANGED <<phase, visited, lookup, primary, gpuJobs, tiering, memory>>

\* The server is killed and started again: only the files in place survive.
Restart ==
    /\ phase' = "idle" /\ status' = [r \in Reqs |-> "gone"] /\ visited' = {}
    /\ looking' = None /\ hit' = 0 /\ deferred' = FALSE
    /\ Cache!Reset /\ slotOf' = [k \in Keys |-> None]
    /\ gpuJobs' = {} /\ jobs' = {} /\ processed' = FALSE
    /\ pending' = [t \in Tiers |-> [r \in Reqs |-> {}]]
    /\ data' = [s \in CpuSlots |-> Junk]
    /\ UNCHANGED files

-----------------------------------------------------------------------------
\* What the engine does without a choice.
Advance ==
    \/ BeginStep \/ Poll \/ LookUpPrimary \/ EndLookUp \/ EndSchedule \/ EndStores
    \/ TakeEvents \/ \E t \in Tiers : Promote(t)

Choices ==
    \/ \E r \in Reqs : LookUp(r) \/ PrepareStore(r) \/ Arrive(r) \/ Finish(r)
    \/ \E g \in gpuJobs : CompleteLoad(g) \/ CompleteStore(g) \/ FailStore(g)

Next ==
    \/ Advance \/ Choices \/ Restart
    \/ \E t \in Tiers, promotion \in BOOLEAN, k \in Keys : Threads(t, promotion, k)

Spec == Init /\ [][Next]_vars

\* The engine steps while a request is unfinished.  Each queue of the pool is served in
\* order by threads of its own.
Fairness ==
    /\ WF_vars(Advance)
    /\ \A t \in Tiers, k \in Keys : WF_vars(Threads(t, TRUE, k))

FairSpec == Spec /\ Fairness
=============================================================================
