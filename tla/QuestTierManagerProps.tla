---------------------- MODULE QuestTierManagerProps ----------------------
(***************************************************************************)
(* What the tier manager of QuestTierManager promises.                     *)
(***************************************************************************)
EXTENDS QuestTierManager

Errors == {"no host backup", "pool exhausted", "begin_evict", "begin_load",
           "not found", "arena overflow", "not resident"}

EngineType ==
    /\ status \in [Seqs -> {"new", "prefill", "decode", "done"}]
    /\ full \in [Seqs -> 0 .. MaxBlocks]
    /\ part \in [Seqs -> Rows]
    /\ read \subseteq (Key \cup {Junk}) \X Rows
    /\ err \in Errors \cup {"none"}

LoopType ==
    /\ pc \in {"idle", "prefetch", "gcIngest", "gcDecode", "ingest", "stage",
               "notify", "fill", "select", "ensure", "failed"}
    /\ todo \subseteq Seqs
    /\ cur \in Seqs \cup {None}
    /\ sel \subseteq Blocks
    /\ left \subseteq Blocks

ArenaType ==
    /\ keyToSlot \in [Key -> Slots \cup {None}]
    /\ older \subseteq Key \X Key
    /\ freeSlots \subseteq Slots
    /\ gpuKV \in [Slots -> Content]

PoolType ==
    /\ cpuSlots \in [Key -> CpuSlots \cup {None}]
    /\ hostSlots \in [Key -> CpuSlots \cup {None}]
    /\ cpuFree \subseteq CpuSlots
    /\ cpuKV \in [CpuSlots -> Content]

BookType ==
    /\ onCpu \subseteq Blocks
    /\ summary \in [Blocks -> Content]
    /\ trimmed \subseteq Seqs
    /\ activeSeqs \subseteq Seqs
    /\ prevSelected \in [Seqs -> SUBSET Blocks]

\* Where the forward pass is, the request it visits exists, and the blocks it
\* computes from the lengths are blocks the tables have a row for.
PassWellFormed ==
    /\ \A s \in Seqs : part[s] > 0 => full[s] < MaxBlocks
    /\ pc \in {"gcIngest", "ingest", "stage", "fill", "ensure"} => cur \in Seqs
    /\ pc = "stage" => part[cur] > 0
    /\ pc \in {"prefetch", "gcDecode", "notify", "fill"} =>
        /\ todo \subseteq running
        /\ \A s \in running : full[s] > 0
    /\ pc = "fill" => cur \in running

\* Every variable holds a value of its kind, and no index that forward() derives
\* from a sequence length is out of the range of the arrays it indexes.
TypeOK == EngineType /\ LoopType /\ ArenaType /\ PoolType /\ BookType /\ PassWellFormed

\* _LRUSlotMap: a slot belongs to one key or to the free list, never to both
\* and never to neither, and the OrderedDict orders exactly the resident keys.
ArenaAccounting ==
    /\ \A j, k \in Resident : keyToSlot[j] = keyToSlot[k] => j = k
    /\ freeSlots = Slots \ {keyToSlot[k] : k \in Resident}
    /\ older \in Orders(Resident)

\* The blocks the manager has a slot for, in the arena or in the pool.
Held == {k \in Key : keyToSlot[k] # None \/ cpuSlots[k] # None \/ hostSlots[k] # None}

\* trim_to_working_set and prefill_ingest_kvshare run once per request, on a
\* request the manager holds nothing of: they never give a block a second slot.
\* (A one-token prompt of the kvshare footprint is never ingested, and gets its
\* first slot when a token is appended.)
UntrimmedHoldNothing ==
    /\ \A k \in Held : k[1] \notin trimmed =>
            /\ KvShare /\ status[k[1]] \in {"decode", "done"}
            /\ ~(pc \in {"gcIngest", "ingest"} /\ cur = k[1])
    /\ pc \in {"stage", "fill"} => cur \in trimmed

\* ensure_resident: "the protected set sits at the MRU end and (selected + keep)
\* <= cap".  All of pass 2 every needed block is nearer the MRU end than every
\* other block, and there are too few of them to fill the arena.
NeededNewest ==
    pc = "ensure" =>
        /\ \A j \in Resident \ Needed, k \in Resident \cap Needed : <<j, k>> \in older
        /\ left \subseteq sel
        /\ IsFiniteSet(sel) /\ Cardinality(sel) <= TopK

\* CpuKvBackingStore: a host slot backs one block or is free; none leaks and
\* none is handed out twice.
Backing == {k \in Key : cpuSlots[k] # None} \X {"spilled"}
               \cup {k \in Key : hostSlots[k] # None} \X {"mirror"}
BackingSlot(x) == IF x[2] = "spilled" THEN cpuSlots[x[1]] ELSE hostSlots[x[1]]

PoolAccounting ==
    /\ \A x, y \in Backing : BackingSlot(x) = BackingSlot(y) => x = y
    /\ cpuFree = CpuSlots \ {BackingSlot(x) : x \in Backing}

\* The promise of ensure_resident and of the gather in run_sparse_decode: when
\* the slots are looked up, every selected block and the live block is in the
\* arena, and its slot holds that block's tokens.
Holds(k, n) ==
    /\ k \in Resident
    /\ \A r \in Rows : r < n => gpuKV[keyToSlot[k]][r] = k

GatherExact ==
    pc = "ensure" /\ left = {} =>
        /\ \A b \in sel : Holds(<<cur, b>>, BlockSize)
        /\ \A b \in Live(cur) : Holds(<<cur, b>>, part[cur])

\* The docstring of ensure_resident: "no block needed this step is evicted before
\* it is gathered".
NeededNeverEvicted ==
    [][pc = "ensure" /\ pc' = "ensure" =>
            \A k \in Needed \cap Resident : keyToSlot'[k] = keyToSlot[k]]_vars

\* QuestConfig.validate: only "a window >= arena would evict blocks the same
\* prefetch pass brought in".
PrefetchKeepsItsBlocks ==
    [][pc = "prefetch" /\ cur # None =>
            \A b \in sel \ left : keyToSlot'[<<cur, b>>] # None]_vars

\* At selection every full block of a request is in the arena or can be reloaded,
\* and each of its copies is the whole block, its last row included.
EveryBlockIntact ==
    pc = "select" => \A s \in todo : \A b \in Blocks : b < full[s] =>
        LET k == <<s, b>> IN
        /\ k \in Resident \/ Source(k) # None
        /\ k \in Resident => gpuKV[keyToSlot[k]] = FullBlock(s, b)
        /\ cpuSlots[k] # None => cpuKV[cpuSlots[k]] = FullBlock(s, b)
        /\ hostSlots[k] # None => cpuKV[hostSlots[k]] = FullBlock(s, b)

\* BlockResidency: between calls a block is ON_CPU exactly when some request
\* of the batch holds it on the host and not in the arena.
ResidencyExact ==
    pc \in {"select", "ensure"} =>
        onCpu = {b \in Blocks : \E s \in running :
                    keyToSlot[<<s, b>>] = None /\ Source(<<s, b>>) # None}

\* No call of the manager raises.
NoException == err = "none"

\* What selection reads: the digest of every candidate is the digest of that
\* block of the request being scored.
SummariesCurrent ==
    pc = "select" => \A s \in todo : \A b \in Blocks :
        b < full[s] => summary[b] = FullBlock(s, b)

\* free_request: once the last request that ran is collected nothing of it is
\* left, so at a decode pass the manager's state is only about the batch.
NoStaleState ==
    pc \in {"notify", "fill", "select", "ensure"} =>
        \A k \in Held : k[1] \in running

\* A prefetched block can be found: ensure_resident's "neither on GPU nor in CPU
\* pool" is never raised.
NoBlockMissing == err # "not found"

\* The manager implements sparse attention: what the kernel reads from the arena
\* are the tokens of TopK full blocks and of the live block of the request, in
\* every pass, once for each request of the batch.
Attention == INSTANCE SparseAttention WITH
    pending <- IF pc \in {"prefetch", "gcDecode", "notify", "fill"} THEN running
               ELSE IF pc \in {"select", "ensure"} THEN todo ELSE {}
ImplementsAttention == Attention!Spec
=============================================================================
