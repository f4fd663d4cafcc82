------------------------- MODULE QuestTierManager -------------------------
(***************************************************************************)
(* The Quest KV tier manager of ONE attention layer and the forward passes *)
(* that drive it (vllm/v1/attention/backends/quest).                       *)
(*                                                                         *)
(* A request's KV cache is a row of blocks of BlockSize tokens.  Only a    *)
(* bounded arena of GPU slots is kept for the layer; every other block     *)
(* lives in a pool of host slots.  A decode step brings the selected       *)
(* blocks back into the arena, evicting others, and then attends to the    *)
(* selected blocks and to the live (partial) one.                          *)
(*                                                                         *)
(* A slot's content is a function from rows to the key <<request, block>>  *)
(* whose token that row holds, so a row holds the right K/V exactly when   *)
(* it names the block that is looked up.                                   *)
(*                                                                         *)
(* Copies take effect in program order (stream_pool = None, or a stream    *)
(* pool whose copies are complete when they are used).                     *)
(***************************************************************************)
EXTENDS Integers, FiniteSets, Functions

CONSTANTS
    Seqs,           \* request ids; an id is used by one request only
    Slots,          \* arena rows: gpu_cache_blocks_per_seq of them
    CpuSlots,       \* rows of the layer's host pool
    BlockSize,      \* tokens per block
    MaxBlocks,      \* BOUND: cdiv(max_model_len, block_size)
    TopK,           \* blocks selected per decode step
    Window,         \* prefetch_window_blocks (after the backfill of 0)
    WriteThrough,   \* enable_write_through
    KvShare,        \* footprint_kvshare
    Ordering,       \* block_ordering: "lru", "prefetch" or "mixture"
    PrefetchTouch,  \* prefetch_touch
    MaxBatch,       \* max_num_seqs
    Prompts,        \* prompt lengths, as pairs <<full blocks, extra rows>>
    Chunked,        \* whether a prompt may be prefilled in several chunks
    Junk,           \* content of a row that was never written
    None

Blocks == 0 .. (MaxBlocks - 1)
Rows == 0 .. (BlockSize - 1)
Key == Seqs \X Blocks
Content == [Rows -> Key \cup {Junk}]
Cap == Cardinality(Slots)

ASSUME SizeAssumption ==
    /\ BlockSize \in Nat \ {0, 1}
    /\ MaxBlocks \in Nat \ {0}
    /\ TopK \in Nat \ {0}
    /\ Window \in Nat
    /\ MaxBatch \in Nat \ {0}
    /\ Prompts \subseteq Blocks \X Rows
ASSUME ArenaAssumption == IsFiniteSet(Slots) /\ IsFiniteSet(CpuSlots)
ASSUME FlagAssumption ==
    /\ WriteThrough \in BOOLEAN
    /\ KvShare \in BOOLEAN
    /\ PrefetchTouch \in BOOLEAN
    /\ Chunked \in BOOLEAN
    /\ Ordering \in {"lru", "prefetch", "mixture"}

\* validate_quest_configuration: "one arena slot is reserved for the live decode
\* block".
ArenaFits == TopK <= Cap - 1

\* What QuestConfig.validate asks of the fields that are constants here; Window
\* is the effective window, after 0 is replaced by top_k.
ValidConfig ==
    /\ TopK > 0 /\ TopK <= Cap
    /\ BlockSize > 0
    /\ Ordering # "lru" => Window > 0 /\ Window < Cap
    /\ PrefetchTouch => Ordering \notin {"lru", "prefetch"}

ASSUME TopKAssumption == ArenaFits
ASSUME ConfigAssumption == ValidConfig
ASSUME NoneAssumption ==
    /\ None \notin Slots \cup CpuSlots \cup Seqs \cup Key
    /\ Junk \notin Key

VARIABLES
    status,       \* "new", "prefill", "decode" or "done", per request
    full,         \* seq_len // block_size, per request
    part,         \* seq_len % block_size, per request
    pc,           \* where the layer's forward pass is
    todo,         \* requests the current loop has still to visit
    cur,          \* the request being visited
    sel,          \* top_ids of cur (in a prefetch, the previous layer's)
    left,         \* blocks of the current loop still to be made resident
    keyToSlot,    \* _LRUSlotMap._key_to_slot, None where absent
    older,        \* its order: <<j, k>> when j is nearer the LRU end than k
    freeSlots,    \* _LRUSlotMap._free_slots
    gpuKV,        \* gpu_k / gpu_v
    cpuSlots,     \* TierManager._cpu_slots (write-back), None where absent
    hostSlots,    \* TierManager._host_slots (write-through)
    cpuFree,      \* CpuKvBackingStore._free of this layer
    cpuKV,        \* the pool's contents
    onCpu,        \* blocks whose BlockResidency state is ON_CPU
    summary,      \* BlockSummaryStore: the content a block's digest is of
    trimmed,      \* TierManager._trimmed
    activeSeqs,   \* TierManager._active_seqs
    prevSelected, \* TierManager._prev_selected
    read,         \* the tokens the last sparse attention read
    err           \* the exception that ended the engine, or "none"

engine == <<status, full, part>>
loop == <<todo, cur, sel, left>>
arena == <<keyToSlot, older, freeSlots, gpuKV>>
pool == <<cpuSlots, hostSlots, cpuFree, cpuKV>>
book == <<trimmed, activeSeqs, prevSelected>>
vars == <<engine, pc, loop, arena, pool, onCpu, summary, book, read, err>>

running == {s \in Seqs : status[s] = "decode"}
Resident == {k \in Key : keyToSlot[k] # None}

\* The content of block b of request s once all its rows are written.
FullBlock(s, b) == [r \in Rows |-> <<s, b>>]
FirstRows(n) == {r \in Rows : r < n}

Init ==
    /\ status = [s \in Seqs |-> "new"]
    /\ full = [s \in Seqs |-> 0]
    /\ part = [s \in Seqs |-> 0]
    /\ pc = "idle"
    /\ todo = {} /\ cur = None /\ sel = {} /\ left = {}
    /\ keyToSlot = [k \in Key |-> None]
    /\ older = {}
    /\ freeSlots = Slots
    /\ gpuKV = [g \in Slots |-> [r \in Rows |-> Junk]]
    /\ cpuSlots = [k \in Key |-> None]
    /\ hostSlots = [k \in Key |-> None]
    /\ cpuFree = CpuSlots
    /\ cpuKV = [c \in CpuSlots |-> [r \in Rows |-> Junk]]
    /\ onCpu = {}
    /\ summary = [b \in Blocks |-> [r \in Rows |-> Junk]]
    /\ trimmed = {}
    /\ activeSeqs = {}
    /\ prevSelected = [s \in Seqs |-> {}]
    /\ read = {}
    /\ err = "none"

-----------------------------------------------------------------------------
(***************************************************************************)
(* The arena: _LRUSlotMap.  The order of the OrderedDict is the strict     *)
(* total order "older" on the resident keys.  The free list is a set: the  *)
(* slot that pop() returns is any free one.                                *)
(***************************************************************************)
Oldest(S) == CHOOSE k \in S : \A j \in S \ {k} : <<k, j>> \in older

\* Defect: popitem(last=True), the MRU end.
VictimNewest(P) == CHOOSE k \in Resident : \A j \in Resident \ {k} : <<j, k>> \in older

\* The key add() evicts from a full map, given the protected keys.
Victim(P) == IF Resident \subseteq P THEN Oldest(Resident) ELSE Oldest(Resident \ P)

\* The order after the keys S are moved to the MRU end, where r orders them.
MoveToEnd(keys, S, r) ==
    {p \in older : p[1] \in keys \ S /\ p[2] \in keys \ S}
        \cup ((keys \ S) \X S) \cup r

\* move_to_end(k, last = mru)
MoveOne(keys, k, mru) ==
    IF mru THEN MoveToEnd(keys, {k}, {})
    ELSE {p \in older : p[1] \in keys \ {k} /\ p[2] \in keys \ {k}}
             \cup ({k} \X (keys \ {k}))

\* add(k, protected = P) returns (g, e); e = None when nothing is evicted.
AddReturns(k, P, g, e) ==
    \/ keyToSlot[k] # None /\ g = keyToSlot[k] /\ e = None
    \/ keyToSlot[k] = None /\ g \in freeSlots /\ e = None
    \/ /\ keyToSlot[k] = None /\ freeSlots = {}
       /\ e = Victim(P) /\ g = keyToSlot[e]

\* Defect: the evicted key is not popped.
AddKeepsEvicted(k, g, e, mru) ==
    /\ keyToSlot' = [keyToSlot EXCEPT ![k] = g]
    /\ freeSlots' = freeSlots \ {g}
    /\ older' = MoveOne((Resident \ {e}) \cup {k}, k, mru)

Add(k, g, e, mru) ==
    /\ keyToSlot' = [j \in Key |-> IF j = k THEN g
                                   ELSE IF j = e THEN None ELSE keyToSlot[j]]
    /\ freeSlots' = freeSlots \ {g}
    /\ older' = MoveOne((Resident \ {e}) \cup {k}, k, mru)

\* get(k): a hit moves k to the MRU end; the no-touch prefetch moves it back.
Get(k, mru) ==
    /\ older' = MoveOne(Resident, k, mru)
    /\ UNCHANGED <<keyToSlot, freeSlots, gpuKV>>

-----------------------------------------------------------------------------
(***************************************************************************)
(* The host pool and the residency table.  EVICTING and LOADING exist only *)
(* inside one call, so a block's state between calls is ON_GPU or ON_CPU.  *)
(***************************************************************************)
\* Defect: finish_evict is not called.
NoBlock(e) == {}

\* The block whose residency the eviction of e changes.
BlockOf(e) == IF e = None THEN {} ELSE {e[2]}

\* The exception spill_hook raises for the evicted key e, or "none".
SpillError(e) ==
    IF e = None THEN "none"
    ELSE IF WriteThrough /\ hostSlots[e] = None THEN "no host backup"
    ELSE IF ~WriteThrough /\ cpuFree = {} THEN "pool exhausted"
    ELSE IF e[2] \in onCpu THEN "begin_evict" ELSE "none"

\* _spill_to_cpu: the content of e goes to a fresh host slot c.
SpillToCpu(e, c, content) ==
    /\ c \in cpuFree
    /\ cpuFree' = cpuFree \ {c}
    /\ cpuSlots' = [cpuSlots EXCEPT ![e] = c]
    /\ cpuKV' = [cpuKV EXCEPT ![c] = content]
    /\ UNCHANGED hostSlots

\* Defect: a block that has its host slot is given another.
MirrorAgain(k, content) ==
    \E c \in cpuFree :
        /\ cpuFree' = cpuFree \ {c}
        /\ hostSlots' = [hostSlots EXCEPT ![k] = c]
        /\ cpuKV' = [cpuKV EXCEPT ![c] = content]
        /\ UNCHANGED cpuSlots

\* _mirror_to_host: a full block gets its durable host slot once.
MirrorToHost(k, content) ==
    IF hostSlots[k] # None THEN UNCHANGED pool
    ELSE \E c \in cpuFree :
            /\ cpuFree' = cpuFree \ {c}
            /\ hostSlots' = [hostSlots EXCEPT ![k] = c]
            /\ cpuKV' = [cpuKV EXCEPT ![c] = content]
            /\ UNCHANGED cpuSlots

Raise(e) ==
    /\ pc' = "failed" /\ err' = e
    /\ UNCHANGED <<engine, loop, arena, pool, onCpu, summary, book, read>>

(***************************************************************************)
(* What on_block_filled, write_live_block, append_decode_token_kvshare and *)
(* the tail of prefill_ingest_kvshare share: give k a slot, spill what it  *)
(* evicts, copy the rows C of the block, of which W hold tokens, into the  *)
(* slot, mark k on the GPU and, if the block is full, mirror it under      *)
(* write-through.                                                          *)
(***************************************************************************)
StageError(k, e, isFull) ==
    IF SpillError(e) # "none" THEN SpillError(e)
    ELSE IF WriteThrough /\ isFull /\ hostSlots[k] = None /\ cpuFree = {}
         THEN "pool exhausted" ELSE "none"

CopyRows(old, k, C, W) ==
    [r \in Rows |-> IF r \notin C THEN old[r] ELSE IF r \in W THEN k ELSE Junk]

\* Defect: the slot is overwritten before the spill, mirrored before the copy.
StagePoolSwapped(k, e, isFull, old, new) ==
    IF WriteThrough /\ isFull THEN MirrorToHost(k, old)
    ELSE IF ~WriteThrough /\ e # None THEN \E c \in cpuFree : SpillToCpu(e, c, new)
    ELSE UNCHANGED pool

\* The pool's part: e's content old is spilled, or k's content new is mirrored.
StagePool(k, e, isFull, old, new) ==
    IF WriteThrough /\ isFull THEN MirrorToHost(k, new)
    ELSE IF ~WriteThrough /\ e # None THEN \E c \in cpuFree : SpillToCpu(e, c, old)
    ELSE UNCHANGED pool

Stage(k, C, W, isFull) ==
    \E g \in Slots, e \in Key \cup {None} :
        /\ AddReturns(k, {}, g, e)
        /\ StageError(k, e, isFull) = "none"
        /\ Add(k, g, e, TRUE)
        /\ gpuKV' = [gpuKV EXCEPT ![g] = CopyRows(gpuKV[g], k, C, W)]
        /\ onCpu' = (onCpu \cup BlockOf(e)) \ {k[2]}
        /\ StagePool(k, e, isFull, gpuKV[g], CopyRows(gpuKV[g], k, C, W))

StageRaises(k, isFull) ==
    \E g \in Slots, e \in Key \cup {None} :
        /\ AddReturns(k, {}, g, e)
        /\ StageError(k, e, isFull) # "none"
        /\ Raise(StageError(k, e, isFull))

(***************************************************************************)
(* trim_to_working_set and the loop of prefill_ingest_kvshare: of the n    *)
(* full blocks of s the last Cap - 1 get arena slots, in ascending order   *)
(* of recency; the earlier ones go to the host pool.  Under write-through  *)
(* every one of them gets a host slot.                                     *)
(***************************************************************************)
Kept(n) == {b \in Blocks : b < n /\ b >= n - (Cap - 1)}
Spilled(n) == {b \in Blocks : b < n /\ b < n - (Cap - 1)}
Backed(n) == IF WriteThrough THEN {b \in Blocks : b < n} ELSE Spilled(n)

\* The slot array kv after the blocks of DOMAIN f are copied to their slots.
CopyBlocks(kv, s, f) ==
    [g \in DOMAIN kv |->
        IF \E b \in DOMAIN f : f[b] = g
        THEN FullBlock(s, CHOOSE b \in DOMAIN f : f[b] = g) ELSE kv[g]]

\* The slot map m after <<s, b>> is entered with slot f[b], for each b.
EnterSlots(m, s, f) ==
    [k \in Key |-> IF k[1] = s /\ k[2] \in DOMAIN f THEN f[k[2]] ELSE m[k]]

\* Defect: the request is trimmed, but not recorded as such.
ForgetTrim(s) == UNCHANGED trimmed

MarkTrimmed(s) == trimmed' = trimmed \cup {s}

EstablishWorkingSet(s, n) ==
    \E f \in Injection(Kept(n), freeSlots), h \in Injection(Backed(n), cpuFree) :
        /\ Spilled(n) \cap onCpu = {}
        /\ keyToSlot' = EnterSlots(keyToSlot, s, f)
        /\ freeSlots' = freeSlots \ {f[b] : b \in Kept(n)}
        /\ older' = older \cup (Resident \X ({s} \X Kept(n)))
                        \cup {<<<<s, p[1]>>, <<s, p[2]>>>> :
                                p \in {q \in Kept(n) \X Kept(n) : q[1] < q[2]}}
        /\ gpuKV' = CopyBlocks(gpuKV, s, f)
        /\ cpuSlots' = IF WriteThrough THEN cpuSlots ELSE EnterSlots(cpuSlots, s, h)
        /\ hostSlots' = IF WriteThrough THEN EnterSlots(hostSlots, s, h) ELSE hostSlots
        /\ cpuFree' = cpuFree \ {h[b] : b \in Backed(n)}
        /\ cpuKV' = CopyBlocks(cpuKV, s, h)
        /\ onCpu' = (onCpu \ Kept(n)) \cup Spilled(n)
        /\ MarkTrimmed(s)

\* The exception block b of the n raises, if the blocks before it raised none:
\* it is the b-th to take a host slot.
BlockError(n, b) ==
    IF b \in Kept(n) /\ Cardinality({a \in Kept(n) : a < b}) >= Cardinality(freeSlots)
    THEN "arena overflow"
    ELSE IF b \in Backed(n) /\ b >= Cardinality(cpuFree) THEN "pool exhausted"
    ELSE IF b \in Spilled(n) \cap onCpu THEN "begin_evict" ELSE "none"

WorkingSetError(n) ==
    LET bad == {b \in Blocks : b < n /\ BlockError(n, b) # "none"}
    IN  IF bad = {} THEN "none"
        ELSE BlockError(n, CHOOSE b \in bad : \A a \in bad : b <= a)

\* free_request for every request of G.
FreeRequests(G) ==
    LET gone == G \X Blocks
        held == {k \in gone : \/ keyToSlot[k] # None
                              \/ cpuSlots[k] # None
                              \/ hostSlots[k] # None}
    IN  /\ keyToSlot' = [k \in Key |-> IF k \in gone THEN None ELSE keyToSlot[k]]
        /\ freeSlots' = freeSlots \cup ({keyToSlot[k] : k \in gone} \ {None})
        /\ older' = {p \in older : p[1] \notin gone /\ p[2] \notin gone}
        /\ cpuSlots' = [k \in Key |-> IF k \in gone THEN None ELSE cpuSlots[k]]
        /\ hostSlots' = [k \in Key |-> IF k \in gone THEN None ELSE hostSlots[k]]
        /\ cpuFree' = cpuFree \cup (({cpuSlots[k] : k \in gone}
                                       \cup {hostSlots[k] : k \in gone}) \ {None})
        /\ onCpu' = onCpu \ {k[2] : k \in held}
        /\ trimmed' = trimmed \ G
        /\ prevSelected' = [s \in Seqs |-> IF s \in G THEN {} ELSE prevSelected[s]]
        /\ UNCHANGED <<gpuKV, cpuKV>>

-----------------------------------------------------------------------------
(***************************************************************************)
(* _ensure_one_sync / _ensure_one_async for block b of request s.          *)
(***************************************************************************)
\* Defect: the previous selection is not protected.
NoProtectedKeys(s) == {}

ProtectedKeys(s) ==
    IF Ordering = "mixture" THEN {<<s, b>> : b \in prevSelected[s]} ELSE {}

\* The host slot a reload of k reads: the durable one, or the spilled one.
Source(k) == IF WriteThrough THEN hostSlots[k] ELSE cpuSlots[k]

EnsureError(k, e) ==
    IF SpillError(e) # "none" THEN SpillError(e)
    ELSE IF k[2] \notin onCpu \cup BlockOf(e) THEN "begin_load" ELSE "none"

\* Defect: the reloaded block's host slot is not freed.
ReloadPoolLeaks(k, e, g) ==
    IF WriteThrough THEN UNCHANGED pool
    ELSE /\ UNCHANGED hostSlots
         /\ IF e = None
            THEN cpuSlots' = [cpuSlots EXCEPT ![k] = None] /\ UNCHANGED <<cpuFree, cpuKV>>
            ELSE \E c \in cpuFree :
                 /\ cpuSlots' = [cpuSlots EXCEPT ![k] = None, ![e] = c]
                 /\ cpuFree' = cpuFree \ {c}
                 /\ cpuKV' = [cpuKV EXCEPT ![c] = gpuKV[g]]

\* Write-back: the reload's host slot is freed after the spill took another.
ReloadPool(k, e, g) ==
    IF WriteThrough THEN UNCHANGED pool
    ELSE /\ UNCHANGED hostSlots
         /\ IF e = None
            THEN /\ cpuSlots' = [cpuSlots EXCEPT ![k] = None]
                 /\ cpuFree' = cpuFree \cup {cpuSlots[k]}
                 /\ UNCHANGED cpuKV
            ELSE \E c \in cpuFree :
                 /\ cpuSlots' = [cpuSlots EXCEPT ![k] = None, ![e] = c]
                 /\ cpuFree' = (cpuFree \ {c}) \cup {cpuSlots[k]}
                 /\ cpuKV' = [cpuKV EXCEPT ![c] = gpuKV[g]]

EnsureOne(k, mru) ==
    \/ keyToSlot[k] # None /\ Get(k, mru) /\ UNCHANGED <<pool, onCpu>>
    \/ /\ keyToSlot[k] = None /\ Source(k) # None
       /\ \E g \in Slots, e \in Key \cup {None} :
            /\ AddReturns(k, ProtectedKeys(k[1]), g, e)
            /\ EnsureError(k, e) = "none"
            /\ Add(k, g, e, mru)
            /\ gpuKV' = [gpuKV EXCEPT ![g] = cpuKV[Source(k)]]
            /\ ReloadPool(k, e, g)
            /\ onCpu' = (onCpu \cup BlockOf(e)) \ {k[2]}

EnsureOneRaises(k) ==
    /\ keyToSlot[k] = None
    /\ \/ Source(k) = None /\ Raise("not found")
       \/ /\ Source(k) # None
          /\ \E g \in Slots, e \in Key \cup {None} :
                /\ AddReturns(k, ProtectedKeys(k[1]), g, e)
                /\ EnsureError(k, e) # "none"
                /\ Raise(EnsureError(k, e))

-----------------------------------------------------------------------------
(***************************************************************************)
(* The engine.  A forward pass prefills one request (dense; running        *)
(* requests decode one token in the same batch) or decodes one token of    *)
(* every running request.                                                  *)
(***************************************************************************)
\* Defect: one token too many.
RoomForOneMore(s) == full[s] <= MaxBlocks

\* A request that has reached max_model_len is given no further token.
Room(s) == full[s] < MaxBlocks

\* One more token for each request of S.
AdvanceFull(S) == [s \in Seqs |-> IF s \in S /\ part[s] + 1 = BlockSize
                                  THEN full[s] + 1 ELSE full[s]]
AdvancePart(S) == [s \in Seqs |-> IF s \notin S THEN part[s]
                                  ELSE IF part[s] + 1 = BlockSize
                                  THEN 0 ELSE part[s] + 1]

\* notify_filled_blocks_after_prefill: the query of this chunk starts at block
\* c and covers n full blocks, which are numbered from 0.
PrefillSummaries(s, c, n) ==
    [b \in Blocks |-> IF b < n THEN FullBlock(s, c + b) ELSE summary[b]]

\* A dense forward pass whose query holds the rest of the prompt of s, or with
\* last = FALSE a block-aligned chunk of it: s then has f full blocks and p rows.
\* A chunk of a single token is no prefill to forward(), which tests for
\* max_query_len > 1: such a last chunk is the Decode that follows.
Prefill(s, f, p, last) ==
    /\ pc = "idle"
    /\ \A x \in Seqs \ {s} : status[x] # "prefill"
    /\ status[s] = "new" => Cardinality(running) < MaxBatch
    /\ status[s] \in {"new", "prefill"}
    /\ f > full[s] \/ (f = full[s] /\ p > 1) \/ (f = 0 /\ p = 1)
    /\ \A x \in running : Room(x)
    /\ status' = [status EXCEPT ![s] = IF last THEN "decode" ELSE "prefill"]
    /\ full' = [AdvanceFull(running) EXCEPT ![s] = f]
    /\ part' = [AdvancePart(running) EXCEPT ![s] = p]
    /\ IF KvShare /\ <<f, p>> # <<0, 1>>
       THEN /\ pc' = "gcIngest" /\ cur' = s /\ todo' = running \cup {s}
            /\ UNCHANGED summary
       ELSE /\ summary' = PrefillSummaries(s, full[s], f - full[s])
            /\ UNCHANGED <<pc, cur, todo>>
    /\ UNCHANGED <<sel, left, arena, pool, onCpu, book, read, err>>

PrefillWhole == \E s \in Seqs, l \in Prompts : Prefill(s, l[1], l[2], TRUE)
PrefillChunk == Chunked /\ \E s \in Seqs, l \in Prompts : Prefill(s, l[1], 0, FALSE)

\* A request that has produced its last token leaves the batch.
Finish(s) ==
    /\ pc = "idle"
    /\ s \in running
    /\ status' = [status EXCEPT ![s] = "done"]
    /\ UNCHANGED <<full, part, pc, loop, arena, pool, onCpu, summary, book, read, err>>

\* A decode pass.  If a request is still inside its first block the whole batch
\* falls back to dense attention, and no block of it is handed to the manager.
Decode ==
    /\ pc = "idle"
    /\ running # {}
    /\ \A s \in Seqs : status[s] # "prefill"
    /\ \A s \in running : Room(s)
    /\ full' = AdvanceFull(running)
    /\ part' = AdvancePart(running)
    /\ IF \E s \in running : full'[s] = 0
       THEN UNCHANGED <<pc, todo>>
       ELSE /\ pc' = IF Ordering = "lru" THEN "gcDecode" ELSE "prefetch"
            /\ todo' = running
    /\ UNCHANGED <<status, cur, sel, left, arena, pool, onCpu, summary, book, read, err>>

-----------------------------------------------------------------------------
(***************************************************************************)
(* The previous Quest layer's postamble of run_sparse_decode: it hands the *)
(* first Window of its own selected blocks to this layer.                  *)
(***************************************************************************)
MinOf(a, b) == IF a <= b THEN a ELSE b

Selections(s, n) ==
    {S \in SUBSET {b \in Blocks : b < full[s]} : Cardinality(S) = MinOf(n, full[s])}

BeginPrefetch(s) ==
    /\ pc = "prefetch" /\ cur = None /\ s \in todo
    /\ cur' = s
    /\ \E W \in Selections(s, MinOf(Window, TopK)) :
        /\ sel' = W /\ left' = W
        /\ prevSelected' = IF Ordering = "mixture"
                           THEN [prevSelected EXCEPT ![s] = W] ELSE prevSelected
    /\ UNCHANGED <<engine, pc, todo, arena, pool, onCpu, summary,
                   trimmed, activeSeqs, read, err>>

PrefetchOne(b) ==
    /\ pc = "prefetch" /\ cur # None /\ b \in left
    /\ EnsureOne(<<cur, b>>, PrefetchTouch)
    /\ left' = left \ {b}
    /\ IF left = {b} THEN cur' = None /\ sel' = {} /\ todo' = todo \ {cur}
                     ELSE UNCHANGED <<cur, sel, todo>>
    /\ UNCHANGED <<engine, pc, summary, book, read, err>>

EndPrefetch ==
    /\ pc = "prefetch" /\ todo = {}
    /\ pc' = "gcDecode" /\ todo' = running
    /\ UNCHANGED <<engine, cur, sel, left, arena, pool, onCpu, summary, book, read, err>>

\* Defect: the requests that left the batch are forgotten, not freed.
GcFreesNothing ==
    /\ pc \in {"gcIngest", "gcDecode"}
    /\ activeSeqs' = todo
    /\ pc' = IF pc = "gcIngest" THEN "ingest" ELSE "notify"
    /\ UNCHANGED <<engine, loop, arena, pool, onCpu, summary, trimmed, prevSelected, read, err>>

\* The head of kvshare_prefill_offload, kvshare_decode_write and
\* notify_filled_blocks_after_decode: free what left the batch.
Gc ==
    /\ pc \in {"gcIngest", "gcDecode"}
    /\ FreeRequests(activeSeqs \ todo)
    /\ activeSeqs' = todo
    /\ pc' = IF pc = "gcIngest" THEN "ingest" ELSE "notify"
    /\ UNCHANGED <<engine, loop, summary, read, err>>

\* The end of a request's turn in the loop of kvshare_prefill_offload.
EndIngest(s) ==
    /\ todo' = todo \ {s}
    /\ pc' = IF todo = {s} THEN "idle" ELSE "ingest"
    /\ cur' = IF todo = {s} THEN None ELSE cur
    /\ UNCHANGED <<engine, sel, left, activeSeqs, prevSelected, read, err>>

\* prefill_ingest_kvshare runs once per request: a second chunk is not ingested,
\* nor are the tokens the running requests decode in the same pass ...
SkipIngest(s) ==
    /\ pc = "ingest" /\ s \in todo \cap trimmed
    /\ EndIngest(s)
    /\ UNCHANGED <<arena, pool, onCpu, summary, trimmed>>

\* ... except those of a request that began with a one-token prompt: its token is
\* taken for the first of a prompt.
IngestToken(s) ==
    /\ pc = "ingest" /\ s \in todo \ (trimmed \cup {cur})
    /\ Stage(<<s, 0>>, {0}, {}, FALSE)
    /\ MarkTrimmed(s)
    /\ EndIngest(s)
    /\ UNCHANGED summary

\* prefill_ingest_kvshare of the prompt: its loop over the full blocks ...
IngestPrompt ==
    /\ pc = "ingest" /\ cur \in todo \ trimmed
    /\ EstablishWorkingSet(cur, full[cur])
    /\ summary' = PrefillSummaries(cur, 0, full[cur])
    /\ IF part[cur] = 0 THEN EndIngest(cur)
       ELSE /\ pc' = "stage"
            /\ UNCHANGED <<engine, loop, activeSeqs, prevSelected, read, err>>

\* ... and its tail, which stages the partial block as the live one.
StagePartial ==
    /\ pc = "stage"
    /\ Stage(<<cur, full[cur]>>, FirstRows(part[cur]), FirstRows(part[cur]), FALSE)
    /\ EndIngest(cur)
    /\ UNCHANGED <<summary, trimmed>>

-----------------------------------------------------------------------------
(***************************************************************************)
(* notify_filled_blocks_after_decode, for each request: the one-shot trim, *)
(* then the block the new token completed, or the live partial block.      *)
(***************************************************************************)
BeginNotify(s) ==
    /\ ~KvShare /\ pc = "notify" /\ s \in todo
    /\ \/ s \in trimmed /\ UNCHANGED <<arena, pool, onCpu, trimmed>>
       \/ s \notin trimmed /\ EstablishWorkingSet(s, full[s])
    /\ pc' = "fill" /\ cur' = s
    /\ UNCHANGED <<engine, todo, sel, left, summary, activeSeqs, prevSelected, read, err>>

\* The end of a request's turn in the loop over the batch.
EndTurn(s) ==
    /\ pc' = IF todo = {s} THEN "select" ELSE "notify"
    /\ todo' = IF todo = {s} THEN running ELSE todo \ {s}
    /\ cur' = None
    /\ UNCHANGED <<engine, sel, left, book, read, err>>

\* Defect: the block's summary is not registered.
OnBlockFilledNoSummary ==
    /\ pc = "fill" /\ part[cur] = 0
    /\ Stage(<<cur, full[cur] - 1>>, Rows, Rows, TRUE)
    /\ UNCHANGED summary
    /\ EndTurn(cur)

OnBlockFilled ==
    /\ pc = "fill" /\ part[cur] = 0
    /\ Stage(<<cur, full[cur] - 1>>, Rows, Rows, TRUE)
    /\ summary' = [summary EXCEPT ![full[cur] - 1] = FullBlock(cur, full[cur] - 1)]
    /\ EndTurn(cur)

WriteLiveBlock ==
    /\ pc = "fill" /\ part[cur] > 0
    /\ Stage(<<cur, full[cur]>>, Rows, FirstRows(part[cur]), FALSE)
    /\ UNCHANGED summary
    /\ EndTurn(cur)

\* append_decode_token_kvshare: the token of this step goes to row TokenRow(s)
\* of block TokenBlock(s); the last row completes the block.
TokenBlock(s) == IF part[s] = 0 THEN full[s] - 1 ELSE full[s]

\* Defect: off by one.
TokenRowLate(s) == IF part[s] = 0 THEN BlockSize - 1 ELSE part[s]

TokenRow(s) == IF part[s] = 0 THEN BlockSize - 1 ELSE part[s] - 1

\* Defect: the block's summary is not registered.
AppendTokenNoSummary(s) ==
    /\ KvShare /\ pc = "notify" /\ s \in todo
    /\ Stage(<<s, TokenBlock(s)>>, {TokenRow(s)}, {TokenRow(s)}, part[s] = 0)
    /\ UNCHANGED summary
    /\ EndTurn(s)

AppendToken(s) ==
    LET k == <<s, TokenBlock(s)>>
    IN  /\ KvShare /\ pc = "notify" /\ s \in todo
        /\ Stage(k, {TokenRow(s)}, {TokenRow(s)}, part[s] = 0)
        /\ summary' = IF part[s] = 0
                      THEN [summary EXCEPT ![k[2]] = gpuKV'[keyToSlot'[k]]] ELSE summary
        /\ EndTurn(s)

-----------------------------------------------------------------------------
(***************************************************************************)
(* run_sparse_decode, for each request: selection (any TopK of the full    *)
(* blocks), ensure_resident, gather.                                       *)
(***************************************************************************)
Live(s) == IF part[s] > 0 THEN {full[s]} ELSE {}

\* The strict total orders of S: the possible orders of top_ids.
Orders(S) ==
    {r \in SUBSET (S \X S) :
        /\ \A x \in S : <<x, x>> \notin r
        /\ \A x, y \in S : x = y \/ <<x, y>> \in r \/ <<y, x>> \in r
        /\ \A x, y, z \in S : <<x, y>> \in r /\ <<y, z>> \in r => <<x, z>> \in r}

\* Defect: pass 1 does not touch the live block.
SelectWithoutKeep(s) ==
    /\ pc = "select" /\ s \in todo
    /\ \E S \in Selections(s, TopK) :
        LET ids == Resident \cap ({s} \X S)
        IN  /\ \E r \in Orders(ids) : older' = MoveToEnd(Resident, ids, r)
            /\ sel' = S /\ left' = S
    /\ pc' = "ensure" /\ cur' = s
    /\ UNCHANGED <<engine, todo, keyToSlot, freeSlots, gpuKV, pool, onCpu,
                   summary, book, read, err>>

\* Selection, and pass 1 of ensure_resident: _touch_resident moves the resident
\* ones of the live block and then of top_ids to the MRU end.
Select(s) ==
    /\ pc = "select" /\ s \in todo
    /\ \E S \in Selections(s, TopK) :
        LET keep == Resident \cap ({s} \X Live(s))
            ids == Resident \cap ({s} \X S)
        IN  /\ \E r \in Orders(ids) :
                 older' = MoveToEnd(Resident, keep \cup ids, (keep \X ids) \cup r)
            /\ sel' = S /\ left' = S
    /\ pc' = "ensure" /\ cur' = s
    /\ UNCHANGED <<engine, todo, keyToSlot, freeSlots, gpuKV, pool, onCpu,
                   summary, book, read, err>>

\* Pass 2 of ensure_resident.
EnsureResident(b) ==
    /\ pc = "ensure" /\ b \in left
    /\ EnsureOne(<<cur, b>>, TRUE)
    /\ left' = left \ {b}
    /\ UNCHANGED <<engine, pc, todo, cur, sel, summary, book, read, err>>

Needed == {<<cur, b>> : b \in sel \cup Live(cur)}

\* Defect: cache_seqlens is one too many.
GatheredPastEnd ==
    {<<gpuKV[keyToSlot[<<cur, b>>]][r], r>> : b \in sel, r \in Rows}
        \cup {<<gpuKV[keyToSlot[<<cur, b>>]][r], r>> :
                b \in Live(cur), r \in FirstRows(part[cur] + 1)}

\* The tokens the kernel reads: all rows of the selected blocks, then the rows
\* of the live block up to cache_seqlens.
Gathered ==
    {<<gpuKV[keyToSlot[<<cur, b>>]][r], r>> : b \in sel, r \in Rows}
        \cup {<<gpuKV[keyToSlot[<<cur, b>>]][r], r>> :
                b \in Live(cur), r \in FirstRows(part[cur])}

\* logical_to_slot for top_ids, then for the live block, and the attention
\* kernel.  Pass 2 left top_ids at the MRU end in the order in which they are
\* looked up here, so of the order only the live block's place changes.
Attend ==
    /\ pc = "ensure" /\ left = {}
    /\ Needed \subseteq Resident
    /\ read' = Gathered
    /\ older' = MoveToEnd(Resident, {cur} \X Live(cur), {})
    /\ todo' = todo \ {cur}
    /\ pc' = IF todo = {cur} THEN "idle" ELSE "select"
    /\ cur' = None /\ sel' = {}
    /\ UNCHANGED <<engine, left, keyToSlot, freeSlots, gpuKV, pool, onCpu,
                   summary, book, err>>

\* The exceptions of the steps above.
Failure ==
    \/ /\ pc = "ingest" /\ \E s \in todo \ (trimmed \cup {cur}) : StageRaises(<<s, 0>>, FALSE)
    \/ /\ pc = "ingest" /\ cur \in todo \ trimmed
       /\ WorkingSetError(full[cur]) # "none" /\ Raise(WorkingSetError(full[cur]))
    \/ /\ ~KvShare /\ pc = "notify"
       /\ \E s \in todo \ trimmed : /\ WorkingSetError(full[s]) # "none"
                                    /\ Raise(WorkingSetError(full[s]))
    \/ pc = "stage" /\ StageRaises(<<cur, full[cur]>>, FALSE)
    \/ pc = "fill" /\ StageRaises(<<cur, TokenBlock(cur)>>, part[cur] = 0)
    \/ /\ KvShare /\ pc = "notify"
       /\ \E s \in todo : StageRaises(<<s, TokenBlock(s)>>, part[s] = 0)
    \/ pc = "prefetch" /\ cur # None /\ \E b \in left : EnsureOneRaises(<<cur, b>>)
    \/ pc = "ensure" /\ \E b \in left : EnsureOneRaises(<<cur, b>>)
    \/ pc = "ensure" /\ left = {} /\ ~(Needed \subseteq Resident) /\ Raise("not resident")

\* What a forward pass does once it has begun.
Step ==
    \/ \E s \in Seqs : BeginPrefetch(s)
    \/ \E b \in Blocks : PrefetchOne(b)
    \/ EndPrefetch
    \/ Gc
    \/ \E s \in Seqs : SkipIngest(s)
    \/ \E s \in Seqs : IngestToken(s)
    \/ IngestPrompt
    \/ StagePartial
    \/ \E s \in Seqs : BeginNotify(s)
    \/ OnBlockFilled
    \/ WriteLiveBlock
    \/ \E s \in Seqs : AppendToken(s)
    \/ \E s \in Seqs : Select(s)
    \/ \E b \in Blocks : EnsureResident(b)
    \/ Attend
    \/ Failure

Next ==
    \/ PrefillWhole
    \/ PrefillChunk
    \/ \E s \in Seqs : Finish(s)
    \/ Decode
    \/ Step

Spec == Init /\ [][Next]_vars

\* forward() is one call on one thread: a pass that has begun goes on.
FairSpec == Spec /\ WF_vars(Step)
=============================================================================
