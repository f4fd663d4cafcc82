-------------------------- MODULE QuestArenaProofs --------------------------
(***************************************************************************)
(* The arena of QuestTierManager, for every size of the arena, the pool    *)
(* and the batch, and every value of the configuration flags.  First       *)
(* TypeOK: what each operation returns and stores, then each step.  Then   *)
(* what add, get, move_to_end and free do to the order of _LRUSlotMap and  *)
(* to the accounting of its slots, one lemma for each operation of the     *)
(* tier manager that reaches it, and ArenaAccounting.  Last the eviction   *)
(* argument of ensure_resident.                                            *)
(***************************************************************************)
EXTENDS QuestTierManagerProps, FiniteSetTheorems, TLAPS

LEMMA KeyType == \A s \in Seqs, b \in Blocks : <<s, b>> \in Key
  BY DEF Key

\* The keys of a request's blocks.
LEMMA RowApart == \A s, A, B : A \cap B = {} => ({s} \X A) \cap ({s} \X B) = {}
  OBVIOUS

LEMMA NeededNext == Needed' = ({cur'} \X sel') \cup ({cur'} \X Live(cur)')
  BY DEF Needed

LEMMA FullBlockType == \A s \in Seqs, b \in Blocks : FullBlock(s, b) \in Content
  BY DEF FullBlock, Content, Key

LEMMA CopyRowsType ==
  ASSUME NEW old \in Content, NEW k \in Key, NEW C, NEW W
  PROVE  CopyRows(old, k, C, W) \in Content
  BY DEF CopyRows, Content

LEMMA AddType ==
  ASSUME ArenaType, NEW k \in Key, NEW g \in Slots, NEW e \in Key \cup {None},
         NEW mru \in BOOLEAN, Add(k, g, e, mru)
  PROVE  /\ keyToSlot' \in [Key -> Slots \cup {None}]
         /\ older' \subseteq Key \X Key
         /\ freeSlots' \subseteq Slots
<1>1. keyToSlot' \in [Key -> Slots \cup {None}]
  BY DEF Add, ArenaType
<1>2. Resident \subseteq Key
  BY DEF Resident
<1>3. older' \subseteq Key \X Key
  BY <1>2 DEF Add, ArenaType, MoveOne, MoveToEnd
<1> QED
  BY Zenon, <1>1, <1>3 DEF Add, ArenaType

LEMMA StageType ==
  ASSUME ArenaType, PoolType, BookType, NEW k \in Key, NEW C, NEW W,
         NEW isFull \in BOOLEAN, Stage(k, C, W, isFull)
  PROVE  ArenaType' /\ PoolType' /\ onCpu' \subseteq Blocks
<1> PICK g \in Slots, e \in Key \cup {None} :
        /\ Add(k, g, e, TRUE)
        /\ gpuKV' = [gpuKV EXCEPT ![g] = CopyRows(gpuKV[g], k, C, W)]
        /\ onCpu' = (onCpu \cup BlockOf(e)) \ {k[2]}
        /\ StagePool(k, e, isFull, gpuKV[g], CopyRows(gpuKV[g], k, C, W))
  BY Zenon DEF Stage
<1>1. gpuKV[g] \in Content /\ CopyRows(gpuKV[g], k, C, W) \in Content
  BY CopyRowsType DEF ArenaType
<1>2. ArenaType'
  BY Zenon, <1>1, AddType DEF ArenaType
<1>3. PoolType'
  BY <1>1 DEF StagePool, MirrorToHost, SpillToCpu, PoolType, pool
<1>4. onCpu' \subseteq Blocks
  BY DEF BlockOf, Key, BookType
<1> QED
  BY <1>2, <1>3, <1>4

LEMMA GetType ==
  ASSUME ArenaType, NEW k \in Resident, NEW mru \in BOOLEAN, Get(k, mru)
  PROVE  ArenaType'
  BY DEF Get, ArenaType, MoveOne, MoveToEnd, Resident

LEMMA EnsureOneType ==
  ASSUME ArenaType, PoolType, BookType, NEW k \in Key, NEW mru \in BOOLEAN,
         EnsureOne(k, mru)
  PROVE  ArenaType' /\ PoolType' /\ onCpu' \subseteq Blocks
<1>1. CASE keyToSlot[k] # None /\ Get(k, mru) /\ UNCHANGED <<pool, onCpu>>
  <2>1. k \in Resident
    BY <1>1 DEF Resident
  <2> QED
    BY <1>1, <2>1, GetType DEF PoolType, BookType, pool
<1>2. ASSUME keyToSlot[k] = None, Source(k) # None,
             NEW g \in Slots, NEW e \in Key \cup {None},
             Add(k, g, e, mru),
             gpuKV' = [gpuKV EXCEPT ![g] = cpuKV[Source(k)]],
             ReloadPool(k, e, g),
             onCpu' = (onCpu \cup BlockOf(e)) \ {k[2]}
      PROVE  ArenaType' /\ PoolType' /\ onCpu' \subseteq Blocks
  <2>1. cpuKV[Source(k)] \in Content
    BY <1>2 DEF Source, PoolType
  <2>2. ArenaType'
    BY <1>2, <2>1, AddType DEF ArenaType
  <2>3. gpuKV[g] \in Content
    BY <1>2 DEF ArenaType
  <2>4. PoolType'
    BY <1>2, <2>3 DEF ReloadPool, PoolType, pool, Source
  <2>5. onCpu' \subseteq Blocks
    BY <1>2 DEF BlockOf, Key, BookType
  <2> QED
    BY <2>2, <2>4, <2>5
<1> QED
  BY <1>1, <1>2 DEF EnsureOne

LEMMA CopyBlocksType ==
  ASSUME NEW S, NEW kv \in [S -> Content], NEW s \in Seqs, NEW B \in SUBSET Blocks,
         NEW T, NEW f \in [B -> T]
  PROVE  CopyBlocks(kv, s, f) \in [S -> Content]
<1> SUFFICES ASSUME NEW g \in S
             PROVE  (IF \E b \in DOMAIN f : f[b] = g
                     THEN FullBlock(s, CHOOSE b \in DOMAIN f : f[b] = g)
                     ELSE kv[g]) \in Content
  BY DEF CopyBlocks
<1>1. CASE \E b \in B : f[b] = g
  <2>1. (CHOOSE b \in B : f[b] = g) \in B
    BY <1>1
  <2> QED
    BY <1>1, <2>1, FullBlockType
<1> QED
  BY <1>1

LEMMA EnterSlotsType ==
  ASSUME NEW T, NEW m \in [Key -> T \cup {None}], NEW s \in Seqs, NEW B \in SUBSET Blocks,
         NEW U \in SUBSET T, NEW f \in [B -> U]
  PROVE  EnterSlots(m, s, f) \in [Key -> T \cup {None}]
  BY DEF EnterSlots

LEMMA EstablishType ==
  ASSUME ArenaType, PoolType, BookType, NEW s \in Seqs, NEW n,
         EstablishWorkingSet(s, n)
  PROVE  ArenaType' /\ PoolType' /\ onCpu' \subseteq Blocks /\ trimmed' \subseteq Seqs
<1>1. /\ Kept(n) \in SUBSET Blocks
      /\ Spilled(n) \in SUBSET Blocks
      /\ Backed(n) \in SUBSET Blocks
  BY DEF Kept, Spilled, Backed
<1> PICK f \in Injection(Kept(n), freeSlots), h \in Injection(Backed(n), cpuFree) :
        EstablishWorkingSet(s, n)!(f, h)
  BY DEF EstablishWorkingSet
<1>2. f \in [Kept(n) -> freeSlots] /\ h \in [Backed(n) -> cpuFree]
  BY DEF Injection
<1>3. keyToSlot' \in [Key -> Slots \cup {None}]
  BY Zenon, <1>1, <1>2, EnterSlotsType DEF ArenaType
<1>4. gpuKV' \in [Slots -> Content]
  BY Zenon, <1>1, <1>2, CopyBlocksType DEF ArenaType
<1>5. older' \subseteq Key \X Key
  BY <1>1 DEF ArenaType, Resident, Key
<1>6. ArenaType'
  BY <1>3, <1>4, <1>5 DEF ArenaType
<1>7. cpuKV' \in [CpuSlots -> Content]
  BY Zenon, <1>1, <1>2, CopyBlocksType DEF PoolType
<1>8. EnterSlots(cpuSlots, s, h) \in [Key -> CpuSlots \cup {None}]
  BY Zenon, <1>1, <1>2, EnterSlotsType DEF PoolType
<1>9. EnterSlots(hostSlots, s, h) \in [Key -> CpuSlots \cup {None}]
  BY Zenon, <1>1, <1>2, EnterSlotsType DEF PoolType
<1>10. PoolType'
  BY <1>7, <1>8, <1>9 DEF PoolType
<1> QED
  BY <1>1, <1>6, <1>10 DEF BookType, MarkTrimmed

LEMMA FreeRequestsType ==
  ASSUME ArenaType, PoolType, BookType, NEW G \in SUBSET Seqs, FreeRequests(G)
  PROVE  /\ ArenaType' /\ PoolType'
         /\ onCpu' \subseteq Blocks /\ trimmed' \subseteq Seqs
         /\ prevSelected' \in [Seqs -> SUBSET Blocks]
<1>1. G \X Blocks \subseteq Key
  BY DEF Key
<1>2. ArenaType'
  BY <1>1 DEF FreeRequests, ArenaType
<1>3. PoolType'
  BY <1>1 DEF FreeRequests, PoolType
<1> QED
  BY <1>2, <1>3 DEF FreeRequests, BookType

-----------------------------------------------------------------------------
LEMMA RaiseType ==
  ASSUME TypeOK, NEW e \in Errors, Raise(e)
  PROVE  TypeOK'
<1>1. EngineType' /\ LoopType' /\ ArenaType' /\ PoolType' /\ BookType'
  BY DEF Raise, TypeOK, EngineType, LoopType, ArenaType, PoolType, BookType,
         engine, loop, arena, pool, book
<1>2. PassWellFormed'
  BY DEF Raise, TypeOK, PassWellFormed, engine, loop
<1> QED
  BY <1>1, <1>2 DEF TypeOK

LEMMA ErrorType ==
  /\ \A e : SpillError(e) \in Errors \cup {"none"}
  /\ \A k, e, isFull : StageError(k, e, isFull) \in Errors \cup {"none"}
  /\ \A k, e : EnsureError(k, e) \in Errors \cup {"none"}
  /\ \A n : WorkingSetError(n) \in Errors \cup {"none"}
<1>1. \A n, b : BlockError(n, b) \in Errors \cup {"none"}
  BY DEF BlockError, Errors
<1> QED
  BY Zenon, <1>1 DEF SpillError, StageError, EnsureError, WorkingSetError, Errors

\* One more token for each running request keeps the lengths in range.
LEMMA AdvanceType ==
  ASSUME EngineType, PassWellFormed, \A s \in running : Room(s)
  PROVE  /\ AdvanceFull(running) \in [Seqs -> 0 .. MaxBlocks]
         /\ AdvancePart(running) \in [Seqs -> Rows]
         /\ \A s \in Seqs : AdvancePart(running)[s] > 0 => AdvanceFull(running)[s] < MaxBlocks
  BY SizeAssumption
     DEF EngineType, PassWellFormed, Room, running, AdvanceFull, AdvancePart, Rows

LEMMA PrefillSummariesType ==
  ASSUME BookType, NEW s \in Seqs, NEW c \in Nat, NEW n \in Int, c + n <= MaxBlocks
  PROVE  PrefillSummaries(s, c, n) \in [Blocks -> Content]
<1> SUFFICES ASSUME NEW b \in Blocks, b < n
             PROVE  c + b \in Blocks
  BY FullBlockType DEF PrefillSummaries, BookType
<1> QED
  BY SizeAssumption DEF Blocks

LEMMA PrefillType ==
  ASSUME TypeOK, NEW s \in Seqs, NEW f \in Blocks, NEW p \in Rows,
         NEW last \in BOOLEAN, Prefill(s, f, p, last)
  PROVE  TypeOK'
<1> USE DEF TypeOK
<1>1. EngineType'
  BY AdvanceType, SizeAssumption DEF Prefill, EngineType, Blocks
<1>2. LoopType'
  BY DEF Prefill, LoopType, running
<1>3. ArenaType' /\ PoolType'
  BY DEF Prefill, ArenaType, PoolType, arena, pool
<1>4. BookType'
  <2>1. full[s] \in Nat /\ f - full[s] \in Int /\ full[s] + (f - full[s]) <= MaxBlocks
    BY SizeAssumption DEF EngineType, Blocks
  <2>2. PrefillSummaries(s, full[s], f - full[s]) \in [Blocks -> Content]
    BY <2>1, PrefillSummariesType
  <2> QED
    BY <2>2 DEF Prefill, BookType, book
<1>5. PassWellFormed'
  <2>1. \A x \in Seqs : part'[x] > 0 => full'[x] < MaxBlocks
    BY AdvanceType, SizeAssumption DEF Prefill, Blocks, EngineType
  <2>2. pc' \in {"idle", "gcIngest"} /\ (pc' = "gcIngest" => cur' = s)
    BY DEF Prefill
  <2> QED
    BY <2>1, <2>2 DEF PassWellFormed
<1> QED
  BY <1>1, <1>2, <1>3, <1>4, <1>5

LEMMA DecodeType ==
  ASSUME TypeOK, Decode
  PROVE  TypeOK'
<1> USE DEF TypeOK
<1>1. EngineType'
  BY AdvanceType DEF Decode, EngineType
<1>2. LoopType'
  BY DEF Decode, LoopType, running
<1>3. ArenaType' /\ PoolType' /\ BookType'
  BY DEF Decode, ArenaType, PoolType, BookType, arena, pool, book
<1>4. PassWellFormed'
  <2>1. \A x \in Seqs : part'[x] > 0 => full'[x] < MaxBlocks
    BY AdvanceType DEF Decode
  <2>2. running' = running
    BY DEF Decode, running
  <2>3. CASE \E s \in running : full'[s] = 0
    BY <2>1, <2>3 DEF Decode, PassWellFormed
  <2>4. CASE \A s \in running : full'[s] # 0
    <3>1. todo' = running' /\ pc' \in {"gcDecode", "prefetch"}
      BY <2>2, <2>4 DEF Decode
    <3>2. \A s \in running' : full'[s] > 0
      BY <1>1, <2>2, <2>4, SizeAssumption DEF EngineType, running
    <3> QED
      BY <2>1, <3>1, <3>2 DEF PassWellFormed
  <2> QED
    BY <2>3, <2>4
<1> QED
  BY <1>1, <1>2, <1>3, <1>4

\* A decode pass writes its token to a block that the tables have a row for.
LEMMA TokenBlockType ==
  ASSUME EngineType, PassWellFormed, NEW s \in Seqs, full[s] > 0 \/ part[s] > 0
  PROVE  TokenBlock(s) \in Blocks
  BY SizeAssumption DEF EngineType, PassWellFormed, TokenBlock, Blocks, Rows

LEMMA EndTurnType ==
  ASSUME TypeOK, NEW s \in Seqs, EndTurn(s), pc \in {"notify", "fill"}
  PROVE  EngineType' /\ LoopType' /\ PassWellFormed'
<1> USE DEF TypeOK
<1>1. EngineType' /\ LoopType'
  BY DEF EndTurn, EngineType, LoopType, engine, running
<1>2. running' = running /\ todo' \subseteq running /\ pc' \in {"notify", "select"}
  BY DEF EndTurn, engine, running, PassWellFormed
<1>3. PassWellFormed'
  BY <1>2 DEF EndTurn, PassWellFormed, engine
<1> QED
  BY <1>1, <1>3

-----------------------------------------------------------------------------
(* The steps *)

\* The steps that only move the pass along, or that select.
LEMMA LoopStepType ==
  ASSUME TypeOK,
         \/ \E s \in Seqs : Finish(s) \/ BeginPrefetch(s) \/ Select(s)
         \/ EndPrefetch
  PROVE  TypeOK'
<1> USE DEF TypeOK
<1>1. ASSUME NEW s \in Seqs, Finish(s) PROVE TypeOK'
  <2>1. EngineType' /\ LoopType' /\ ArenaType' /\ PoolType' /\ BookType'
    BY <1>1 DEF Finish, EngineType, LoopType, ArenaType, PoolType, BookType,
                loop, arena, pool, book
  <2>2. PassWellFormed'
    BY <1>1 DEF Finish, PassWellFormed, loop
  <2> QED
    BY <2>1, <2>2
<1>2. ASSUME NEW s \in Seqs, BeginPrefetch(s) PROVE TypeOK'
  <2> PICK W \in Selections(s, MinOf(Window, TopK)) :
        /\ sel' = W /\ left' = W
        /\ prevSelected' = IF Ordering = "mixture"
                           THEN [prevSelected EXCEPT ![s] = W] ELSE prevSelected
    BY Zenon, <1>2 DEF BeginPrefetch
  <2>1. W \subseteq Blocks
    BY DEF Selections
  <2>2. EngineType' /\ LoopType' /\ ArenaType' /\ PoolType' /\ BookType'
    BY Zenon, <1>2, <2>1 DEF BeginPrefetch, EngineType, LoopType, ArenaType, PoolType, BookType,
                      engine, arena, pool
  <2>3. PassWellFormed'
    BY <1>2 DEF BeginPrefetch, PassWellFormed, running, engine
  <2> QED
    BY <2>2, <2>3
<1>3. ASSUME NEW s \in Seqs, Select(s) PROVE TypeOK'
  <2> PICK S \in Selections(s, TopK) :
        LET keep == Resident \cap ({s} \X Live(s))
            ids == Resident \cap ({s} \X S)
        IN  /\ \E r \in Orders(ids) :
                 older' = MoveToEnd(Resident, keep \cup ids, (keep \X ids) \cup r)
            /\ sel' = S /\ left' = S
    BY Zenon, <1>3 DEF Select
  <2>1. S \subseteq Blocks
    BY Zenon DEF Selections
  <2>2. EngineType' /\ LoopType' /\ PoolType' /\ BookType'
    BY <1>3, <2>1 DEF Select, EngineType, LoopType, PoolType, BookType, engine, pool, book
  <2>3. ArenaType'
    BY Zenon, <1>3 DEF Select, ArenaType, MoveToEnd, Orders, Resident
  <2>4. PassWellFormed'
    BY Zenon, <1>3 DEF Select, PassWellFormed, engine
  <2> QED
    BY <2>2, <2>3, <2>4
<1>4. ASSUME EndPrefetch PROVE TypeOK'
  <2>1. EngineType' /\ LoopType' /\ ArenaType' /\ PoolType' /\ BookType'
    BY <1>4 DEF EndPrefetch, EngineType, LoopType, ArenaType, PoolType, BookType,
                engine, arena, pool, book, running
  <2>2. PassWellFormed'
    BY <1>4 DEF EndPrefetch, PassWellFormed, engine, running
  <2> QED
    BY <2>1, <2>2
<1> QED
  BY <1>1, <1>2, <1>3, <1>4

LEMMA GcType ==
  ASSUME TypeOK, Gc
  PROVE  TypeOK'
<1> USE DEF TypeOK
<1>1. activeSeqs \ todo \in SUBSET Seqs
  BY DEF BookType
<1>2. FreeRequests(activeSeqs \ todo) /\ activeSeqs' = todo
  BY DEF Gc
<1>3. ArenaType' /\ PoolType' /\ BookType'
  BY <1>1, <1>2, FreeRequestsType DEF Gc, BookType, LoopType
<1>4. EngineType' /\ LoopType'
  BY DEF Gc, EngineType, LoopType, engine, loop
<1>5. PassWellFormed'
  BY DEF Gc, PassWellFormed, engine, loop, running
<1> QED
  BY <1>3, <1>4, <1>5

LEMMA EndIngestType ==
  ASSUME TypeOK, NEW s \in Seqs, EndIngest(s), pc \in {"ingest", "stage"}
  PROVE  EngineType' /\ LoopType' /\ PassWellFormed'
<1> USE DEF TypeOK
<1>1. EngineType' /\ LoopType'
  BY Zenon DEF EndIngest, EngineType, LoopType, engine
<1>2. PassWellFormed'
  BY DEF EndIngest, PassWellFormed, engine
<1> QED
  BY <1>1, <1>2

LEMMA IngestType ==
  ASSUME TypeOK, IngestPrompt \/ \E s \in Seqs : SkipIngest(s)
  PROVE  TypeOK'
<1> USE DEF TypeOK
<1>1. ASSUME NEW s \in Seqs, SkipIngest(s) PROVE TypeOK'
  <2>1. ArenaType' /\ PoolType' /\ BookType'
    BY <1>1 DEF SkipIngest, EndIngest, ArenaType, PoolType, BookType, arena, pool
  <2> QED
    BY Zenon, <1>1, <2>1, EndIngestType DEF SkipIngest
<1>2. ASSUME IngestPrompt PROVE TypeOK'
  <2>1. cur \in Seqs /\ full[cur] \in Nat /\ 0 + full[cur] <= MaxBlocks
    BY <1>2, SizeAssumption DEF IngestPrompt, PassWellFormed, EngineType
  <2>2. PrefillSummaries(cur, 0, full[cur]) \in [Blocks -> Content]
    BY <2>1, PrefillSummariesType
  <2>3. UNCHANGED <<activeSeqs, prevSelected>>
    BY Zenon, <1>2 DEF IngestPrompt, EndIngest
  <2>4. ArenaType' /\ PoolType' /\ BookType'
    BY <1>2, <2>1, <2>2, <2>3, EstablishType DEF IngestPrompt, BookType
  <2>5. EngineType' /\ LoopType' /\ PassWellFormed'
    <3>1. CASE part[cur] = 0
      BY Zenon, <1>2, <2>1, <3>1, EndIngestType DEF IngestPrompt
    <3>2. CASE part[cur] # 0
      <4>1. pc' = "stage" /\ UNCHANGED <<engine, loop, read, err>> /\ part[cur] > 0
        BY <1>2, <2>1, <3>2, SizeAssumption DEF IngestPrompt, EngineType, Rows
      <4> QED
        BY <2>1, <4>1 DEF EngineType, LoopType, PassWellFormed, engine, loop
    <3> QED
      BY Zenon, <3>1, <3>2
  <2> QED
    BY <2>4, <2>5
<1> QED
  BY <1>1, <1>2

LEMMA BeginNotifyType ==
  ASSUME TypeOK, NEW s \in Seqs, BeginNotify(s)
  PROVE  TypeOK'
<1> USE DEF TypeOK
<1>1. EngineType' /\ LoopType'
  BY DEF BeginNotify, EngineType, LoopType, engine
<1>2. ArenaType' /\ PoolType' /\ BookType'
  <2>1. CASE s \in trimmed
    BY <2>1 DEF BeginNotify, ArenaType, PoolType, BookType, arena, pool
  <2>2. CASE s \notin trimmed
    BY <2>2, EstablishType DEF BeginNotify, BookType
  <2> QED
    BY <2>1, <2>2
<1>3. PassWellFormed'
  BY DEF BeginNotify, PassWellFormed, engine, running
<1> QED
  BY <1>1, <1>2, <1>3

\* The steps that write a block or a token into the arena.
LEMMA StageStepType ==
  ASSUME TypeOK,
         \/ StagePartial \/ OnBlockFilled \/ WriteLiveBlock
         \/ \E s \in Seqs : IngestToken(s) \/ AppendToken(s)
  PROVE  TypeOK'
<1> USE DEF TypeOK
<1>1. ASSUME StagePartial PROVE TypeOK'
  <2>1. cur \in Seqs /\ full[cur] \in Blocks
    BY <1>1, SizeAssumption DEF StagePartial, PassWellFormed, EngineType, Blocks
  <2>2. <<cur, full[cur]>> \in Key
    BY <2>1, KeyType
  <2>3. ArenaType' /\ PoolType' /\ BookType'
    BY Zenon, <1>1, <2>2, StageType DEF StagePartial, EndIngest, BookType
  <2> QED
    BY <1>1, <2>1, <2>3, EndIngestType DEF StagePartial
<1>2. ASSUME OnBlockFilled PROVE TypeOK'
  <2>1. cur \in Seqs /\ full[cur] - 1 \in Blocks
    BY <1>2, SizeAssumption DEF OnBlockFilled, PassWellFormed, EngineType, Blocks, running
  <2>2. <<cur, full[cur] - 1>> \in Key /\ FullBlock(cur, full[cur] - 1) \in Content
    BY <2>1, KeyType, FullBlockType
  <2>3. ArenaType' /\ PoolType' /\ onCpu' \subseteq Blocks
    BY Zenon, <1>2, <2>2, StageType DEF OnBlockFilled
  <2>4. BookType'
    BY Zenon, <1>2, <2>2, <2>3 DEF OnBlockFilled, EndTurn, BookType, book
  <2>5. EngineType' /\ LoopType' /\ PassWellFormed'
    BY <1>2, <2>1, EndTurnType DEF OnBlockFilled
  <2> QED
    BY <2>3, <2>4, <2>5
<1>3. ASSUME WriteLiveBlock PROVE TypeOK'
  <2>1. cur \in Seqs /\ full[cur] \in Blocks
    BY <1>3, SizeAssumption DEF WriteLiveBlock, PassWellFormed, EngineType, Blocks, running
  <2>2. <<cur, full[cur]>> \in Key
    BY <2>1, KeyType
  <2>3. ArenaType' /\ PoolType' /\ onCpu' \subseteq Blocks
    BY Zenon, <1>3, <2>2, StageType DEF WriteLiveBlock
  <2>4. BookType'
    BY Zenon, <1>3, <2>3 DEF WriteLiveBlock, EndTurn, BookType, book
  <2>5. EngineType' /\ LoopType' /\ PassWellFormed'
    BY <1>3, <2>1, EndTurnType DEF WriteLiveBlock
  <2> QED
    BY <2>3, <2>4, <2>5
<1>4. ASSUME NEW s \in Seqs, AppendToken(s) PROVE TypeOK'
  <2> DEFINE k == <<s, TokenBlock(s)>>
  <2>1. full[s] > 0
    BY <1>4 DEF AppendToken, PassWellFormed
  <2>2. k \in Key /\ k[2] \in Blocks
    BY Zenon, <2>1, TokenBlockType, KeyType
  <2>3. /\ Stage(k, {TokenRow(s)}, {TokenRow(s)}, part[s] = 0)
        /\ summary' = IF part[s] = 0
                      THEN [summary EXCEPT ![k[2]] = gpuKV'[keyToSlot'[k]]] ELSE summary
        /\ EndTurn(s)
    BY Zenon, <1>4 DEF AppendToken
  <2> HIDE DEF k
  <2>4. ArenaType' /\ PoolType' /\ onCpu' \subseteq Blocks
    BY Zenon, <2>2, <2>3, StageType
  <2>5. keyToSlot'[k] \in Slots
    BY Zenon, <2>2, <2>3 DEF Stage, Add
  <2>6. gpuKV'[keyToSlot'[k]] \in Content
    BY Zenon, <2>4, <2>5 DEF ArenaType
  <2>7. BookType'
    BY Zenon, <2>2, <2>3, <2>4, <2>6 DEF EndTurn, BookType, book
  <2>8. EngineType' /\ LoopType' /\ PassWellFormed'
    BY Zenon, <1>4, <2>3, EndTurnType DEF AppendToken
  <2> QED
    BY Zenon, <2>4, <2>7, <2>8
<1>5. ASSUME NEW s \in Seqs, IngestToken(s) PROVE TypeOK'
  <2>1. <<s, 0>> \in Key
    BY KeyType, SizeAssumption DEF Blocks
  <2>2. ArenaType' /\ PoolType' /\ BookType'
    BY Zenon, <1>5, <2>1, StageType DEF IngestToken, MarkTrimmed, EndIngest, BookType
  <2> QED
    BY <1>5, <2>2, EndIngestType DEF IngestToken
<1> QED
  BY Zenon, <1>1, <1>2, <1>3, <1>4, <1>5

\* The steps that make blocks resident, and the attention that reads them.
LEMMA EnsureStepType ==
  ASSUME TypeOK,
         \/ \E b \in Blocks : PrefetchOne(b) \/ EnsureResident(b)
         \/ Attend
  PROVE  TypeOK'
<1> USE DEF TypeOK
<1>1. ASSUME NEW b \in Blocks, PrefetchOne(b) PROVE TypeOK'
  <2>1. <<cur, b>> \in Key
    BY <1>1, KeyType DEF PrefetchOne, LoopType
  <2>2. ArenaType' /\ PoolType' /\ BookType'
    BY Zenon, <1>1, <2>1, FlagAssumption, EnsureOneType DEF PrefetchOne, BookType, book
  <2>3. EngineType' /\ LoopType'
    BY Zenon, <1>1 DEF PrefetchOne, EngineType, LoopType, engine
  <2>4. PassWellFormed'
    BY <1>1 DEF PrefetchOne, PassWellFormed, engine, running
  <2> QED
    BY <2>2, <2>3, <2>4
<1>2. ASSUME NEW b \in Blocks, EnsureResident(b) PROVE TypeOK'
  <2>1. <<cur, b>> \in Key
    BY <1>2, KeyType DEF EnsureResident, PassWellFormed
  <2>2. ArenaType' /\ PoolType' /\ BookType'
    BY Zenon, <1>2, <2>1, EnsureOneType DEF EnsureResident, BookType, book
  <2>3. EngineType' /\ LoopType'
    BY Zenon, <1>2 DEF EnsureResident, EngineType, LoopType, engine
  <2>4. PassWellFormed'
    BY <1>2 DEF EnsureResident, PassWellFormed, engine
  <2> QED
    BY Zenon, <2>2, <2>3, <2>4
<1>3. ASSUME Attend PROVE TypeOK'
  <2>1. cur \in Seqs /\ Live(cur) \subseteq Blocks
    BY <1>3, SizeAssumption DEF Attend, PassWellFormed, EngineType, Live, Blocks
  <2>2. \A b \in sel \cup Live(cur) : gpuKV[keyToSlot[<<cur, b>>]] \in Content
    BY Zenon, <1>3 DEF Attend, Needed, Resident, ArenaType
  <2>3. Gathered \subseteq (Key \cup {Junk}) \X Rows
    <3>1. \A b \in sel \cup Live(cur), r \in Rows :
              gpuKV[keyToSlot[<<cur, b>>]][r] \in Key \cup {Junk}
      BY <2>2 DEF Content
    <3>2. FirstRows(part[cur]) \subseteq Rows
      BY DEF FirstRows
    <3>3. \A x \in Gathered : \E b \in sel \cup Live(cur), r \in Rows :
              x = <<gpuKV[keyToSlot[<<cur, b>>]][r], r>>
      <4> DEFINE T(b, r) == <<gpuKV[keyToSlot[<<cur, b>>]][r], r>>
      <4>1. Gathered = {T(b, r) : b \in sel, r \in Rows}
                           \cup {T(b, r) : b \in Live(cur), r \in FirstRows(part[cur])}
        BY DEF Gathered
      <4> HIDE DEF T
      <4>2. \A x \in Gathered : \E b \in sel \cup Live(cur), r \in Rows : x = T(b, r)
        BY <3>2, <4>1
      <4> QED
        BY Zenon, <4>2 DEF T
    <3> QED
      <4> SUFFICES ASSUME NEW x \in Gathered
                   PROVE  x \in (Key \cup {Junk}) \X Rows
        OBVIOUS
      <4> PICK b \in sel \cup Live(cur), r \in Rows :
                 x = <<gpuKV[keyToSlot[<<cur, b>>]][r], r>>
        BY Zenon, <3>3
      <4> QED
        BY <3>1
  <2>4. EngineType' /\ LoopType' /\ PoolType' /\ BookType'
    BY Zenon, <1>3, <2>3 DEF Attend, EngineType, LoopType, PoolType, BookType, engine, pool, book
  <2>5. ArenaType'
    BY <1>3, <2>1 DEF Attend, ArenaType, MoveToEnd, Resident, Key
  <2>6. PassWellFormed'
    BY Zenon, <1>3 DEF Attend, PassWellFormed, engine
  <2> QED
    BY Zenon, <2>4, <2>5, <2>6
<1> QED
  BY <1>1, <1>2, <1>3

LEMMA FailureType ==
  ASSUME TypeOK, Failure
  PROVE  TypeOK'
<1>1. \A e \in Errors \cup {"none"} : e # "none" => e \in Errors
  OBVIOUS
<1>2. "not found" \in Errors /\ "not resident" \in Errors
  BY DEF Errors
<1>3. \A k, isFull : StageRaises(k, isFull) => \E e \in Errors : Raise(e)
  BY <1>1, ErrorType DEF StageRaises
<1>4. \A k : EnsureOneRaises(k) => \E e \in Errors : Raise(e)
  BY Zenon, <1>1, <1>2, ErrorType DEF EnsureOneRaises
<1>5. \A n : WorkingSetError(n) # "none" => WorkingSetError(n) \in Errors
  BY <1>1, ErrorType
<1>6. \E e \in Errors : Raise(e)
  BY Zenon, <1>2, <1>3, <1>4, <1>5 DEF Failure
<1> QED
  BY <1>6, RaiseType

LEMMA InitType == Init => TypeOK
<1> SUFFICES ASSUME Init PROVE TypeOK
  OBVIOUS
<1>1. [r \in Rows |-> Junk] \in Content
  BY DEF Content
<1>2. EngineType
  BY SizeAssumption DEF Init, EngineType, Rows
<1>3. LoopType /\ ArenaType /\ PoolType
  BY <1>1 DEF Init, LoopType, ArenaType, PoolType
<1>4. BookType
  BY <1>1 DEF Init, BookType
<1>5. PassWellFormed
  BY DEF Init, PassWellFormed
<1> QED
  BY <1>2, <1>3, <1>4, <1>5 DEF TypeOK

LEMMA NextType == TypeOK /\ [Next]_vars => TypeOK'
<1> SUFFICES ASSUME TypeOK, [Next]_vars PROVE TypeOK'
  OBVIOUS
<1>1. CASE PrefillWhole
  BY Zenon, <1>1, PrefillType, SizeAssumption DEF PrefillWhole
<1>2. CASE PrefillChunk
  <2>1. 0 \in Rows
    BY SizeAssumption DEF Rows
  <2> QED
    BY Zenon, <1>2, <2>1, PrefillType, SizeAssumption DEF PrefillChunk
<1>3. CASE \/ \E s \in Seqs : Finish(s) \/ BeginPrefetch(s) \/ Select(s)
           \/ EndPrefetch
  BY <1>3, LoopStepType
<1>4. CASE Decode
  BY <1>4, DecodeType
<1>5. CASE Gc
  BY <1>5, GcType
<1>6. CASE IngestPrompt \/ \E s \in Seqs : SkipIngest(s)
  BY <1>6, IngestType
<1>7. CASE \E s \in Seqs : BeginNotify(s)
  BY <1>7, BeginNotifyType
<1>8. CASE \/ StagePartial \/ OnBlockFilled \/ WriteLiveBlock
           \/ \E s \in Seqs : IngestToken(s) \/ AppendToken(s)
  BY <1>8, StageStepType
<1>9. CASE \/ \E b \in Blocks : PrefetchOne(b) \/ EnsureResident(b)
           \/ Attend
  BY <1>9, EnsureStepType
<1>10. CASE Failure
  BY Zenon, <1>10, FailureType
<1>11. CASE UNCHANGED vars
  BY <1>11 DEF vars, engine, loop, arena, pool, book, TypeOK, EngineType, LoopType,
               ArenaType, PoolType, BookType, PassWellFormed, running
<1> QED
  BY <1>1, <1>2, <1>3, <1>4, <1>5, <1>6, <1>7, <1>8, <1>9, <1>10, <1>11 DEF Next, Step

\* No forward pass, whatever the batch and the configuration, leaves a variable
\* of the manager outside its kind or derives a block number that is out of range.
THEOREM TypeCorrect == Spec => []TypeOK
<1>1. Init => TypeOK
  BY InitType
<1>2. TypeOK /\ [Next]_vars => TypeOK'
  BY NextType
<1> QED
  BY <1>1, <1>2, PTL DEF Spec

-----------------------------------------------------------------------------
(***************************************************************************)
(* Orders: what move_to_end and popitem do to the order of the map.        *)
(***************************************************************************)
LEMMA OrdersDef ==
  ASSUME NEW S, NEW r
  PROVE  r \in Orders(S) <=>
            /\ r \subseteq S \X S
            /\ \A x \in S : <<x, x>> \notin r
            /\ \A x, y \in S : x = y \/ <<x, y>> \in r \/ <<y, x>> \in r
            /\ \A x, y, z \in S : <<x, y>> \in r /\ <<y, z>> \in r => <<x, z>> \in r
  BY DEF Orders

LEMMA OrdersRestrict ==
  ASSUME NEW S, NEW r \in Orders(S), NEW T \in SUBSET S
  PROVE  {p \in r : p[1] \in T /\ p[2] \in T} \in Orders(T)
<1> DEFINE q == {p \in r : p[1] \in T /\ p[2] \in T}
<1>1. q \subseteq T \X T
  BY DEF Orders
<1>2. \A x, y \in T : <<x, y>> \in q <=> <<x, y>> \in r
  OBVIOUS
<1> HIDE DEF q
<1>3. q \in Orders(T)
  BY <1>1, <1>2, OrdersDef
<1> QED
  BY <1>3 DEF q

\* The order of S followed by the order of T.
LEMMA OrdersConcat ==
  ASSUME NEW S, NEW T, S \cap T = {}, NEW q \in Orders(S), NEW r \in Orders(T)
  PROVE  q \cup (S \X T) \cup r \in Orders(S \cup T)
<1> DEFINE o == q \cup (S \X T) \cup r
<1>1. /\ q \subseteq S \X S
      /\ \A x \in S : <<x, x>> \notin q
      /\ \A x, y \in S : x = y \/ <<x, y>> \in q \/ <<y, x>> \in q
      /\ \A x, y, z \in S : <<x, y>> \in q /\ <<y, z>> \in q => <<x, z>> \in q
  BY OrdersDef
<1>2. /\ r \subseteq T \X T
      /\ \A x \in T : <<x, x>> \notin r
      /\ \A x, y \in T : x = y \/ <<x, y>> \in r \/ <<y, x>> \in r
      /\ \A x, y, z \in T : <<x, y>> \in r /\ <<y, z>> \in r => <<x, z>> \in r
  BY OrdersDef
<1>3. /\ \A x, y \in S : <<x, y>> \in o <=> <<x, y>> \in q
      /\ \A x, y \in T : <<x, y>> \in o <=> <<x, y>> \in r
      /\ \A x \in S, y \in T : <<x, y>> \in o /\ <<y, x>> \notin o
  BY <1>1, <1>2
<1>4. o \subseteq (S \cup T) \X (S \cup T)
  BY <1>1, <1>2
<1> HIDE DEF o
<1>5. \A x \in S \cup T : <<x, x>> \notin o
  BY Zenon, <1>1, <1>2, <1>3
<1>6. \A x, y \in S \cup T : x = y \/ <<x, y>> \in o \/ <<y, x>> \in o
  BY Zenon, <1>1, <1>2, <1>3
<1>7. \A x, y, z \in S \cup T : <<x, y>> \in o /\ <<y, z>> \in o => <<x, z>> \in o
  BY Zenon, <1>1, <1>2, <1>3
<1>8. o \in Orders(S \cup T)
  BY <1>4, <1>5, <1>6, <1>7, OrdersDef
<1> QED
  BY <1>8 DEF o

\* The live block of a request is at most one block, and needs no order.
LEMMA OrdersAtMostOne ==
  ASSUME NEW S, \A x, y \in S : x = y
  PROVE  {} \in Orders(S)
  BY OrdersDef

LEMMA OrdersSingleton == \A k : {} \in Orders({k})
  BY OrdersAtMostOne

LEMMA MoveToEndOrders ==
  ASSUME NEW R, older \in Orders(R), NEW keys, NEW S \in SUBSET keys,
         keys \ S \subseteq R, NEW r \in Orders(S)
  PROVE  MoveToEnd(keys, S, r) \in Orders(keys)
<1> DEFINE q == {p \in older : p[1] \in keys \ S /\ p[2] \in keys \ S}
<1>1. q \in Orders(keys \ S)
  BY OrdersRestrict
<1>2. (keys \ S) \cup S = keys
  OBVIOUS
<1> HIDE DEF q
<1>3. q \cup ((keys \ S) \X S) \cup r \in Orders((keys \ S) \cup S)
  BY <1>1, OrdersConcat
<1> QED
  BY Zenon, <1>2, <1>3 DEF MoveToEnd, q

LEMMA MoveOneOrders ==
  ASSUME NEW R, older \in Orders(R), NEW keys, NEW k \in keys, keys \ {k} \subseteq R,
         NEW mru \in BOOLEAN
  PROVE  MoveOne(keys, k, mru) \in Orders(keys)
<1>1. CASE mru
  BY Zenon, <1>1, MoveToEndOrders, OrdersSingleton DEF MoveOne
<1>2. CASE ~mru
  <2> DEFINE T == keys \ {k}
             q == {p \in older : p[1] \in T /\ p[2] \in T}
  <2>1. q \in Orders(T)
    BY OrdersRestrict
  <2>2. {k} \cup T = keys
    OBVIOUS
  <2>3. {} \cup ({k} \X T) \cup q = MoveOne(keys, k, mru)
    BY <1>2 DEF MoveOne
  <2> HIDE DEF q, T
  <2>4. {} \cup ({k} \X T) \cup q \in Orders({k} \cup T)
    <3>1. {k} \cap T = {}
      BY DEF T
    <3> QED
      BY Zenon, <2>1, <3>1, OrdersSingleton, OrdersConcat
  <2> QED
    BY Zenon, <2>2, <2>3, <2>4
<1> QED
  BY <1>1, <1>2

\* A finite set of keys that older orders has an oldest key: popitem(last=False)
\* returns one.  Were there none, every key had a predecessor, and counting
\* predecessors would map the n keys one to one to 1 .. n-1.
LEMMA OldestExists ==
  ASSUME NEW R, older \in Orders(R), NEW S \in SUBSET R, IsFiniteSet(S), S # {}
  PROVE  Oldest(S) \in S /\ \A j \in S \ {Oldest(S)} : <<Oldest(S), j>> \in older
<1> SUFFICES ASSUME \A k \in S : \E j \in S \ {k} : <<k, j>> \notin older
             PROVE  FALSE
  BY DEF Oldest
<1> DEFINE Before(k) == {j \in S : <<j, k>> \in older}
           n == Cardinality(S)
           count == [k \in S |-> Cardinality(Before(k))]
<1>0. /\ \A x \in S : <<x, x>> \notin older
      /\ \A x, y \in S : x = y \/ <<x, y>> \in older \/ <<y, x>> \in older
      /\ \A x, y, z \in S : <<x, y>> \in older /\ <<y, z>> \in older => <<x, z>> \in older
  BY OrdersDef
<1>1. n \in Nat
  BY FS_CardinalityType
<1>2. \A k \in S : Before(k) \in SUBSET S
  OBVIOUS
<1>3. \A k \in S : k \notin Before(k) /\ Before(k) # {}
  BY Zenon, <1>0
<1>4. \A j, k \in S : <<j, k>> \in older => Before(j) \subseteq Before(k) /\ j \in Before(k)
  BY Zenon, <1>0
<1>5. \A j, k \in S : j # k => <<j, k>> \in older \/ <<k, j>> \in older
  BY Zenon, <1>0
<1> HIDE DEF Before
<1>6. \A k \in S : IsFiniteSet(Before(k)) /\ Cardinality(Before(k)) \in Nat
  BY Zenon, <1>2, FS_Subset, FS_CardinalityType
<1>7. \A k \in S : Cardinality(Before(k)) \in 1 .. (n - 1)
  <2> TAKE k \in S
  <2>1. Cardinality(Before(k)) <= n /\ Cardinality(Before(k)) # n
    BY Zenon, <1>2, <1>3, FS_Subset
  <2>2. Cardinality(Before(k)) # 0
    BY Zenon, <1>3, <1>6, FS_EmptySet
  <2> QED
    BY <1>1, <1>6, <2>1, <2>2
<1>8. \A j, k \in S : <<j, k>> \in older => Cardinality(Before(j)) # Cardinality(Before(k))
  BY Zenon, <1>3, <1>4, <1>6, FS_Subset
<1>9. count \in [S -> 1 .. (n - 1)]
  BY <1>7
<1>10. IsFiniteSet(1 .. (n - 1)) /\ Cardinality(1 .. (n - 1)) < Cardinality(S)
  <2>1. n # 0
    BY FS_EmptySet
  <2> HIDE DEF n
  <2>2. /\ IsFiniteSet(1 .. (n - 1))
        /\ Cardinality(1 .. (n - 1)) = IF 1 > n - 1 THEN 0 ELSE (n - 1) - 1 + 1
    BY <1>1, FS_Interval
  <2>3. Cardinality(1 .. (n - 1)) < n
    BY <1>1, <2>1, <2>2
  <2> QED
    BY <2>2, <2>3 DEF n
<1>11. \E x, y \in S : x # y /\ count[x] = count[y]
  <2> DEFINE T == 1 .. (n - 1)
  <2>1. count \in [S -> T] /\ IsFiniteSet(T) /\ Cardinality(T) < Cardinality(S)
    BY <1>9, <1>10
  <2> HIDE DEF count, T
  <2> QED
    BY <2>1, FS_PigeonHole
<1> QED
  BY Zenon, <1>5, <1>8, <1>11

-----------------------------------------------------------------------------
(***************************************************************************)
(* The slots.                                                              *)
(***************************************************************************)
LEMMA ResidentFinite ==
  ASSUME ArenaType, ArenaAccounting
  PROVE  /\ IsFiniteSet(Resident)
         /\ freeSlots = {} => Cardinality(Resident) = Cap
<1> DEFINE f == [k \in Resident |-> keyToSlot[k]]
<1>1. f \in [Resident -> Slots]
  BY DEF Resident, ArenaType
<1>2. f \in Injection(Resident, Slots)
  BY <1>1 DEF ArenaAccounting, Injection, IsInjective
<1>3. freeSlots = {} => f \in Surjection(Resident, Slots)
  BY <1>1 DEF ArenaAccounting, Surjection
<1> HIDE DEF f
<1> QED
  BY <1>2, <1>3, ArenaAssumption, FS_Injection DEF Cap

LEMMA SlotsNonempty == Slots # {}
  BY TopKAssumption, SizeAssumption, FS_EmptySet DEF Cap, ArenaFits

\* add() on a full map evicts a resident key.
LEMMA VictimResident ==
  ASSUME ArenaType, ArenaAccounting, freeSlots = {}, NEW P
  PROVE  Victim(P) \in Resident
<1>1. Resident # {} /\ IsFiniteSet(Resident)
  BY SlotsNonempty, ResidentFinite DEF ArenaAccounting
<1>2. IsFiniteSet(Resident \ P)
  BY <1>1, FS_Subset
<1>3. older \in Orders(Resident)
  BY DEF ArenaAccounting
<1>4. CASE Resident \subseteq P
  BY <1>1, <1>3, <1>4, OldestExists DEF Victim
<1>5. CASE ~(Resident \subseteq P)
  <2>1. Resident \ P # {} /\ Resident \ P \in SUBSET Resident
    BY <1>5
  <2>2. Oldest(Resident \ P) \in Resident \ P
    BY Zenon, <1>2, <1>3, <2>1, OldestExists
  <2> QED
    BY <1>5, <2>2 DEF Victim
<1> QED
  BY Zenon, <1>4, <1>5

LEMMA AddAccounting ==
  ASSUME ArenaType, ArenaAccounting, NEW k \in Key, NEW P, NEW g \in Slots,
         NEW e \in Key \cup {None}, NEW mru \in BOOLEAN,
         AddReturns(k, P, g, e), Add(k, g, e, mru)
  PROVE  /\ Resident' = (Resident \ {e}) \cup {k}
         /\ e # None => e \in Resident /\ e # k
         /\ ArenaAccounting'
<1> None \notin Slots /\ None \notin Key
  BY Zenon, NoneAssumption
<1>1. e # None => e \in Resident /\ e # k /\ keyToSlot[e] = g
  BY Zenon, VictimResident DEF AddReturns, Resident
<1>2. Resident' = (Resident \ {e}) \cup {k}
  BY DEF Add, Resident
<1>3. \A j \in Resident \ {e} : j # k => keyToSlot[j] # g
  BY Zenon, <1>1, VictimResident DEF AddReturns, ArenaAccounting, Resident
<1>4. \A j \in Resident' : keyToSlot'[j] = IF j = k THEN g ELSE keyToSlot[j]
  BY Zenon, <1>2 DEF Add, Resident
<1>5. \A i, j \in Resident' : keyToSlot'[i] = keyToSlot'[j] => i = j
  BY <1>2, <1>3, <1>4 DEF ArenaAccounting
<1>6. freeSlots' = Slots \ {keyToSlot'[j] : j \in Resident'}
  <2>1. {keyToSlot'[j] : j \in Resident'} = {keyToSlot[j] : j \in Resident} \cup {g}
    <3>1. k \in Resident => keyToSlot[k] = g
      BY Zenon DEF AddReturns, Resident
    <3>2. \A j \in Resident \ {e, k} : j \in Resident' /\ keyToSlot'[j] = keyToSlot[j]
      BY Zenon, <1>2, <1>4
    <3>3. k \in Resident' /\ keyToSlot'[k] = g
      BY Zenon, <1>2, <1>4
    <3>4. e \in Resident => keyToSlot[e] = g
      BY <1>1 DEF Resident
    <3>5. ASSUME NEW j \in Resident'
          PROVE  keyToSlot'[j] \in {keyToSlot[i] : i \in Resident} \cup {g}
      <4>1. j = k \/ j \in Resident \ {e, k}
        BY Zenon, <1>2
      <4> QED
        BY Zenon, <3>2, <3>3, <4>1
    <3>6. ASSUME NEW j \in Resident
          PROVE  keyToSlot[j] \in {keyToSlot'[i] : i \in Resident'}
      <4>1. j = k \/ j = e \/ j \in Resident \ {e, k}
        BY Zenon
      <4> QED
        BY Zenon, <3>1, <3>2, <3>3, <3>4, <4>1
    <3> QED
      BY Zenon, <3>3, <3>5, <3>6
  <2> QED
    BY Zenon, <2>1 DEF Add, ArenaAccounting
<1>7. older' \in Orders(Resident')
  <2>1. k \in Resident' /\ Resident' \ {k} \subseteq Resident
    BY Zenon, <1>2
  <2>2. older' = MoveOne(Resident', k, mru)
    BY Zenon, <1>2 DEF Add
  <2> QED
    BY Zenon, <2>1, <2>2, MoveOneOrders DEF ArenaAccounting
<1> QED
  BY Zenon, <1>1, <1>2, <1>5, <1>6, <1>7 DEF ArenaAccounting

\* A step that only reorders the resident keys keeps the accounts.
LEMMA ReorderAccounting ==
  ASSUME ArenaAccounting, UNCHANGED <<keyToSlot, freeSlots>>, older' \in Orders(Resident)
  PROVE  ArenaAccounting'
  BY DEF ArenaAccounting, Resident

LEMMA StageAccounting ==
  ASSUME ArenaType, ArenaAccounting, NEW k \in Key, NEW C, NEW W,
         NEW isFull \in BOOLEAN, Stage(k, C, W, isFull)
  PROVE  ArenaAccounting'
  BY Zenon, AddAccounting DEF Stage

LEMMA EnsureOneAccounting ==
  ASSUME ArenaType, ArenaAccounting, NEW k \in Key, NEW mru \in BOOLEAN,
         EnsureOne(k, mru)
  PROVE  ArenaAccounting'
<1>1. CASE keyToSlot[k] # None /\ Get(k, mru)
  <2>1. k \in Resident
    BY Zenon, <1>1 DEF Resident
  <2>2. MoveOne(Resident, k, mru) \in Orders(Resident)
    BY <2>1, MoveOneOrders DEF ArenaAccounting
  <2> QED
    BY <1>1, <2>2, ReorderAccounting DEF Get
<1>2. CASE \E g \in Slots, e \in Key \cup {None} :
              /\ AddReturns(k, ProtectedKeys(k[1]), g, e)
              /\ Add(k, g, e, mru)
  BY <1>2, AddAccounting
<1> QED
  BY Zenon, <1>1, <1>2 DEF EnsureOne

\* Giving slots to the blocks of a request that has none in the arena.
LEMMA EstablishAccounting ==
  ASSUME ArenaType, ArenaAccounting, NEW s \in Seqs, NEW n,
         EstablishWorkingSet(s, n), \A k \in Resident : k[1] # s
  PROVE  ArenaAccounting'
<1> None \notin Slots
  BY NoneAssumption
<1> DEFINE K == Kept(n)
           new == {s} \X K
<1>1. K \subseteq Blocks
  BY DEF Kept
<1>2. PICK f \in Injection(K, freeSlots) :
        /\ keyToSlot' = EnterSlots(keyToSlot, s, f)
        /\ freeSlots' = freeSlots \ {f[b] : b \in K}
        /\ older' = older \cup (Resident \X new)
                        \cup {<<<<s, p[1]>>, <<s, p[2]>>>> :
                                p \in {q \in K \X K : q[1] < q[2]}}
  BY Zenon DEF EstablishWorkingSet
<1>3. f \in [K -> freeSlots] /\ \A a, b \in K : f[a] = f[b] => a = b
  BY DEF Injection, IsInjective
<1>4. new \subseteq Key /\ new \cap Resident = {}
  BY Zenon, <1>1 DEF Key
<1>5. \A k \in Key : keyToSlot'[k] = IF k \in new THEN f[k[2]] ELSE keyToSlot[k]
  BY <1>2, <1>3 DEF EnterSlots, Key
<1>6. \A k \in new : k[2] \in K /\ f[k[2]] \in freeSlots
  BY Zenon, <1>3
<1>7. freeSlots \subseteq Slots /\ \A k \in Resident : keyToSlot[k] \notin freeSlots
  BY Zenon DEF ArenaAccounting
<1>8. Resident' = Resident \cup new
  <2>1. \A k \in Key : keyToSlot'[k] # None <=> k \in new \/ keyToSlot[k] # None
    BY Zenon, <1>5, <1>6, <1>7
  <2> QED
    BY Zenon, <1>4, <2>1 DEF Resident
<1>9. /\ \A k \in Resident : keyToSlot'[k] = keyToSlot[k]
      /\ \A k \in new : keyToSlot'[k] = f[k[2]]
  BY Zenon, <1>4, <1>5 DEF Resident
<1>10. \A j, k \in new : f[j[2]] = f[k[2]] => j = k
  BY <1>3
<1>11. \A j, k \in Resident' : keyToSlot'[j] = keyToSlot'[k] => j = k
  <2> HIDE DEF new
  <2>1. \A j, k \in Resident : keyToSlot'[j] = keyToSlot'[k] => j = k
    BY Zenon, <1>9 DEF ArenaAccounting
  <2>2. \A j, k \in new : keyToSlot'[j] = keyToSlot'[k] => j = k
    BY <1>9, <1>10
  <2>3. \A j \in Resident, k \in new : keyToSlot'[j] # keyToSlot'[k]
    BY <1>6, <1>7, <1>9
  <2> QED
    BY Zenon, <1>8, <2>1, <2>2, <2>3
<1>12. freeSlots' = Slots \ {keyToSlot'[k] : k \in Resident'}
  <2>1. {f[b] : b \in K} = {keyToSlot'[k] : k \in new}
    <3>1. \A b \in K : <<s, b>> \in new /\ keyToSlot'[<<s, b>>] = f[b]
      BY Zenon, <1>9
    <3>2. \A k \in new : k[2] \in K /\ keyToSlot'[k] = f[k[2]]
      BY <1>6, <1>9
    <3> HIDE DEF new, K
    <3>3. ASSUME NEW b \in K PROVE f[b] \in {keyToSlot'[k] : k \in new}
      BY Zenon, <3>1
    <3>4. ASSUME NEW k \in new PROVE keyToSlot'[k] \in {f[b] : b \in K}
      BY Zenon, <3>2
    <3> QED
      BY Zenon, <3>3, <3>4
  <2>2. {keyToSlot'[k] : k \in Resident'} =
            {keyToSlot[k] : k \in Resident} \cup {keyToSlot'[k] : k \in new}
    <3> HIDE DEF new
    <3> QED
      BY <1>8, <1>9
  <2> QED
    BY Zenon, <1>2, <2>1, <2>2 DEF ArenaAccounting
<1>13. older' \in Orders(Resident')
  <2> DEFINE asc == {<<<<s, p[1]>>, <<s, p[2]>>>> : p \in {q \in K \X K : q[1] < q[2]}}
  <2>1. asc \in Orders(new)
    <3>1. asc \subseteq new \X new
      OBVIOUS
    <3>2. \A a, b \in K : <<<<s, a>>, <<s, b>>>> \in asc <=> a < b
      <4> TAKE a, b \in K
      <4>1. ASSUME a < b PROVE <<<<s, a>>, <<s, b>>>> \in asc
        <5>1. <<a, b>> \in {q \in K \X K : q[1] < q[2]}
          BY <4>1
        <5> QED
          BY <5>1
      <4>2. ASSUME <<<<s, a>>, <<s, b>>>> \in asc PROVE a < b
        <5>1. PICK p \in K \X K : /\ p[1] < p[2]
                                  /\ <<<<s, a>>, <<s, b>>>> = <<<<s, p[1]>>, <<s, p[2]>>>>
          BY <4>2
        <5> QED
          BY Zenon, <5>1
      <4> QED
        BY Zenon, <4>1, <4>2
    <3>3. K \subseteq Int
      BY <1>1, SizeAssumption DEF Blocks
    <3>4. \A k \in new : k[2] \in K /\ k = <<s, k[2]>>
      OBVIOUS
    <3>5. \A j, k \in new : <<j, k>> \in asc <=> j[2] < k[2]
      <4> HIDE DEF asc, new
      <4> QED
        BY <3>2, <3>4
    <3> HIDE DEF asc, new
    <3>6. \A k \in new : <<k, k>> \notin asc
      BY <3>3, <3>4, <3>5
    <3>7. \A j, k \in new : j = k \/ <<j, k>> \in asc \/ <<k, j>> \in asc
      <4> TAKE j, k \in new
      <4>1. j[2] = k[2] => j = k
        BY <3>4
      <4>2. j[2] \in Int /\ k[2] \in Int
        BY <3>3, <3>4
      <4>3. j[2] = k[2] \/ j[2] < k[2] \/ k[2] < j[2]
        BY <4>2
      <4> QED
        BY <3>5, <4>1, <4>3
    <3>8. \A i, j, k \in new : <<i, j>> \in asc /\ <<j, k>> \in asc => <<i, k>> \in asc
      BY <3>3, <3>4, <3>5
    <3> QED
      BY Zenon, <3>1, <3>6, <3>7, <3>8, OrdersDef
  <2>2. older' = older \cup (Resident \X new) \cup asc
    BY Zenon, <1>2
  <2> HIDE DEF asc, new
  <2> QED
    BY Zenon, <1>4, <1>8, <2>1, <2>2, OrdersConcat DEF ArenaAccounting
<1> QED
  BY Zenon, <1>11, <1>12, <1>13 DEF ArenaAccounting

LEMMA FreeAccounting ==
  ASSUME ArenaType, ArenaAccounting, NEW G \in SUBSET Seqs, FreeRequests(G)
  PROVE  ArenaAccounting'
<1> DEFINE gone == G \X Blocks
<1>1. gone \subseteq Key
  BY Zenon DEF Key
<1>2. /\ keyToSlot' = [k \in Key |-> IF k \in gone THEN None ELSE keyToSlot[k]]
      /\ freeSlots' = freeSlots \cup ({keyToSlot[k] : k \in gone} \ {None})
      /\ older' = {p \in older : p[1] \notin gone /\ p[2] \notin gone}
  BY Zenon DEF FreeRequests
<1> HIDE DEF gone
<1>3. Resident' = Resident \ gone
  BY <1>2 DEF Resident
<1>4. \A k \in Resident \ gone : keyToSlot'[k] = keyToSlot[k]
  BY <1>2 DEF Resident
<1>5. \A j, k \in Resident' : keyToSlot'[j] = keyToSlot'[k] => j = k
  BY <1>3, <1>4 DEF ArenaAccounting
<1>6. freeSlots' = Slots \ {keyToSlot'[k] : k \in Resident'}
  <2>1. {keyToSlot'[k] : k \in Resident'} = {keyToSlot[k] : k \in Resident \ gone}
    BY <1>3, <1>4
  <2>2. {keyToSlot[k] : k \in gone} \ {None} = {keyToSlot[k] : k \in Resident \cap gone}
    BY <1>1 DEF Resident
  <2>3. \A k \in Resident : keyToSlot[k] \in Slots
    BY DEF Resident, ArenaType
  <2> DEFINE lost == {keyToSlot[k] : k \in Resident \cap gone}
             kept == {keyToSlot[k] : k \in Resident \ gone}
  <2>4. lost \subseteq Slots /\ lost \cap kept = {}
    BY <2>3 DEF ArenaAccounting
  <2>5. freeSlots = Slots \ (lost \cup kept)
    <3>1. {keyToSlot[k] : k \in Resident} = lost \cup kept
      OBVIOUS
    <3> QED
      BY Zenon, <3>1 DEF ArenaAccounting
  <2>6. freeSlots' = freeSlots \cup lost
    BY <1>2, <2>2
  <2> HIDE DEF lost
  <2>7. freeSlots' = Slots \ kept
    <3> HIDE DEF kept
    <3> QED
      BY Zenon, <2>4, <2>5, <2>6
  <2> QED
    BY <2>1, <2>7
<1>7. older' \in Orders(Resident')
  <2>1. older' = {p \in older : p[1] \in Resident \ gone /\ p[2] \in Resident \ gone}
    BY <1>2 DEF ArenaAccounting, Orders
  <2> QED
    BY Zenon, <1>3, <2>1, OrdersRestrict DEF ArenaAccounting
<1> QED
  BY <1>5, <1>6, <1>7 DEF ArenaAccounting

-----------------------------------------------------------------------------
(***************************************************************************)
(* What the manager holds.                                                 *)
(***************************************************************************)
LEMMA EnsureOneHeld ==
  ASSUME ArenaType, PoolType, ArenaAccounting, NEW k \in Key, NEW mru \in BOOLEAN,
         EnsureOne(k, mru)
  PROVE  Held' \subseteq Held
<1>1. CASE Get(k, mru) /\ UNCHANGED <<pool, onCpu>>
  BY Zenon, <1>1 DEF Get, Held, pool
<1>2. ASSUME NEW g \in Slots, NEW e \in Key \cup {None}, Source(k) # None,
             AddReturns(k, ProtectedKeys(k[1]), g, e), Add(k, g, e, mru),
             ReloadPool(k, e, g)
      PROVE  Held' \subseteq Held
  <2>1. k \in Held
    BY Zenon, <1>2 DEF Source, Held
  <2>2. e # None => e \in Held
    <3>1. e # None => e \in Resident
      BY <1>2, AddAccounting
    <3> QED
      BY Zenon, <3>1 DEF Resident, Held
  <2>3. \A j \in Key : j # k => (keyToSlot'[j] # None => keyToSlot[j] # None)
    BY Zenon, <1>2 DEF Add
  <2>4. \A j \in Key : j # k /\ j # e =>
            cpuSlots'[j] = cpuSlots[j] /\ hostSlots'[j] = hostSlots[j]
    BY <1>2 DEF ReloadPool, pool, PoolType
  <2>5. None \notin Key
    BY NoneAssumption
  <2> QED
    BY Zenon, <2>1, <2>2, <2>3, <2>4, <2>5 DEF Held
<1> QED
  BY Zenon, <1>1, <1>2 DEF EnsureOne

LEMMA StageHeld ==
  ASSUME ArenaType, PoolType, ArenaAccounting, NEW k \in Key, NEW C, NEW W,
         NEW isFull \in BOOLEAN, Stage(k, C, W, isFull)
  PROVE  Held' \subseteq Held \cup {k}
<1>1. PICK g \in Slots, e \in Key \cup {None} :
        /\ AddReturns(k, {}, g, e)
        /\ Add(k, g, e, TRUE)
        /\ StagePool(k, e, isFull, gpuKV[g], CopyRows(gpuKV[g], k, C, W))
  BY Zenon DEF Stage
<1>2. e # None => e \in Held
  BY Zenon, <1>1, AddAccounting DEF Resident, Held
<1>3. \A j \in Key : j # k => (keyToSlot'[j] # None => keyToSlot[j] # None)
  BY Zenon, <1>1 DEF Add
<1>4. \A j \in Key : j # k /\ j # e =>
          cpuSlots'[j] = cpuSlots[j] /\ hostSlots'[j] = hostSlots[j]
  BY <1>1 DEF StagePool, MirrorToHost, SpillToCpu, pool, PoolType
<1>5. None \notin Key
  BY NoneAssumption
<1> QED
  BY Zenon, <1>2, <1>3, <1>4, <1>5 DEF Held

LEMMA EstablishHeld ==
  ASSUME NEW s \in Seqs, NEW n, EstablishWorkingSet(s, n)
  PROVE  /\ \A k \in Held' : k \in Held \/ k[1] = s
         /\ trimmed' = trimmed \cup {s}
<1>1. PICK f \in Injection(Kept(n), freeSlots), h \in Injection(Backed(n), cpuFree) :
        /\ keyToSlot' = EnterSlots(keyToSlot, s, f)
        /\ cpuSlots' = IF WriteThrough THEN cpuSlots ELSE EnterSlots(cpuSlots, s, h)
        /\ hostSlots' = IF WriteThrough THEN EnterSlots(hostSlots, s, h) ELSE hostSlots
        /\ trimmed' = trimmed \cup {s}
  BY Zenon DEF EstablishWorkingSet, MarkTrimmed
<1>2. \A k \in Key : k[1] # s => /\ keyToSlot'[k] = keyToSlot[k]
                                 /\ cpuSlots'[k] = cpuSlots[k]
                                 /\ hostSlots'[k] = hostSlots[k]
  BY Zenon, <1>1 DEF EnterSlots
<1> QED
  BY Zenon, <1>1, <1>2 DEF Held

LEMMA FreeHeld ==
  ASSUME NEW G \in SUBSET Seqs, FreeRequests(G)
  PROVE  /\ \A k \in Held' : k \in Held /\ k[1] \notin G
         /\ trimmed' = trimmed \ G
<1>1. \A k \in Key : k[1] \in G => k \in G \X Blocks
  BY Zenon DEF Key
<1> QED
  BY Zenon, <1>1 DEF FreeRequests, Held

-----------------------------------------------------------------------------
ArenaInv == TypeOK /\ ArenaAccounting /\ UntrimmedHoldNothing

\* The steps that move no block.
LEMMA ArenaUnmoved ==
  ASSUME ArenaInv, UNCHANGED <<arena, pool, trimmed>>,
         \A s \in Seqs : status[s] \in {"decode", "done"} =>
            /\ status'[s] \in {"decode", "done"}
            /\ pc' \in {"gcIngest", "ingest"} /\ cur' = s =>
                    pc \in {"gcIngest", "ingest"} /\ cur = s,
         pc' \in {"stage", "fill"} => cur' \in trimmed
  PROVE  ArenaAccounting' /\ UntrimmedHoldNothing'
<1>1. ArenaAccounting'
  <2>1. UNCHANGED <<keyToSlot, freeSlots>> /\ older' = older
    BY Zenon DEF arena
  <2>2. ArenaAccounting /\ older \in Orders(Resident)
    BY Zenon DEF ArenaInv, ArenaAccounting
  <2> QED
    BY Zenon, <2>1, <2>2, ReorderAccounting
<1>2. Held' = Held
  BY DEF Held, arena, pool
<1>3. \A k \in Held : k[1] \in Seqs
  BY Zenon DEF Held, Key
<1>4. UntrimmedHoldNothing'
  BY <1>2, <1>3 DEF ArenaInv, UntrimmedHoldNothing
<1> QED
  BY <1>1, <1>4

LEMMA ArenaInvNext == ArenaInv /\ [Next]_vars => ArenaInv'
<1> SUFFICES ASSUME ArenaInv, [Next]_vars PROVE ArenaAccounting' /\ UntrimmedHoldNothing'
  BY NextType DEF ArenaInv
<1> /\ TypeOK /\ EngineType /\ LoopType /\ ArenaType /\ PoolType /\ BookType
    /\ PassWellFormed /\ ArenaAccounting /\ UntrimmedHoldNothing
  BY DEF ArenaInv, TypeOK
<1>0. \A k \in Held : k \in Key /\ k[1] \in Seqs
  BY Zenon DEF Held, Key
<1>1. ASSUME NEW s \in Seqs, NEW f, NEW p, NEW last, Prefill(s, f, p, last)
      PROVE  ArenaAccounting' /\ UntrimmedHoldNothing'
  BY Zenon, <1>1, ArenaUnmoved DEF Prefill, EngineType, arena, pool, book
<1>2. CASE \E s \in Seqs : Finish(s)
  BY Zenon, <1>2, ArenaUnmoved DEF Finish, EngineType, arena, pool, book, loop
<1>3. CASE Decode
  BY Zenon, <1>3, ArenaUnmoved DEF Decode, arena, pool, book
<1>4. CASE \E s \in Seqs : BeginPrefetch(s)
  BY Zenon, <1>4, ArenaUnmoved DEF BeginPrefetch, arena, pool, engine
<1>5. CASE EndPrefetch
  BY <1>5, ArenaUnmoved DEF EndPrefetch, arena, pool, book, engine
<1>6. CASE Failure
  <2>1. PICK e : Raise(e)
    BY Zenon, <1>6 DEF Failure, StageRaises, EnsureOneRaises
  <2> QED
    BY <2>1, ArenaUnmoved DEF Raise, arena, pool, book, engine
<1>7. CASE UNCHANGED vars
  BY Zenon, <1>7, ArenaUnmoved DEF vars, arena, pool, book, engine, loop, UntrimmedHoldNothing
<1>8. CASE Gc
  <2> DEFINE G == activeSeqs \ todo
  <2>1. FreeRequests(G) /\ G \in SUBSET Seqs
    BY <1>8 DEF Gc, BookType
  <2> HIDE DEF G
  <2>2. ArenaAccounting'
    BY <2>1, FreeAccounting
  <2>3. UntrimmedHoldNothing'
    BY Zenon, <1>8, <2>1, FreeHeld DEF Gc, UntrimmedHoldNothing, engine, loop
  <2> QED
    BY <2>2, <2>3
<1>9. CASE \E s \in Seqs : SkipIngest(s)
  BY Zenon, <1>9, ArenaUnmoved DEF SkipIngest, EndIngest, engine, UntrimmedHoldNothing
<1>16. CASE IngestPrompt
  <2>1. cur \in Seqs /\ EstablishWorkingSet(cur, full[cur]) /\ pc = "ingest" /\ cur \notin trimmed
    BY Zenon, <1>16 DEF IngestPrompt, PassWellFormed
  <2>2. \A k \in Resident : k[1] # cur
    BY <2>1 DEF UntrimmedHoldNothing, Held, Resident
  <2>3. ArenaAccounting'
    BY Zenon, <2>1, <2>2, EstablishAccounting
  <2>4. /\ pc' \in {"idle", "ingest", "stage"} /\ status' = status
        /\ pc' # "idle" => cur' = cur
    BY Zenon, <1>16 DEF IngestPrompt, EndIngest, engine, loop
  <2>5. UntrimmedHoldNothing'
    BY <2>1, <2>4, EstablishHeld DEF UntrimmedHoldNothing
  <2> QED
    BY <2>3, <2>5
<1>17. CASE \E s \in Seqs : IngestToken(s)
  <2> PICK s \in Seqs : IngestToken(s)
    BY <1>17
  <2>1. <<s, 0>> \in Key
    BY KeyType, SizeAssumption DEF Blocks
  <2>2. ArenaAccounting' /\ Held' \subseteq Held \cup {<<s, 0>>}
    BY Zenon, <2>1, StageAccounting, StageHeld DEF IngestToken
  <2>3. /\ pc = "ingest" /\ status' = status /\ trimmed' = trimmed \cup {s}
        /\ pc' \in {"idle", "ingest"} /\ (pc' # "idle" => cur' = cur)
    BY DEF IngestToken, MarkTrimmed, EndIngest, engine
  <2>4. UntrimmedHoldNothing'
    BY <2>2, <2>3 DEF UntrimmedHoldNothing
  <2> QED
    BY <2>2, <2>4
<1>10. CASE \E s \in Seqs : BeginNotify(s)
  <2> PICK s \in Seqs : BeginNotify(s)
    BY <1>10
  <2>1. CASE s \in trimmed /\ UNCHANGED <<arena, pool, onCpu, trimmed>>
    BY Zenon, <2>1, ArenaUnmoved DEF BeginNotify, engine
  <2>2. CASE s \notin trimmed /\ EstablishWorkingSet(s, full[s])
    <3>1. \A k \in Resident : k[1] # s
      BY Zenon, <2>2 DEF BeginNotify, UntrimmedHoldNothing, Held, Resident
    <3>2. ArenaAccounting'
      BY <2>2, <3>1, EstablishAccounting
    <3>3. /\ ~KvShare /\ pc' = "fill" /\ cur' = s
          /\ (\A k \in Held' : k \in Held \/ k[1] = s) /\ trimmed' = trimmed \cup {s}
      BY Zenon, <2>2, EstablishHeld DEF BeginNotify
    <3>4. UntrimmedHoldNothing'
      BY Zenon, <3>3 DEF UntrimmedHoldNothing
    <3> QED
      BY <3>2, <3>4
  <2> QED
    BY <2>1, <2>2 DEF BeginNotify
<1>11. CASE StagePartial
  <2>1. <<cur, full[cur]>> \in Key
    BY <1>11, SizeAssumption DEF StagePartial, PassWellFormed, EngineType, Blocks, Key
  <2>2. ArenaAccounting' /\ Held' \subseteq Held \cup {<<cur, full[cur]>>}
    BY Zenon, <1>11, <2>1, StageAccounting, StageHeld DEF StagePartial
  <2>3. /\ pc = "stage" /\ UNCHANGED <<status, trimmed>>
        /\ pc' \in {"idle", "ingest"} /\ (pc' # "idle" => cur' = cur)
    BY Zenon, <1>11 DEF StagePartial, EndIngest, engine
  <2>4. UntrimmedHoldNothing'
    BY <2>2, <2>3 DEF UntrimmedHoldNothing
  <2> QED
    BY Zenon, <2>2, <2>4
<1>12. CASE OnBlockFilled \/ WriteLiveBlock
  <2> DEFINE k == <<cur, TokenBlock(cur)>>
  <2>1. cur \in Seqs /\ full[cur] > 0
    BY Zenon, <1>12 DEF OnBlockFilled, WriteLiveBlock, PassWellFormed, running
  <2>2. k \in Key /\ k[1] = cur
    BY <2>1, TokenBlockType, KeyType
  <2>3. pc = "fill" /\ EndTurn(cur)
    BY Zenon, <1>12 DEF OnBlockFilled, WriteLiveBlock
  <2>4. ArenaAccounting' /\ Held' \subseteq Held \cup {k}
    <3>1. CASE OnBlockFilled
      <4>1. Stage(k, Rows, Rows, TRUE)
        BY Zenon, <3>1 DEF OnBlockFilled, TokenBlock
      <4> HIDE DEF k
      <4> QED
        BY Zenon, <2>2, <4>1, StageAccounting, StageHeld
    <3>2. CASE WriteLiveBlock
      <4>1. part[cur] # 0
        BY <2>1, <3>2, SizeAssumption DEF WriteLiveBlock, EngineType, Rows
      <4>2. Stage(k, Rows, FirstRows(part[cur]), FALSE)
        BY Zenon, <3>2, <4>1 DEF WriteLiveBlock, TokenBlock
      <4> HIDE DEF k
      <4> QED
        BY Zenon, <2>2, <4>2, StageAccounting, StageHeld
    <3> QED
      BY <1>12, <3>1, <3>2
  <2> HIDE DEF k
  <2>5. UntrimmedHoldNothing'
    BY Zenon, <2>2, <2>3, <2>4 DEF EndTurn, UntrimmedHoldNothing, engine, book
  <2> QED
    BY <2>4, <2>5
<1>13. CASE \E s \in Seqs : AppendToken(s)
  <2> PICK s \in Seqs : AppendToken(s)
    BY <1>13
  <2> DEFINE k == <<s, TokenBlock(s)>>
  <2>1. full[s] > 0 /\ status[s] = "decode"
    BY Zenon DEF AppendToken, PassWellFormed, running
  <2>2. k \in Key /\ k[1] = s
    BY Zenon, <2>1, TokenBlockType, KeyType
  <2>3. /\ KvShare /\ EndTurn(s)
        /\ Stage(k, {TokenRow(s)}, {TokenRow(s)}, part[s] = 0)
    BY Zenon DEF AppendToken
  <2> HIDE DEF k
  <2>4. ArenaAccounting' /\ Held' \subseteq Held \cup {k}
    BY Zenon, <2>2, <2>3, StageAccounting, StageHeld
  <2>5. UntrimmedHoldNothing'
    BY Zenon, <2>1, <2>2, <2>3, <2>4 DEF EndTurn, UntrimmedHoldNothing, engine, book
  <2> QED
    BY <2>4, <2>5
<1>14. CASE \E b \in Blocks : PrefetchOne(b) \/ EnsureResident(b)
  <2> PICK b \in Blocks : PrefetchOne(b) \/ EnsureResident(b)
    BY <1>14
  <2>1. <<cur, b>> \in Key
    BY Zenon, KeyType DEF PrefetchOne, EnsureResident, LoopType, PassWellFormed
  <2>2. PICK mru \in BOOLEAN : EnsureOne(<<cur, b>>, mru)
    BY Zenon, FlagAssumption DEF PrefetchOne, EnsureResident
  <2>3. ArenaAccounting' /\ Held' \subseteq Held
    BY <2>1, <2>2, EnsureOneAccounting, EnsureOneHeld
  <2>4. UntrimmedHoldNothing'
    BY Zenon, <2>3 DEF PrefetchOne, EnsureResident, UntrimmedHoldNothing, engine, book
  <2> QED
    BY <2>3, <2>4
<1>15. CASE (\E s \in Seqs : Select(s)) \/ Attend
  <2>1. older' \in Orders(Resident)
    <3>1. ASSUME NEW s \in Seqs, Select(s) PROVE older' \in Orders(Resident)
      <4> PICK S \in Selections(s, TopK) :
            \E r \in Orders(Resident \cap ({s} \X S)) :
               older' = MoveToEnd(Resident,
                            (Resident \cap ({s} \X Live(s))) \cup (Resident \cap ({s} \X S)),
                            ((Resident \cap ({s} \X Live(s))) \X (Resident \cap ({s} \X S))) \cup r)
        BY Zenon, <3>1 DEF Select
      <4> DEFINE keep == Resident \cap ({s} \X Live(s))
                 ids == Resident \cap ({s} \X S)
      <4>1. keep \cap ids = {}
        <5>1. Live(s) \cap S = {}
          BY SizeAssumption DEF Live, Selections, EngineType
        <5> QED
          BY Zenon, <5>1, RowApart
      <4>2. {} \in Orders(keep)
        <5>1. \A x, y \in keep : x = y
          BY DEF Live
        <5> HIDE DEF keep
        <5> QED
          BY Zenon, <5>1, OrdersAtMostOne
      <4>3. keep \cup ids \in SUBSET Resident
        OBVIOUS
      <4>4. PICK r \in Orders(ids) : older' = MoveToEnd(Resident, keep \cup ids, (keep \X ids) \cup r)
        BY Zenon
      <4> HIDE DEF keep, ids
      <4>5. {} \cup (keep \X ids) \cup r \in Orders(keep \cup ids)
        BY Zenon, <4>1, <4>2, OrdersConcat
      <4>6. (keep \X ids) \cup r \in Orders(keep \cup ids)
        BY Zenon, <4>5
      <4> QED
        BY Zenon, <4>3, <4>4, <4>6, MoveToEndOrders DEF ArenaAccounting
    <3>2. ASSUME Attend PROVE older' \in Orders(Resident)
      <4>1. {cur} \X Live(cur) \subseteq Resident
        <5>1. Needed \subseteq Resident
          BY <3>2 DEF Attend
        <5> QED
          BY <5>1 DEF Needed
      <4>2. {} \in Orders({cur} \X Live(cur))
        <5>1. \A x, y \in {cur} \X Live(cur) : x = y
          BY DEF Live
        <5> QED
          BY Zenon, <5>1, OrdersAtMostOne
      <4> QED
        BY Zenon, <3>2, <4>1, <4>2, MoveToEndOrders DEF Attend, ArenaAccounting
    <3> QED
      BY <1>15, <3>1, <3>2
  <2>2. UNCHANGED <<keyToSlot, freeSlots, pool, trimmed, status>> /\ pc' \in {"ensure", "idle", "select"}
    BY Zenon, <1>15 DEF Select, Attend, book, engine
  <2>3. Held' = Held
    BY Zenon, <2>2 DEF Held, pool
  <2> QED
    BY Zenon, <2>1, <2>2, <2>3, ReorderAccounting DEF UntrimmedHoldNothing
<1> QED
  BY Zenon, <1>1, <1>2, <1>3, <1>4, <1>5, <1>6, <1>7, <1>8, <1>9, <1>10, <1>11, <1>12, <1>13,
     <1>14, <1>15, <1>16, <1>17 DEF Next, Step, PrefillWhole, PrefillChunk

LEMMA ArenaInvInit == Init => ArenaInv
<1> SUFFICES ASSUME Init PROVE ArenaInv
  BY Zenon
<1>1. Resident = {} /\ Held = {}
  BY Zenon DEF Init, Resident, Held
<1>2. ArenaAccounting
  BY Zenon, <1>1 DEF Init, ArenaAccounting, Orders
<1>3. UntrimmedHoldNothing
  BY <1>1 DEF Init, UntrimmedHoldNothing
<1> QED
  BY <1>2, <1>3, InitType DEF ArenaInv

LEMMA ArenaInvariant == Spec => []ArenaInv
<1>1. Init => ArenaInv
  BY ArenaInvInit
<1>2. ArenaInv /\ [Next]_vars => ArenaInv'
  BY ArenaInvNext
<1> QED
  BY <1>1, <1>2, PTL DEF Spec

\* The arena's slots are accounted for in every reachable state of every
\* configuration: _LRUSlotMap gives no slot to two blocks and leaks none, however
\* requests are batched, chunked, evicted, prefetched and freed.
THEOREM ArenaCorrect == Spec => []ArenaAccounting
<1>1. ArenaInv => ArenaAccounting
  BY DEF ArenaInv
<1> QED
  BY <1>1, ArenaInvariant, PTL

\* trim_to_working_set and prefill_ingest_kvshare find nothing of the request they
\* are called for, in every configuration: _trimmed guards the only other callers.
THEOREM TrimsOnce == Spec => []UntrimmedHoldNothing
<1>1. ArenaInv => UntrimmedHoldNothing
  BY DEF ArenaInv
<1> QED
  BY <1>1, ArenaInvariant, PTL

-----------------------------------------------------------------------------
(***************************************************************************)
(* The docstring of ensure_resident as a theorem: under the orderings that *)
(* protect no key in add(), no block the step needs is evicted before it   *)
(* is gathered.  The argument is the docstring's: pass 1 lifts the needed  *)
(* blocks to the MRU end (NeededNewest), and a victim from among them      *)
(* would mean that the arena holds needed blocks only, of which there are  *)
(* at most TopK besides the one that is being reloaded.                    *)
(***************************************************************************)
LEMMA SelectNewest ==
  ASSUME ArenaInv, NEW s \in Seqs, Select(s)
  PROVE  NeededNewest'
<1> PICK S \in Selections(s, TopK) :
        LET keep == Resident \cap ({s} \X Live(s))
            ids == Resident \cap ({s} \X S)
        IN  /\ \E r \in Orders(ids) :
                 older' = MoveToEnd(Resident, keep \cup ids, (keep \X ids) \cup r)
            /\ sel' = S /\ left' = S
  BY Zenon DEF Select
<1> DEFINE keep == Resident \cap ({s} \X Live(s))
           ids == Resident \cap ({s} \X S)
<1>1. Needed' = ({s} \X S) \cup ({s} \X Live(s))
  <2>1. cur' = s /\ sel' = S /\ Live(cur)' = Live(s)
    BY Zenon DEF Select, Live, engine
  <2> QED
    BY Zenon, <2>1, NeededNext
<1>2. Resident' = Resident
  BY Zenon DEF Select, Resident
<1>3. Resident \cap Needed' = keep \cup ids
  BY Zenon, <1>1
<1>4. (Resident \ (keep \cup ids)) \X (keep \cup ids) \subseteq older'
  BY DEF MoveToEnd
<1>5. \A j \in Resident' \ Needed', k \in Resident' \cap Needed' : <<j, k>> \in older'
  <2> HIDE DEF keep, ids
  <2> QED
    BY Zenon, <1>2, <1>3, <1>4
<1>6. IsFiniteSet(S) /\ Cardinality(S) <= TopK
  <2>1. IsFiniteSet(Blocks)
    BY SizeAssumption, FS_Interval DEF Blocks
  <2>2. S \in SUBSET Blocks /\ Cardinality(S) = MinOf(TopK, full[s])
    BY DEF Selections
  <2>3. full[s] \in Nat
    BY SizeAssumption DEF ArenaInv, TypeOK, EngineType
  <2> QED
    BY <2>1, <2>2, <2>3, SizeAssumption, FS_Subset DEF MinOf
<1> QED
  BY Zenon, <1>5, <1>6 DEF NeededNewest

\* What a step of pass 2 does to the arena.
LEMMA EnsureResidentStep ==
  ASSUME ArenaInv, NeededNewest, NEW b \in Blocks, EnsureResident(b)
  PROVE  LET k == <<cur, b>> IN
         /\ k \in Key /\ k \in Needed /\ Needed' = Needed
         /\ \/ /\ k \in Resident /\ keyToSlot' = keyToSlot
               /\ older' = MoveOne(Resident, k, TRUE)
            \/ /\ k \notin Resident
               /\ \E g \in Slots, e \in Key \cup {None} :
                     AddReturns(k, ProtectedKeys(k[1]), g, e) /\ Add(k, g, e, TRUE)
<1>1. cur \in Seqs /\ b \in sel
  BY Zenon DEF EnsureResident, ArenaInv, TypeOK, PassWellFormed, NeededNewest
<1>2. <<cur, b>> \in Key /\ <<cur, b>> \in Needed
  BY Zenon, <1>1, KeyType DEF Needed
<1>3. Needed' = Needed
  BY Zenon DEF EnsureResident, Needed, Live, engine
<1>4. EnsureOne(<<cur, b>>, TRUE)
  BY Zenon DEF EnsureResident
<1> QED
  BY Zenon, <1>2, <1>3, <1>4 DEF EnsureOne, Get, Resident

LEMMA EnsureResidentNewest ==
  ASSUME ArenaInv, NeededNewest, NEW b \in Blocks, EnsureResident(b)
  PROVE  NeededNewest'
<1> DEFINE k == <<cur, b>>
<1>1. k \in Key /\ k \in Needed /\ Needed' = Needed
  BY Zenon, EnsureResidentStep
<1>2. Resident' \subseteq Resident \cup {k} /\ older' = MoveToEnd(Resident', {k}, {})
  <2>1. CASE keyToSlot' = keyToSlot /\ older' = MoveOne(Resident, k, TRUE)
    BY <2>1 DEF Resident, MoveOne
  <2>2. CASE \E g \in Slots, e \in Key \cup {None} :
                AddReturns(k, ProtectedKeys(k[1]), g, e) /\ Add(k, g, e, TRUE)
    <3> PICK g \in Slots, e \in Key \cup {None} :
                AddReturns(k, ProtectedKeys(k[1]), g, e) /\ Add(k, g, e, TRUE)
      BY Zenon, <2>2
    <3> HIDE DEF k
    <3>1. Resident' = (Resident \ {e}) \cup {k}
      BY Zenon, <1>1, AddAccounting DEF ArenaInv, TypeOK
    <3> QED
      BY Zenon, <3>1 DEF Add, MoveOne
  <2> QED
    BY Zenon, <2>1, <2>2, EnsureResidentStep
<1>3. pc = "ensure" /\ left' \subseteq left /\ sel' = sel
  BY DEF EnsureResident
<1> HIDE DEF k
<1>4. \A j \in Resident' \ Needed', m \in Resident' \cap Needed' : <<j, m>> \in older'
  BY Zenon, <1>1, <1>2, <1>3 DEF NeededNewest, MoveToEnd
<1> QED
  BY <1>3, <1>4 DEF NeededNewest

LEMMA NewestNext == ArenaInv /\ NeededNewest /\ [Next]_vars => NeededNewest'
<1> SUFFICES ASSUME ArenaInv, NeededNewest, [Next]_vars, pc' = "ensure"
             PROVE  NeededNewest'
  BY DEF NeededNewest
<1>1. \/ \E s \in Seqs : Select(s)
      \/ \E b \in Blocks : EnsureResident(b)
      \/ UNCHANGED vars
  <2>1. \A e : ~Raise(e)
    BY DEF Raise
  <2>2. ~Failure
    BY Zenon, <2>1 DEF Failure, StageRaises, EnsureOneRaises
  <2>3. ~Gc /\ ~IngestPrompt /\ ~StagePartial /\ ~OnBlockFilled /\ ~WriteLiveBlock /\ ~Attend
    BY Zenon DEF Gc, IngestPrompt, EndIngest, StagePartial, OnBlockFilled, WriteLiveBlock, EndTurn, Attend
  <2>4. \A s \in Seqs : /\ ~BeginPrefetch(s) /\ ~BeginNotify(s)
                        /\ ~AppendToken(s) /\ ~Finish(s)
                        /\ ~SkipIngest(s) /\ ~IngestToken(s)
    BY Zenon DEF BeginPrefetch, BeginNotify, AppendToken, EndTurn, Finish,
           SkipIngest, IngestToken, EndIngest
  <2>5. (\A b \in Blocks : ~PrefetchOne(b)) /\ ~EndPrefetch /\ ~Decode
    BY DEF PrefetchOne, EndPrefetch, Decode
  <2>6. ~PrefillWhole /\ ~PrefillChunk
    BY Zenon DEF PrefillWhole, PrefillChunk, Prefill
  <2> QED
    BY <2>2, <2>3, <2>4, <2>5, <2>6 DEF Next, Step
<1>2. CASE UNCHANGED vars
  <2>1. UNCHANGED <<pc, cur, sel, left, full, part, keyToSlot, older>>
    BY <1>2 DEF vars, engine, loop, arena
  <2>2. UNCHANGED <<Resident, Needed>>
    BY Zenon, <2>1 DEF Needed, Live, Resident
  <2> QED
    BY Zenon, <2>1, <2>2 DEF NeededNewest
<1> QED
  BY <1>1, <1>2, SelectNewest, EnsureResidentNewest

\* The number of blocks a step needs, besides one of the selected.
LEMMA NeededFits ==
  ASSUME ArenaInv, NeededNewest, pc = "ensure", NEW k \in Needed
  PROVE  IsFiniteSet(Needed) /\ Cardinality(Needed \ {k}) <= TopK
<1> DEFINE B == sel \cup Live(cur)
           f == [b \in B |-> <<cur, b>>]
<1>1. IsFiniteSet(sel) /\ Cardinality(sel) \in Nat /\ Cardinality(sel) <= TopK
  BY Zenon, FS_CardinalityType DEF NeededNewest
<1>2. IsFiniteSet(B) /\ Cardinality(B) \in Nat /\ Cardinality(B) <= TopK + 1
  <2>1. CASE Live(cur) = {}
    BY <1>1, <2>1, SizeAssumption
  <2>2. CASE Live(cur) = {full[cur]}
    <3>1. B = sel \cup {full[cur]}
      BY <2>2
    <3> HIDE DEF B
    <3>2. /\ IsFiniteSet(B)
          /\ Cardinality(B) = IF full[cur] \in sel THEN Cardinality(sel)
                                                   ELSE Cardinality(sel) + 1
      BY Zenon, <1>1, <3>1, FS_AddElement
    <3> QED
      BY <1>1, <3>2, SizeAssumption
  <2> QED
    BY <2>1, <2>2 DEF Live
<1>3. f \in Surjection(B, Needed)
  BY Zenon DEF Surjection, Needed
<1> HIDE DEF f, B
<1>4. IsFiniteSet(Needed) /\ Cardinality(Needed) \in Nat /\ Cardinality(Needed) <= TopK + 1
  BY <1>2, <1>3, SizeAssumption, FS_Surjection, FS_CardinalityType
<1>5. Cardinality(Needed \ {k}) = Cardinality(Needed) - 1
  BY <1>4, FS_RemoveElement
<1> QED
  BY <1>4, <1>5, SizeAssumption

\* The LRU victim of a reload is no needed block.
LEMMA VictimNotNeeded ==
  ASSUME ArenaInv, NeededNewest, pc = "ensure", NEW k \in Needed, k \notin Resident,
         freeSlots = {}
  PROVE  Victim({}) \notin Needed
<1> SUFFICES ASSUME Victim({}) \in Needed PROVE FALSE
  BY Zenon
<1>1. IsFiniteSet(Resident) /\ Cardinality(Resident) = Cap /\ Resident # {}
  BY Zenon, ResidentFinite, SlotsNonempty DEF ArenaInv, TypeOK, ArenaAccounting
<1>2. Victim({}) = Oldest(Resident)
  <2>1. Resident \ {} = Resident
    OBVIOUS
  <2> QED
    BY <2>1 DEF Victim
<1>3. older \in Orders(Resident)
  BY DEF ArenaInv, ArenaAccounting
<1> DEFINE v == Oldest(Resident)
<1>4. v \in Resident /\ \A j \in Resident \ {v} : <<v, j>> \in older
  BY <1>1, <1>3, OldestExists
<1> HIDE DEF v
<1>5. \A j \in Resident : ~(<<v, j>> \in older /\ <<j, v>> \in older)
  BY Zenon, <1>3, <1>4, OrdersDef
<1>6. v \in Needed
  BY <1>2 DEF v
<1>7. Resident \subseteq Needed \ {k}
  BY Zenon, <1>4, <1>5, <1>6 DEF NeededNewest
<1>8. Cardinality(Resident) <= Cardinality(Needed \ {k}) /\ Cardinality(Needed \ {k}) \in Nat
  BY <1>7, NeededFits, FS_Subset, FS_CardinalityType
<1>9. Cardinality(Needed \ {k}) <= TopK
  BY NeededFits
<1>10. Cardinality(Resident) \in Nat
  BY <1>1, FS_CardinalityType
<1> QED
  BY <1>1, <1>8, <1>9, <1>10, TopKAssumption, SizeAssumption DEF ArenaFits

LEMMA EnsureResidentKeeps ==
  ASSUME Ordering # "mixture", ArenaInv, NeededNewest, NEW b \in Blocks, EnsureResident(b)
  PROVE  \A j \in Needed \cap Resident : keyToSlot'[j] = keyToSlot[j]
<1> DEFINE k == <<cur, b>>
<1>1. k \in Key /\ k \in Needed /\ pc = "ensure"
  BY Zenon, EnsureResidentStep DEF EnsureResident
<1>2. ASSUME k \notin Resident, NEW g \in Slots, NEW e \in Key \cup {None},
             AddReturns(k, ProtectedKeys(k[1]), g, e), Add(k, g, e, TRUE)
      PROVE  \A j \in Needed \cap Resident : keyToSlot'[j] = keyToSlot[j]
  <2>1. ProtectedKeys(k[1]) = {}
    BY Zenon DEF ProtectedKeys
  <2> HIDE DEF k
  <2>2. e # None => freeSlots = {} /\ e = Victim({})
    BY <1>2, <2>1 DEF AddReturns
  <2>3. e # None => e \notin Needed
    BY <1>1, <1>2, <2>2, VictimNotNeeded
  <2>4. \A j \in Resident : j \in Key /\ j # None
    BY NoneAssumption DEF Resident
  <2> QED
    BY Zenon, <1>2, <2>3, <2>4 DEF Add
<1> QED
  BY Zenon, <1>2, EnsureResidentStep

LEMMA NewestInvariant == Spec => [](ArenaInv /\ NeededNewest)
<1>1. Init => ArenaInv /\ NeededNewest
  BY ArenaInvInit DEF Init, NeededNewest
<1>2. ArenaInv /\ NeededNewest /\ [Next]_vars => (ArenaInv /\ NeededNewest)'
  BY ArenaInvNext, NewestNext
<1> QED
  BY <1>1, <1>2, PTL DEF Spec

\* Pass 1 of ensure_resident (_touch_resident): all of pass 2 the needed blocks are
\* nearer the MRU end than all others, under every ordering and for every batch.
THEOREM NeededAreNewest == Spec => []NeededNewest
  BY NewestInvariant, PTL

\* ensure_resident: "no block needed this step is evicted before it is gathered",
\* for every arena that holds TopK + 1 blocks, any batch, both footprints and both
\* eviction modes, as long as add() protects no key (block_ordering is not mixture).
THEOREM NeededBlocksStay ==
  ASSUME Ordering # "mixture"
  PROVE  Spec => NeededNeverEvicted
<1> DEFINE Keeps == pc = "ensure" /\ pc' = "ensure" =>
                        \A k \in Needed \cap Resident : keyToSlot'[k] = keyToSlot[k]
<1>1. ArenaInv /\ NeededNewest /\ [Next]_vars => [Keeps]_vars
  <2> SUFFICES ASSUME ArenaInv, NeededNewest, Next, pc = "ensure", pc' = "ensure"
               PROVE  \A k \in Needed \cap Resident : keyToSlot'[k] = keyToSlot[k]
    BY Zenon
  <2>1. \E b \in Blocks : EnsureResident(b)
    <3>1. \A e : ~Raise(e)
      BY DEF Raise
    <3>2. ~Failure
      BY Zenon, <3>1 DEF Failure, StageRaises, EnsureOneRaises
    <3>3. ~Gc /\ ~IngestPrompt /\ ~StagePartial /\ ~OnBlockFilled /\ ~WriteLiveBlock /\ ~Attend
      BY Zenon DEF Gc, IngestPrompt, EndIngest, StagePartial, OnBlockFilled, WriteLiveBlock, Attend
    <3>4. \A s \in Seqs : /\ ~BeginPrefetch(s) /\ ~BeginNotify(s) /\ ~AppendToken(s)
                          /\ ~Finish(s) /\ ~Select(s) /\ ~SkipIngest(s) /\ ~IngestToken(s)
      BY Zenon DEF BeginPrefetch, BeginNotify, AppendToken, Finish, Select, SkipIngest, IngestToken
    <3>5. (\A b \in Blocks : ~PrefetchOne(b)) /\ ~EndPrefetch /\ ~Decode
      BY DEF PrefetchOne, EndPrefetch, Decode
    <3>6. ~PrefillWhole /\ ~PrefillChunk
      BY Zenon DEF PrefillWhole, PrefillChunk, Prefill
    <3> QED
      BY Zenon, <3>2, <3>3, <3>4, <3>5, <3>6 DEF Next, Step
  <2> QED
    BY Zenon, <2>1, EnsureResidentKeeps
<1> QED
  BY <1>1, NewestInvariant, PTL DEF Spec, NeededNeverEvicted
=============================================================================
