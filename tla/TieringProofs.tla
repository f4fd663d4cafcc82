---------------------------- MODULE TieringProofs ----------------------------
(***************************************************************************)
(* TieringOffloadingManager for every number of requests, slots and tiers: *)
(* pins and half-written blocks belong to jobs, and what a slot or a file  *)
(* offers is the KV of its key, across failures and restarts.              *)
(***************************************************************************)
EXTENDS TieringManagerProps, FiniteSetTheorems, TLAPS
-----------------------------------------------------------------------------
Pairs == Keys \X CpuSlots
GpuJobs == [req : Reqs, store : BOOLEAN, blocks : SUBSET Pairs]
TierJobs == [tier : Tiers, promotion : BOOLEAN, keys : SUBSET Keys, todo : SUBSET Pairs,
             tmp : SUBSET (Keys \X Keys), ok : BOOLEAN]

\* The requests and the lookup.  What the lookup has found so far can be loaded, unless
\* it is deferred.
LookUpInv ==
    /\ status \in [Reqs -> {"gone", "waiting", "loading", "running", "stored"}]
    /\ looking \in Reqs \cup {None} /\ hit \in Nat /\ deferred \in BOOLEAN
    /\ looking # None =>
        /\ phase = "schedule" /\ status[looking] = "waiting"
        /\ hit <= Len(Prompt[looking])
        /\ ~deferred => \A i \in 1 .. hit : Prompt[looking][i] \in stored
    /\ \A g \in gpuJobs : status[g.req] # "waiting"

\* The primary tier: a key that is held has a slot of its own.
PrimaryInv ==
    /\ storing \subseteq Keys /\ stored \subseteq Keys /\ storing \cap stored = {}
    /\ slotOf \in [Keys -> CpuSlots \cup {None}]
    /\ \A k \in storing \cup stored : slotOf[k] \in CpuSlots
    /\ \A k, l \in storing \cup stored : slotOf[k] = slotOf[l] => k = l

\* Blocks of keys in K, in the slots of these keys.
InPlace(B, K) == \A b \in B : b[1] \in K /\ b[2] = slotOf[b[1]]

GpuJobsInv ==
    /\ gpuJobs \subseteq GpuJobs
    /\ \A g \in gpuJobs : InPlace(g.blocks, IF g.store THEN storing ELSE stored)

PendingInv ==
    /\ pending \in [Tiers -> [Reqs -> SUBSET Pairs]]
    /\ \A t \in Tiers, r \in Reqs : InPlace(pending[t][r], storing)

\* A key that a promotion has loaded is in its slot, unless the job has failed.
Loaded(j) == \A k \in j.keys : k \in KeysOf(j.todo) \/ data[slotOf[k]] = k

JobsInv ==
    /\ jobs \subseteq TierJobs
    /\ \A j \in jobs :
        /\ InPlace(j.todo, j.keys)
        /\ \A w \in j.tmp : w[1] \in j.keys /\ w[2] = w[1]
        /\ j.promotion => j.keys \subseteq storing /\ j.tmp = {} /\ (j.ok => Loaded(j))
        /\ ~j.promotion => j.keys \subseteq stored

\* Memory and files.
MemoryInv ==
    /\ data = [s \in CpuSlots |-> data[s]]
    /\ files \in [Tiers -> [Keys -> Keys \cup {None}]]
    /\ TieredKVExact

\* Who reads a key: loads and cascades.  A key without readers is in none.
LoadsOf(k) == {g \in gpuJobs : ~g.store /\ k \in KeysOf(g.blocks)}
CascadesOf(k) == {j \in jobs : ~j.promotion /\ k \in j.keys}
UnreadInv == \A k \in Keys : readers[k] = 0 => LoadsOf(k) = {} /\ CascadesOf(k) = {}

\* Who writes a key: exactly one, if it is being written.
StoresOf(k) == {g \in gpuJobs : g.store /\ k \in KeysOf(g.blocks)}
QueuedOf(k) == {q \in Tiers \X Reqs : k \in KeysOf(pending[q[1]][q[2]])}
PromotionsOf(k) == {j \in jobs : j.promotion /\ k \in j.keys}
OneWriter(S, Q, P) ==
    \/ Q = {} /\ P = {} /\ \E x : S = {x}
    \/ S = {} /\ P = {} /\ \E x : Q = {x}
    \/ S = {} /\ Q = {} /\ \E x : P = {x}
WritersInv ==
    \A k \in Keys :
        IF k \in storing THEN OneWriter(StoresOf(k), QueuedOf(k), PromotionsOf(k))
        ELSE StoresOf(k) = {} /\ QueuedOf(k) = {} /\ PromotionsOf(k) = {}

\* The inductive invariant.
TierInv ==
    /\ LookUpInv /\ PrimaryInv /\ GpuJobsInv /\ PendingInv /\ JobsInv /\ MemoryInv
    /\ WritersInv

-----------------------------------------------------------------------------
\* The keys of a request.
LEMMA PromptKeys ==
  ASSUME NEW r \in Reqs
  PROVE  /\ Len(Prompt[r]) \in Nat
         /\ \A i \in 1 .. Len(Prompt[r]) : Prompt[r][i] \in Keys
         /\ Range(Prompt[r]) \subseteq Keys
<1>1. Prompt[r] \in Seq(Range(Prompt[r]))
  BY TieringAssumption
<1>2. Range(Prompt[r]) \subseteq Keys
  BY DEF Keys
<1> HIDE DEF Range
<1> QED
  BY <1>1, <1>2

\* What a lookup has found.
LEMMA HitsAre ==
  ASSUME LookUpInv, looking # None
  PROVE  Hits = {Prompt[looking][i] : i \in 1 .. hit} /\ Hits \subseteq Keys
<1> DEFINE p == Prompt[looking]
<1>1. looking \in Reqs /\ hit \in Nat /\ hit <= Len(p)
  BY DEF LookUpInv
<1>2. p \in Seq(Range(p)) /\ Len(p) \in Nat /\ \A i \in 1 .. Len(p) : p[i] \in Keys
  BY <1>1, TieringAssumption, PromptKeys
<1>3. SubSeq(p, 1, hit) = [i \in 1 .. hit |-> p[i]]
  BY <1>1, <1>2
<1>4. Hits = {p[i] : i \in 1 .. hit}
  BY Zenon, <1>3 DEF Hits, Range
<1> QED
  BY <1>1, <1>2, <1>4

-----------------------------------------------------------------------------
(* The engine's steps that leave blocks and jobs alone *)

\* Outside LookUpInv nothing depends on the requests and the lookup.
LEMMA Frame ==
  ASSUME TierInv, UNCHANGED <<primary, gpuJobs, pending, jobs, memory>>, LookUpInv'
  PROVE  TierInv'
<1> USE DEF primary, memory
<1>1. PrimaryInv' /\ GpuJobsInv' /\ PendingInv'
  BY DEF TierInv, PrimaryInv, GpuJobsInv, PendingInv, InPlace
<1>2. JobsInv'
  BY DEF TierInv, JobsInv, InPlace, Loaded
<1>3. MemoryInv'
  BY DEF TierInv, MemoryInv, TieredKVExact
<1>4. \A k : /\ StoresOf(k)' = StoresOf(k) /\ QueuedOf(k)' = QueuedOf(k)
             /\ PromotionsOf(k)' = PromotionsOf(k)
  BY DEF StoresOf, QueuedOf, PromotionsOf
<1>5. WritersInv'
  BY <1>4 DEF TierInv, WritersInv
<1> QED
  BY <1>1, <1>2, <1>3, <1>5 DEF TierInv

LEMMA EngineSteps ==
  ASSUME TierInv, BeginStep \/ EndSchedule \/ EndStores
  PROVE  TierInv'
<1>1. UNCHANGED <<primary, gpuJobs, pending, jobs, memory>>
  BY DEF BeginStep, EndSchedule, EndStores, tiering
<1>2. LookUpInv'
  <2>1. LookUpInv
    BY DEF TierInv
  <2>2. UNCHANGED <<status, looking, hit, deferred, stored, gpuJobs>>
    BY DEF BeginStep, EndSchedule, EndStores, lookup, primary
  <2>3. looking = None
    BY <2>1 DEF LookUpInv, BeginStep, EndSchedule, EndStores
  <2> QED
    BY <2>1, <2>2, <2>3 DEF LookUpInv
<1> QED
  BY <1>1, <1>2, Frame

LEMMA RequestSteps ==
  ASSUME TierInv, NEW r \in Reqs, LookUp(r) \/ Arrive(r) \/ Finish(r)
  PROVE  TierInv'
<1>1. UNCHANGED <<primary, gpuJobs, pending, jobs, memory>>
  BY DEF LookUp, Arrive, Finish, tiering
<1>2. LookUpInv'
  <2>1. LookUpInv
    BY DEF TierInv
  <2>2. CASE LookUp(r)
    <3>1. /\ phase = "schedule" /\ status[r] = "waiting" /\ looking' = r /\ hit' = 0
          /\ deferred' = FALSE /\ UNCHANGED <<phase, status, stored, gpuJobs>>
      BY <2>2 DEF LookUp, primary
    <3>2. 0 <= Len(Prompt[r])
      BY PromptKeys
    <3>3. \A i \in 1 .. hit' : FALSE
      BY <3>1
    <3>4. hit' \in Nat /\ hit' <= Len(Prompt[r])
      BY <3>1, <3>2
    <3> QED
      BY Zenon, <2>1, <3>1, <3>3, <3>4 DEF LookUpInv
  <2>3. CASE Arrive(r)
    BY <2>1, <2>3 DEF LookUpInv, Arrive, lookup
  <2>4. CASE Finish(r)
    BY <2>1, <2>4 DEF LookUpInv, Finish, lookup
  <2> QED
    BY <2>2, <2>3, <2>4
<1> QED
  BY <1>1, <1>2, Frame

LEMMA LookUpPrimaryStep ==
  ASSUME TierInv, LookUpPrimary
  PROVE  TierInv'
<1>1. UNCHANGED <<primary, gpuJobs, pending, jobs, memory>>
  BY DEF LookUpPrimary, tiering
<1>2. LookUpInv'
  <2>1. LookUpInv /\ storing \cap stored = {}
    BY DEF TierInv, PrimaryInv
  <2>2. looking \in Reqs /\ looking # None /\ hit \in Nat /\ hit < Len(Prompt[looking])
    BY <2>1 DEF LookUpInv, LookUpPrimary, HasNext
  <2>3. Len(Prompt[looking]) \in Nat
    BY <2>2, PromptKeys
  <2>4. /\ hit' = hit + 1
        /\ deferred' = (deferred \/ Prompt[looking][hit + 1] \in storing)
        /\ Prompt[looking][hit + 1] \in storing \cup stored
        /\ UNCHANGED <<phase, status, looking, stored, gpuJobs>>
    BY DEF LookUpPrimary, NextKey, engine, primary
  <2>5. ~deferred' => \A i \in 1 .. hit' : Prompt[looking][i] \in stored
    <3> SUFFICES ASSUME ~deferred', NEW i \in 1 .. hit'
                 PROVE  Prompt[looking][i] \in stored
      OBVIOUS
    <3>1. ~deferred /\ Prompt[looking][hit + 1] \in stored
      BY Zenon, <2>4
    <3>2. i \in 1 .. hit \/ i = hit + 1
      BY <2>2, <2>4
    <3> QED
      BY <2>1, <2>2, <3>1, <3>2 DEF LookUpInv
  <2> QED
    BY <2>1, <2>2, <2>3, <2>4, <2>5 DEF LookUpInv
<1> QED
  BY <1>1, <1>2, Frame

-----------------------------------------------------------------------------
(* The threads of a tier *)

\* A job that goes on keeps its keys, so writers stay what they are.
LEMMA GoesOn ==
  ASSUME TierInv, NEW j \in jobs, NEW i \in TierJobs, Becomes(j, i),
         i.promotion = j.promotion, i.keys = j.keys, UNCHANGED <<primary, gpuJobs, pending>>
  PROVE  WritersInv' /\ jobs' \subseteq TierJobs
<1>1. jobs' = (jobs \ {j}) \cup {i}
  BY DEF Becomes
<1>2. jobs' \subseteq TierJobs
  BY <1>1 DEF TierInv, JobsInv
<1>3. WritersInv'
  <2> SUFFICES ASSUME NEW k \in Keys
               PROVE  IF k \in storing
                      THEN OneWriter(StoresOf(k), QueuedOf(k), PromotionsOf(k)')
                      ELSE StoresOf(k) = {} /\ QueuedOf(k) = {} /\ PromotionsOf(k)' = {}
    BY Zenon DEF WritersInv, OneWriter, StoresOf, QueuedOf, primary
  <2>1. CASE j \in PromotionsOf(k)
    <3>1. /\ k \in storing /\ StoresOf(k) = {} /\ QueuedOf(k) = {}
          /\ PromotionsOf(k) = {j}
      BY <2>1 DEF TierInv, WritersInv, OneWriter
    <3>2. PromotionsOf(k)' = {i}
      BY <1>1, <2>1, <3>1 DEF PromotionsOf
    <3> QED
      BY <3>1, <3>2 DEF OneWriter
  <2>2. CASE j \notin PromotionsOf(k)
    <3>1. PromotionsOf(k)' = PromotionsOf(k)
      BY <1>1, <2>2 DEF PromotionsOf
    <3> QED
      BY <3>1 DEF TierInv, WritersInv
  <2> QED
    BY <2>1, <2>2
<1> QED
  BY <1>2, <1>3

\* What a step of a thread has to show of its job and of the memory.
LEMMA ThreadFrame ==
  ASSUME TierInv, UNCHANGED <<engine, lookup, primary, gpuJobs, pending>>,
         JobsInv', MemoryInv', WritersInv'
  PROVE  TierInv'
<1> USE DEF engine, lookup, primary
<1>1. LookUpInv'
  BY DEF TierInv, LookUpInv
<1>2. PrimaryInv' /\ GpuJobsInv' /\ PendingInv'
  BY DEF TierInv, PrimaryInv, GpuJobsInv, PendingInv, InPlace
<1> QED
  BY <1>1, <1>2 DEF TierInv

LEMMA StoreBlockStep ==
  ASSUME TierInv, NEW j \in jobs, NEW b, StoreBlock(j, b),
         UNCHANGED <<engine, lookup, primary, gpuJobs, pending>>
  PROVE  TierInv'
<1> USE DEF primary, memory
<1> DEFINE t == IF files[j.tier][b[1]] # None THEN j.tmp ELSE j.tmp \cup {<<b[1], data[b[2]]>>}
           i == [j EXCEPT !.todo = @ \ {b}, !.tmp = t]
<1>1. Becomes(j, i) /\ ~j.promotion /\ b \in j.todo /\ UNCHANGED memory
  BY DEF StoreBlock
<1>2. j \in TierJobs /\ JobsInv
  BY DEF TierInv, JobsInv
<1>3. b[1] \in j.keys /\ b[2] = slotOf[b[1]] /\ j.keys \subseteq stored /\ j.keys \subseteq Keys
  BY <1>1, <1>2 DEF JobsInv, InPlace, TierJobs
<1>4. data[b[2]] = b[1]
  BY Zenon, <1>3 DEF TierInv, MemoryInv, TieredKVExact
<1>5. \A w \in t : w \in Keys \X Keys /\ w[1] \in j.keys /\ w[2] = w[1]
  <2>1. \A w \in j.tmp : w \in Keys \X Keys /\ w[1] \in j.keys /\ w[2] = w[1]
    BY <1>2 DEF JobsInv, TierJobs
  <2> QED
    BY <1>3, <1>4, <2>1
<1> HIDE DEF t
<1>6. /\ i \in TierJobs /\ i.tier = j.tier /\ i.promotion = j.promotion /\ i.keys = j.keys
      /\ i.todo = j.todo \ {b} /\ i.tmp = t
  BY Zenon, <1>2, <1>5 DEF TierJobs
<1> HIDE DEF i
<1>7. WritersInv' /\ jobs' \subseteq TierJobs
  BY <1>1, <1>6, GoesOn
<1>8. JobsInv'
  <2>1. jobs' = (jobs \ {j}) \cup {i}
    BY <1>1 DEF Becomes
  <2>2. InPlace(i.todo, i.keys)
    BY <1>2, <1>6 DEF JobsInv, InPlace
  <2> QED
    BY <1>1, <1>2, <1>3, <1>5, <1>6, <1>7, <2>1, <2>2 DEF JobsInv, InPlace, Loaded
<1>9. MemoryInv'
  BY <1>1 DEF TierInv, MemoryInv, TieredKVExact
<1> QED
  BY <1>7, <1>8, <1>9, ThreadFrame

LEMMA StoreEndsStep ==
  ASSUME TierInv, NEW j \in jobs, NEW w, StoreEnds(j, w),
         UNCHANGED <<engine, lookup, primary, gpuJobs, pending>>
  PROVE  TierInv'
<1> USE DEF primary
<1> DEFINE i == [j EXCEPT !.tmp = @ \ {w}]
<1>1. /\ Becomes(j, i) /\ w \in j.tmp /\ data' = data
      /\ files' = files \/ files' = [files EXCEPT ![j.tier][w[1]] = w[2]]
  BY DEF StoreEnds
<1>2. j \in TierJobs /\ JobsInv
  BY DEF TierInv, JobsInv
<1>3. w[1] \in Keys /\ w[2] = w[1] /\ j.tier \in Tiers
  BY <1>1, <1>2 DEF JobsInv, TierJobs
<1>4. /\ i \in TierJobs /\ i.tier = j.tier /\ i.promotion = j.promotion /\ i.keys = j.keys
      /\ i.todo = j.todo /\ i.tmp = j.tmp \ {w} /\ i.ok = j.ok
  BY <1>2 DEF TierJobs
<1> HIDE DEF i
<1>5. WritersInv' /\ jobs' \subseteq TierJobs
  BY <1>1, <1>4, GoesOn
<1>6. JobsInv'
  <2>1. jobs' = (jobs \ {j}) \cup {i}
    BY <1>1 DEF Becomes
  <2>2. Loaded(j) => Loaded(i)
    BY <1>4 DEF Loaded
  <2> QED
    BY <1>1, <1>2, <1>4, <1>5, <2>1, <2>2 DEF JobsInv, InPlace, Loaded
<1>7. MemoryInv'
  <2>1. MemoryInv /\ files \in [Tiers -> [Keys -> Keys \cup {None}]]
    BY DEF TierInv, MemoryInv
  <2>2. /\ files' \in [Tiers -> [Keys -> Keys \cup {None}]]
        /\ \A t \in Tiers, k \in Keys : files'[t][k] = files[t][k] \/ files'[t][k] = k
    BY <1>1, <1>3, <2>1
  <2>3. \A t \in Tiers, k \in Keys : files'[t][k] \in {None, k}
    BY <2>1, <2>2 DEF MemoryInv, TieredKVExact
  <2> QED
    BY Zenon, <1>1, <2>1, <2>2, <2>3 DEF MemoryInv, TieredKVExact
<1> QED
  BY <1>5, <1>6, <1>7, ThreadFrame

\* A promotion writes the slot of a key that nobody can read yet.
LEMMA LoadBlockStep ==
  ASSUME TierInv, NEW j \in jobs, NEW b, LoadBlock(j, b),
         UNCHANGED <<engine, lookup, primary, gpuJobs, pending>>
  PROVE  TierInv'
<1> USE DEF primary
<1>1. PICK success \in BOOLEAN :
        /\ success => files[j.tier][b[1]] # None
        /\ data' = [data EXCEPT ![b[2]] = IF success THEN files[j.tier][b[1]] ELSE Junk]
        /\ files' = IF success THEN files ELSE [files EXCEPT ![j.tier][b[1]] = None]
        /\ Becomes(j, [j EXCEPT !.todo = @ \ {b}, !.ok = @ /\ success])
  BY Zenon DEF LoadBlock
<1> DEFINE i == [j EXCEPT !.todo = @ \ {b}, !.ok = @ /\ success]
<1>2. j \in TierJobs /\ JobsInv /\ PrimaryInv /\ j.promotion /\ b \in j.todo
  BY DEF TierInv, JobsInv, LoadBlock
<1>3. /\ b[1] \in j.keys /\ b[2] = slotOf[b[1]] /\ b[1] \in storing /\ b[1] \in Keys
      /\ b[2] \in CpuSlots /\ j.tier \in Tiers
  BY <1>2 DEF JobsInv, PrimaryInv, InPlace, TierJobs
<1>4. /\ i \in TierJobs /\ i.tier = j.tier /\ i.promotion = j.promotion /\ i.keys = j.keys
      /\ i.todo = j.todo \ {b} /\ i.tmp = j.tmp /\ i.ok = (j.ok /\ success)
  BY Zenon, <1>2 DEF TierJobs
<1>5. jobs' = (jobs \ {j}) \cup {i}
  BY <1>1 DEF Becomes
<1> HIDE DEF i
<1>6. WritersInv' /\ jobs' \subseteq TierJobs
  <2>1. Becomes(j, i)
    BY <1>1 DEF i
  <2> QED
    BY <1>4, <2>1, GoesOn
<1>7. data = [s \in CpuSlots |-> data[s]] /\ files \in [Tiers -> [Keys -> Keys \cup {None}]]
  BY DEF TierInv, MemoryInv
<1>8. success => data'[b[2]] = b[1]
  BY <1>1, <1>3, <1>7 DEF TierInv, MemoryInv, TieredKVExact
<1>9. \A k \in storing \cup stored : k # b[1] => data'[slotOf[k]] = data[slotOf[k]]
  BY <1>1, <1>2, <1>3, <1>7 DEF PrimaryInv
<1>10. JobsInv'
  <2>1. ASSUME i.ok PROVE Loaded(i)'
    <3> SUFFICES ASSUME NEW k \in i.keys, k \notin KeysOf(i.todo)
                 PROVE  data'[slotOf[k]] = k
      BY DEF Loaded
    <3>1. success /\ j.ok /\ k \in storing
      BY Zenon, <1>2, <1>4, <2>1 DEF JobsInv
    <3>2. CASE k = b[1]
      BY <1>3, <1>8, <3>1, <3>2
    <3>3. CASE k # b[1]
      <4>1. k \notin KeysOf(j.todo)
        BY <1>4, <3>3 DEF KeysOf
      <4>2. data[slotOf[k]] = k
        BY <1>2, <1>4, <3>1, <4>1 DEF JobsInv, Loaded
      <4> QED
        BY <1>9, <3>1, <3>3, <4>2
    <3> QED
      BY <3>2, <3>3
  <2>2. ASSUME NEW x \in jobs \ {j}, x.promotion, x.ok PROVE Loaded(x)'
    <3> SUFFICES ASSUME NEW k \in x.keys, k \notin KeysOf(x.todo)
                 PROVE  data'[slotOf[k]] = k
      BY DEF Loaded
    <3>1. k \in storing /\ data[slotOf[k]] = k
      BY <1>2, <2>2 DEF JobsInv, Loaded
    <3>2. k # b[1]
      <4>1. SUFFICES ASSUME k = b[1] PROVE FALSE
        OBVIOUS
      <4>2. x \in PromotionsOf(k) /\ j \in PromotionsOf(k)
        BY <1>2, <1>3, <2>2, <4>1 DEF PromotionsOf
      <4>3. k \in Keys /\ k \in storing
        BY <1>3, <4>1
      <4> QED
        BY <4>2, <4>3 DEF TierInv, WritersInv, OneWriter
    <3> QED
      BY <1>9, <3>1, <3>2
  <2>3. InPlace(i.todo, i.keys)'
    BY <1>2, <1>4 DEF JobsInv, InPlace
  <2>4. \A x \in jobs \ {j} : /\ InPlace(x.todo, x.keys)'
                              /\ \A w \in x.tmp : w[1] \in x.keys /\ w[2] = w[1]
                              /\ x.promotion => x.keys \subseteq storing' /\ x.tmp = {}
                              /\ ~x.promotion => x.keys \subseteq stored'
    BY <1>2 DEF JobsInv, InPlace
  <2>5. i.keys \subseteq storing' /\ i.tmp = {} /\ i.promotion
    BY <1>2, <1>4 DEF JobsInv
  <2>6. \A x \in jobs' : x = i \/ x \in jobs \ {j}
    BY <1>5
  <2> QED
    BY <1>6, <2>1, <2>2, <2>3, <2>4, <2>5, <2>6 DEF JobsInv
<1>11. MemoryInv'
  <2>1. data' = [s \in CpuSlots |-> data'[s]]
    BY Zenon, <1>1, <1>7
  <2>2. files' \in [Tiers -> [Keys -> Keys \cup {None}]]
    BY <1>1, <1>3, <1>7
  <2>3. \A t \in Tiers, k \in Keys : files'[t][k] \in {None, k}
    BY <1>1, <1>3, <1>7 DEF TierInv, MemoryInv, TieredKVExact
  <2>4. \A k \in stored : data'[slotOf[k]] = k
    BY <1>2, <1>3, <1>9 DEF PrimaryInv, TierInv, MemoryInv, TieredKVExact
  <2>5. \A g \in gpuJobs : ~g.store => \A x \in g.blocks : data'[x[2]] = x[1]
    BY <2>4 DEF TierInv, GpuJobsInv, InPlace
  <2> QED
    BY <2>1, <2>2, <2>3, <2>4, <2>5 DEF MemoryInv, TieredKVExact
<1> QED
  BY <1>6, <1>10, <1>11, ThreadFrame

LEMMA ThreadsStep ==
  ASSUME TierInv, NEW t \in Tiers, NEW promotion \in BOOLEAN, NEW k \in Keys,
         Threads(t, promotion, k)
  PROVE  TierInv'
<1>1. PICK j \in jobs : (\E b : StoreBlock(j, b) \/ LoadBlock(j, b)) \/ (\E w : StoreEnds(j, w))
  BY DEF Threads
<1>2. UNCHANGED <<engine, lookup, primary, gpuJobs, pending>>
  BY DEF Threads
<1> QED
  BY <1>1, <1>2, StoreBlockStep, LoadBlockStep, StoreEndsStep

-----------------------------------------------------------------------------
(* Finished jobs *)

\* A key has one writer.
LEMMA WritersDisjoint ==
  ASSUME TierInv, NEW k \in Keys
  PROVE  /\ \A i, j \in PromotionsOf(k) : i = j
         /\ PromotionsOf(k) # {} => k \in storing /\ StoresOf(k) = {} /\ QueuedOf(k) = {}
         /\ StoresOf(k) # {} => k \in storing /\ PromotionsOf(k) = {} /\ QueuedOf(k) = {}
         /\ QueuedOf(k) # {} => k \in storing /\ PromotionsOf(k) = {} /\ StoresOf(k) = {}
         /\ \A g, h \in StoresOf(k) : g = h
  BY DEF TierInv, WritersInv, OneWriter

LEMMA PollStep ==
  ASSUME TierInv, Poll
  PROVE  TierInv'
<1> DEFINE done == {j \in jobs : Finished(j)}
           P == Promoted(done)
           G == GivenUp(done)
<1>1. /\ looking = None /\ storing' = storing \ (P \cup G) /\ stored' = stored \cup P
      /\ slotOf' = [k \in Keys |-> IF k \in G THEN None ELSE slotOf[k]]
      /\ jobs' = jobs \ done
      /\ UNCHANGED <<phase, status, looking, hit, deferred, gpuJobs, pending, data, files>>
  BY DEF Poll, engine, lookup, memory
<1>2. /\ \A k \in P : \E j \in done : j.promotion /\ j.ok /\ k \in j.keys
      /\ \A k \in G : \E j \in done : j.promotion /\ ~j.ok /\ k \in j.keys
      /\ \A j \in done : j.promotion => j.keys \subseteq P \cup G
  BY DEF Promoted, GivenUp
<1>3. done \subseteq jobs /\ \A j \in done : j.todo = {} /\ j.tmp = {}
  BY DEF Finished
<1> HIDE DEF done, P, G
<1> USE <1>1
<1>4. LookUpInv /\ PrimaryInv /\ GpuJobsInv /\ PendingInv /\ JobsInv /\ MemoryInv
  BY DEF TierInv
<1>5. \A k \in P \cup G : /\ k \in storing /\ k \in Keys
                          /\ \E j \in done : j \in PromotionsOf(k)
  BY <1>2, <1>3, <1>4 DEF JobsInv, TierJobs, PromotionsOf
<1>6. \A k \in P \cup G : StoresOf(k) = {} /\ QueuedOf(k) = {} /\ PromotionsOf(k) \subseteq done
  <2> SUFFICES ASSUME NEW k \in P \cup G
               PROVE  StoresOf(k) = {} /\ QueuedOf(k) = {} /\ PromotionsOf(k) \subseteq done
    OBVIOUS
  <2>1. PICK j \in done : j \in PromotionsOf(k)
    BY <1>5
  <2> QED
    BY <1>5, <2>1, WritersDisjoint
<1>7. P \cap G = {}
  <2> SUFFICES ASSUME NEW k \in P, k \in G PROVE FALSE
    OBVIOUS
  <2>1. PICK i \in done : i.promotion /\ i.ok /\ k \in i.keys
    BY <1>2
  <2>2. PICK j \in done : j.promotion /\ ~j.ok /\ k \in j.keys
    BY <1>2
  <2>3. i \in PromotionsOf(k) /\ j \in PromotionsOf(k)
    BY <1>3, <2>1, <2>2 DEF PromotionsOf
  <2> QED
    BY <1>5, <2>1, <2>2, <2>3, WritersDisjoint
<1>8. \A k \in storing' \cup stored' : slotOf'[k] = slotOf[k] /\ k \in storing \cup stored
  BY <1>4, <1>5, <1>7 DEF PrimaryInv
<1>9. PrimaryInv'
  <2>1. storing' \subseteq Keys /\ stored' \subseteq Keys /\ storing' \cap stored' = {}
    BY <1>4, <1>5 DEF PrimaryInv
  <2>2. slotOf' \in [Keys -> CpuSlots \cup {None}]
    BY <1>4 DEF PrimaryInv
  <2>4. \A k \in storing' \cup stored' : slotOf'[k] \in CpuSlots
    BY <1>4, <1>8 DEF PrimaryInv
  <2>5. \A k, l \in storing' \cup stored' : slotOf'[k] = slotOf'[l] => k = l
    <3> HIDE <1>1
    <3> QED
      BY <1>4, <1>8 DEF PrimaryInv
  <2> HIDE <1>1
  <2> QED
    BY <2>1, <2>2, <2>4, <2>5 DEF PrimaryInv
<1>10. GpuJobsInv'
  <2> SUFFICES ASSUME NEW g \in gpuJobs, NEW b \in g.blocks
               PROVE  /\ b[1] \in IF g.store THEN storing' ELSE stored'
                      /\ b[2] = slotOf'[b[1]]
    BY <1>4 DEF GpuJobsInv, InPlace
  <2>1. b[1] \in (IF g.store THEN storing ELSE stored) /\ b[2] = slotOf[b[1]]
    BY <1>4 DEF GpuJobsInv, InPlace
  <2>2. CASE g.store
    <3>1. g \in StoresOf(b[1])
      BY <2>2 DEF StoresOf, KeysOf
    <3> QED
      BY <1>6, <1>8, <2>1, <2>2, <3>1
  <2>3. CASE ~g.store
    BY <1>8, <2>1, <2>3
  <2> QED
    BY <2>2, <2>3
<1>11. PendingInv'
  <2> SUFFICES ASSUME NEW t \in Tiers, NEW r \in Reqs, NEW b \in pending[t][r]
               PROVE  b[1] \in storing' /\ b[2] = slotOf'[b[1]]
    BY <1>4 DEF PendingInv, InPlace
  <2>1. b[1] \in storing /\ b[2] = slotOf[b[1]]
    BY <1>4 DEF PendingInv, InPlace
  <2>2. <<t, r>> \in QueuedOf(b[1])
    BY DEF QueuedOf, KeysOf
  <2> QED
    BY <1>6, <1>8, <2>1, <2>2
<1>12. JobsInv'
  <2>1. jobs' \subseteq TierJobs
    BY <1>4 DEF JobsInv
  <2>2. ASSUME NEW j \in jobs'
        PROVE  /\ \A k \in j.keys : slotOf'[k] = slotOf[k]
               /\ j.promotion => j.keys \subseteq storing'
               /\ ~j.promotion => j.keys \subseteq stored'
    <3>1. j \in jobs /\ j \notin done /\ j.keys \subseteq Keys
      BY <1>4 DEF JobsInv, TierJobs
    <3>2. CASE j.promotion
      <4>1. \A k \in j.keys : k \in storing /\ k \notin P \cup G
        BY <1>4, <1>6, <3>1, <3>2 DEF JobsInv, PromotionsOf
      <4> QED
        BY <1>8, <3>2, <4>1
    <3>3. CASE ~j.promotion
      BY <1>4, <1>8, <3>1, <3>3 DEF JobsInv
    <3> QED
      BY <3>2, <3>3
  <2>3. ASSUME NEW j \in jobs'
        PROVE  InPlace(j.todo, j.keys)' /\ (Loaded(j) => Loaded(j)')
    BY <1>4, <2>2 DEF JobsInv, InPlace, Loaded
  <2> QED
    BY <1>4, <2>1, <2>2, <2>3 DEF JobsInv
<1>13. MemoryInv'
  <2>1. ASSUME NEW k \in P PROVE data[slotOf[k]] = k
    <3>1. PICK j \in done : j.promotion /\ j.ok /\ k \in j.keys
      BY <1>2
    <3>2. Loaded(j) /\ KeysOf(j.todo) = {}
      BY <1>3, <1>4, <3>1 DEF JobsInv, KeysOf
    <3> QED
      BY <3>1, <3>2 DEF Loaded
  <2>2. \A k \in stored' : data[slotOf'[k]] = k
    BY Zenon, <1>4, <1>8, <2>1 DEF MemoryInv, TieredKVExact
  <2> QED
    BY <1>4, <2>2 DEF MemoryInv, TieredKVExact
<1>14. \A k : /\ StoresOf(k)' = StoresOf(k) /\ QueuedOf(k)' = QueuedOf(k)
              /\ PromotionsOf(k)' = PromotionsOf(k) \ done
  BY DEF StoresOf, QueuedOf, PromotionsOf
<1>16. WritersInv'
  <2> SUFFICES ASSUME NEW k \in Keys
               PROVE  IF k \in storing'
                      THEN OneWriter(StoresOf(k), QueuedOf(k), PromotionsOf(k) \ done)
                      ELSE /\ StoresOf(k) = {} /\ QueuedOf(k) = {}
                           /\ PromotionsOf(k) \ done = {}
    BY <1>14 DEF WritersInv
  <2>1. CASE k \in storing'
    <3>1. k \in storing /\ k \notin P \cup G
      BY <2>1
    <3>2. PromotionsOf(k) \ done = PromotionsOf(k)
      BY <1>2, <3>1 DEF PromotionsOf
    <3> QED
      BY Zenon, <2>1, <3>1, <3>2 DEF TierInv, WritersInv
  <2>2. CASE k \notin storing'
    <3>1. CASE k \in P \cup G
      BY <1>6, <2>2, <3>1
    <3>2. CASE k \notin P \cup G
      BY <2>2, <3>2 DEF TierInv, WritersInv
    <3> QED
      BY <3>1, <3>2
  <2> QED
    BY <2>1, <2>2
<1>17. LookUpInv'
  BY <1>4 DEF LookUpInv
<1> QED
  BY <1>9, <1>10, <1>11, <1>12, <1>13, <1>16, <1>17 DEF TierInv

-----------------------------------------------------------------------------
(* Start and restart *)

\* No request, no job, nothing cached: only files.
Fresh ==
    /\ status = [r \in Reqs |-> "gone"] /\ looking = None /\ hit = 0 /\ deferred = FALSE
    /\ storing = {} /\ stored = {} /\ slotOf = [k \in Keys |-> None]
    /\ gpuJobs = {} /\ jobs = {}
    /\ pending = [t \in Tiers |-> [r \in Reqs |-> {}]]
    /\ data = [s \in CpuSlots |-> Junk]
    /\ files \in [Tiers -> [Keys -> Keys \cup {None}]]
    /\ \A t \in Tiers, k \in Keys : files[t][k] \in {None, k}

LEMMA FreshInv == Fresh => TierInv
<1> SUFFICES ASSUME Fresh PROVE TierInv
  OBVIOUS
<1>1. LookUpInv
  BY Zenon DEF Fresh, LookUpInv
<1>2. PrimaryInv
  BY DEF Fresh, PrimaryInv
<1>3. GpuJobsInv /\ JobsInv
  BY DEF Fresh, GpuJobsInv, JobsInv
<1>4. PendingInv
  BY DEF Fresh, PendingInv, InPlace
<1>5. MemoryInv
  BY DEF Fresh, MemoryInv, TieredKVExact
<1>6. WritersInv
  <2>1. \A k : StoresOf(k) = {} /\ QueuedOf(k) = {} /\ PromotionsOf(k) = {}
    BY DEF Fresh, StoresOf, QueuedOf, PromotionsOf, KeysOf
  <2> QED
    BY <2>1 DEF Fresh, WritersInv
<1> QED
  BY <1>1, <1>2, <1>3, <1>4, <1>5, <1>6 DEF TierInv

LEMMA InitStep == Init => TierInv
<1>1. Init => Fresh
  BY DEF Init, Fresh, Cache!Init
<1> QED
  BY <1>1, FreshInv

LEMMA RestartStep == TierInv /\ Restart => TierInv'
<1>1. TierInv /\ Restart => Fresh'
  <2> SUFFICES ASSUME TierInv, Restart PROVE Fresh'
    OBVIOUS
  <2>1. /\ files \in [Tiers -> [Keys -> Keys \cup {None}]] /\ files' = files
        /\ \A t \in Tiers, k \in Keys : files[t][k] \in {None, k}
    BY DEF TierInv, MemoryInv, TieredKVExact, Restart
  <2> QED
    BY <2>1 DEF Restart, Fresh, Cache!Reset
<1>2. Fresh' => TierInv'
  BY FreshInv, PTL
<1> QED
  BY <1>1, <1>2

-----------------------------------------------------------------------------
(* Loads *)

\* What stays as it is when only a load begins or ends.
LEMMA LoadFrame ==
  ASSUME TierInv, UNCHANGED <<storing, stored, slotOf, pending, jobs, memory>>,
         gpuJobs' \subseteq GpuJobs,
         \A g \in gpuJobs' \ gpuJobs : ~g.store /\ InPlace(g.blocks, stored),
         \A g \in gpuJobs \ gpuJobs' : ~g.store,
         LookUpInv'
  PROVE  TierInv'
<1> USE DEF memory
<1>1. PrimaryInv' /\ PendingInv'
  BY DEF TierInv, PrimaryInv, PendingInv, InPlace
<1>2. GpuJobsInv'
  BY DEF TierInv, GpuJobsInv, InPlace
<1>3. JobsInv'
  BY DEF TierInv, JobsInv, InPlace, Loaded
<1>4. MemoryInv'
  <2>1. ASSUME NEW g \in gpuJobs', ~g.store, NEW b \in g.blocks PROVE data[b[2]] = b[1]
    BY Zenon, <2>1 DEF TierInv, GpuJobsInv, MemoryInv, TieredKVExact, InPlace
  <2> QED
    BY <2>1 DEF TierInv, MemoryInv, TieredKVExact
<1>5. \A k : /\ StoresOf(k)' = StoresOf(k) /\ QueuedOf(k)' = QueuedOf(k)
             /\ PromotionsOf(k)' = PromotionsOf(k)
  BY DEF StoresOf, QueuedOf, PromotionsOf
<1>7. WritersInv'
  BY <1>5 DEF TierInv, WritersInv
<1> QED
  BY Zenon, <1>1, <1>2, <1>3, <1>4, <1>7 DEF TierInv

LEMMA CompleteLoadStep ==
  ASSUME TierInv, NEW g \in gpuJobs, CompleteLoad(g)
  PROVE  TierInv'
<1>1. /\ ~g.store /\ gpuJobs' = gpuJobs \ {g} /\ phase = "update"
      /\ status' = IF status[g.req] = "loading" THEN [status EXCEPT ![g.req] = "running"]
                   ELSE status
      /\ UNCHANGED <<phase, looking, hit, deferred, storing, stored, slotOf, pending, jobs, memory>>
  BY DEF CompleteLoad, lookup, tiering
<1>2. gpuJobs \subseteq GpuJobs
  BY DEF TierInv, GpuJobsInv
<1>3. LookUpInv'
  <2>1. LookUpInv /\ looking = None
    BY <1>1 DEF TierInv, LookUpInv
  <2>2. g.req \in Reqs
    BY <1>2 DEF GpuJobs
  <2> QED
    BY <1>1, <2>1, <2>2 DEF LookUpInv
<1> QED
  BY <1>1, <1>2, <1>3, LoadFrame

LEMMA BlocksAre ==
  ASSUME NEW K, NEW slots
  PROVE  /\ KeysOf(Blocks(K, slots)) = K
         /\ \A b \in Blocks(K, slots) : b[1] \in K /\ b[2] = slots[b[1]]
         /\ \A k \in K : <<k, slots[k]>> \in Blocks(K, slots)
<1>1. \A b \in Blocks(K, slots) : b[1] \in K /\ b[2] = slots[b[1]]
  BY DEF Blocks
<1>2. \A k \in K : <<k, slots[k]>> \in Blocks(K, slots) /\ <<k, slots[k]>>[1] = k
  BY DEF Blocks
<1>3. KeysOf(Blocks(K, slots)) \subseteq K
  BY <1>1 DEF KeysOf
<1>4. K \subseteq KeysOf(Blocks(K, slots))
  BY <1>2, Zenon DEF KeysOf
<1> QED
  BY <1>1, <1>2, <1>3, <1>4

LEMMA EndLookUpStep ==
  ASSUME TierInv, EndLookUp
  PROVE  TierInv'
<1>1. /\ looking # None /\ looking' = None /\ hit' = 0 /\ deferred' = FALSE
      /\ UNCHANGED <<phase, storing, stored, slotOf, pending, jobs, memory>>
  BY DEF EndLookUp, tiering
<1>2. LookUpInv /\ looking \in Reqs /\ status[looking] = "waiting"
  BY <1>1 DEF TierInv, LookUpInv
<1>3. CASE deferred \/ hit = 0
  <2>1. /\ UNCHANGED <<readers, gpuJobs>>
        /\ status' = status \/ status' = [status EXCEPT ![looking] = "running"]
    BY Zenon, <1>3 DEF EndLookUp
  <2>2. LookUpInv'
    <3>1. \A h \in gpuJobs : h.req \in Reqs
      BY DEF TierInv, GpuJobsInv, GpuJobs
    <3>2. status' \in [Reqs -> {"gone", "waiting", "loading", "running", "stored"}]
      BY <1>2, <2>1 DEF LookUpInv
    <3>3. \A r \in Reqs : status'[r] = status[r] \/ status'[r] = "running"
      BY <1>2, <2>1 DEF LookUpInv
    <3> QED
      BY Zenon, <1>1, <1>2, <2>1, <3>1, <3>2, <3>3 DEF LookUpInv
  <2>3. UNCHANGED <<primary, gpuJobs, pending, jobs, memory>>
    BY <1>1, <2>1 DEF primary
  <2> QED
    BY <2>2, <2>3, Frame
<1>4. CASE ~deferred /\ hit # 0
  <2> DEFINE g == GpuJob(looking, FALSE, Blocks(Hits, slotOf))
  <2>1. /\ status' = [status EXCEPT ![looking] = "loading"]
        /\ gpuJobs' = gpuJobs \cup {g}
    BY Zenon, <1>4 DEF EndLookUp
  <2>2. Hits \subseteq stored /\ Hits \subseteq Keys
    <3>1. Hits = {Prompt[looking][i] : i \in 1 .. hit} /\ Hits \subseteq Keys
      BY <1>1, <1>2, HitsAre
    <3>2. \A i \in 1 .. hit : Prompt[looking][i] \in stored
      BY <1>1, <1>2, <1>4 DEF LookUpInv
    <3> QED
      BY <3>1, <3>2
  <2>3. PrimaryInv /\ GpuJobsInv
    BY DEF TierInv
  <2>4. /\ g.req = looking /\ g.store = FALSE /\ g.blocks = Blocks(Hits, slotOf)
        /\ g = [req |-> looking, store |-> FALSE, blocks |-> Blocks(Hits, slotOf)]
    BY DEF GpuJob
  <2> HIDE DEF g
  <2>5. InPlace(g.blocks, stored) /\ KeysOf(g.blocks) = Hits
    BY <2>2, <2>4, BlocksAre DEF InPlace
  <2>6. g \in GpuJobs
    <3>1. Blocks(Hits, slotOf) \subseteq Pairs
      BY <2>2, <2>3 DEF Blocks, Pairs, PrimaryInv
    <3> QED
      BY <1>2, <2>4, <3>1 DEF GpuJobs
  <2>8. gpuJobs' \subseteq GpuJobs
    BY <2>1, <2>3, <2>6 DEF GpuJobsInv
  <2>11. LookUpInv'
    <3>1. \A h \in gpuJobs : h.req \in Reqs
      BY <2>3 DEF GpuJobsInv, GpuJobs
    <3> QED
      BY Zenon, <1>1, <1>2, <2>1, <2>4, <3>1 DEF LookUpInv
  <2> QED
    BY <1>1, <2>1, <2>4, <2>5, <2>8, <2>11, LoadFrame
<1> QED
  BY <1>2, <1>3, <1>4 DEF LookUpInv

-----------------------------------------------------------------------------
(***************************************************************************)
(* The steps of TieringOffloadingManager that give keys slots and take     *)
(* them away again (stores and promotions), and with them every step.      *)
(***************************************************************************)
(* Stores of the GPU, and what is submitted for them *)

\* The keys of a store have no other writer, and no reader.
LEMMA StoreKeys ==
  ASSUME TierInv, NEW g \in gpuJobs, g.store
  PROVE  /\ KeysOf(g.blocks) \subseteq storing /\ KeysOf(g.blocks) \subseteq Keys
         /\ \A b \in g.blocks : b[2] = slotOf[b[1]] /\ b[1] \in KeysOf(g.blocks)
         /\ \A k \in KeysOf(g.blocks) :
                /\ StoresOf(k) = {g} /\ QueuedOf(k) = {} /\ PromotionsOf(k) = {}
                /\ LoadsOf(k) = {} /\ CascadesOf(k) = {} /\ <<k, slotOf[k]>> \in g.blocks
<1>1. GpuJobsInv /\ JobsInv /\ PrimaryInv
  BY DEF TierInv
<1>2. g \in GpuJobs /\ InPlace(g.blocks, storing)
  BY <1>1 DEF GpuJobsInv
<1>3. KeysOf(g.blocks) \subseteq storing /\ KeysOf(g.blocks) \subseteq Keys
  BY <1>1, <1>2 DEF InPlace, KeysOf, PrimaryInv
<1>4. \A b \in g.blocks : b[2] = slotOf[b[1]] /\ b[1] \in KeysOf(g.blocks) /\ b = <<b[1], b[2]>>
  BY <1>2 DEF InPlace, KeysOf, GpuJobs, Pairs
<1>5. ASSUME NEW k \in KeysOf(g.blocks)
      PROVE  /\ StoresOf(k) = {g} /\ QueuedOf(k) = {} /\ PromotionsOf(k) = {}
             /\ LoadsOf(k) = {} /\ CascadesOf(k) = {} /\ <<k, slotOf[k]>> \in g.blocks
  <2>1. g \in StoresOf(k) /\ k \in storing /\ k \in Keys /\ k \notin stored
    BY <1>1, <1>3 DEF StoresOf, PrimaryInv
  <2>2. StoresOf(k) = {g} /\ QueuedOf(k) = {} /\ PromotionsOf(k) = {}
    BY <2>1 DEF TierInv, WritersInv, OneWriter
  <2>3. LoadsOf(k) = {}
    BY <1>1, <2>1 DEF LoadsOf, KeysOf, GpuJobsInv, InPlace
  <2>4. CascadesOf(k) = {}
    BY <1>1, <2>1 DEF CascadesOf, JobsInv
  <2>5. <<k, slotOf[k]>> \in g.blocks
    BY <1>4 DEF KeysOf
  <2> QED
    BY <2>2, <2>3, <2>4, <2>5
<1> QED
  BY <1>3, <1>4, <1>5


\* The transfers other than a store do not use its keys.
LEMMA OthersAvoidStore ==
  ASSUME TierInv, NEW g \in gpuJobs, g.store
  PROVE  /\ \A h \in gpuJobs \ {g}, b \in Pairs : b \in h.blocks => b[1] \notin KeysOf(g.blocks)
         /\ \A t \in Tiers, r \in Reqs : \A b \in pending[t][r] : b[1] \notin KeysOf(g.blocks)
         /\ \A j \in jobs : j.keys \cap KeysOf(g.blocks) = {}
<1> DEFINE K == KeysOf(g.blocks)
<1>1. \A k \in K : /\ StoresOf(k) = {g} /\ QueuedOf(k) = {} /\ PromotionsOf(k) = {}
                   /\ LoadsOf(k) = {} /\ CascadesOf(k) = {}
  BY Zenon, StoreKeys
<1> HIDE DEF K
<1>2. ASSUME NEW h \in gpuJobs \ {g}, NEW b \in Pairs, b \in h.blocks PROVE b[1] \notin K
  <2>1. h \in StoresOf(b[1]) \/ h \in LoadsOf(b[1])
    BY <1>2 DEF StoresOf, LoadsOf, KeysOf
  <2> QED
    BY <1>1, <1>2, <2>1
<1>3. ASSUME NEW t \in Tiers, NEW r \in Reqs, NEW b \in pending[t][r] PROVE b[1] \notin K
  <2>1. <<t, r>> \in QueuedOf(b[1])
    BY DEF QueuedOf, KeysOf
  <2> QED
    BY <1>1, <2>1
<1>4. ASSUME NEW j \in jobs, NEW k \in K PROVE k \notin j.keys
  <2>1. k \in j.keys => j \in PromotionsOf(k) \/ j \in CascadesOf(k)
    BY DEF PromotionsOf, CascadesOf
  <2> QED
    BY <1>1, <1>4, <2>1
<1> QED
  BY <1>2, <1>3, <1>4 DEF K

LEMMA FailStoreStep ==
  ASSUME TierInv, NEW g \in gpuJobs, FailStore(g)
  PROVE  TierInv'
<1> DEFINE K == KeysOf(g.blocks)
<1>1. /\ g.store /\ storing' = storing \ K /\ gpuJobs' = gpuJobs \ {g}
      /\ slotOf' = [k \in Keys |-> IF k \in K THEN None ELSE slotOf[k]]
      /\ UNCHANGED <<phase, status, looking, hit, deferred, stored, readers, pending, jobs,
                     data, files>>
  BY DEF FailStore, engine, lookup, tiering, memory
<1>2. LookUpInv /\ PrimaryInv /\ GpuJobsInv /\ PendingInv /\ JobsInv /\ MemoryInv
  BY DEF TierInv
<1>3. /\ K \subseteq storing /\ K \subseteq Keys /\ K \cap stored = {}
      /\ \A k \in K : StoresOf(k) = {g} /\ QueuedOf(k) = {} /\ PromotionsOf(k) = {}
  BY Zenon, <1>1, <1>2, StoreKeys DEF PrimaryInv
<1>4. /\ \A h \in gpuJobs', b \in Pairs : b \in h.blocks => b[1] \notin K
      /\ \A t \in Tiers, r \in Reqs : \A b \in pending[t][r] : b[1] \notin K
      /\ \A j \in jobs : j.keys \cap K = {}
  BY <1>1, OthersAvoidStore
<1> HIDE DEF K
<1>5. \A k \in Keys \ K : slotOf'[k] = slotOf[k]
  BY <1>1
<1>6. LookUpInv'
  BY <1>1, <1>2 DEF LookUpInv
<1>7. PrimaryInv'
  <2>1. slotOf' \in [Keys -> CpuSlots \cup {None}]
    BY <1>1, <1>2 DEF PrimaryInv
  <2>2. \A k \in storing' \cup stored' : /\ slotOf'[k] = slotOf[k] /\ k \in storing \cup stored
                                         /\ slotOf'[k] \in CpuSlots
    BY <1>1, <1>2, <1>3, <1>5 DEF PrimaryInv
  <2> QED
    BY <1>1, <1>2, <2>1, <2>2 DEF PrimaryInv
<1>8. GpuJobsInv'
  <2>1. gpuJobs' \subseteq GpuJobs
    BY Zenon, <1>1, <1>2 DEF GpuJobsInv
  <2>2. ASSUME NEW h \in gpuJobs', NEW b \in h.blocks
        PROVE  /\ b[1] \in IF h.store THEN storing' ELSE stored'
               /\ b[2] = slotOf'[b[1]]
    <3>1. b \in Pairs /\ b[1] \in Keys
      BY <2>1 DEF GpuJobs, Pairs
    <3>2. b[1] \notin K
      BY Zenon, <1>4, <3>1
    <3> QED
      BY <1>1, <1>2, <1>5, <3>1, <3>2 DEF GpuJobsInv, InPlace
  <2> QED
    BY <2>1, <2>2 DEF GpuJobsInv, InPlace
<1>9. PendingInv'
  BY <1>1, <1>2, <1>4, <1>5 DEF PendingInv, InPlace, PrimaryInv
<1>10. JobsInv'
  <2>1. ASSUME NEW j \in jobs
        PROVE  /\ \A k \in j.keys : slotOf'[k] = slotOf[k]
               /\ j.promotion => j.keys \subseteq storing'
    BY Zenon, <1>1, <1>2, <1>4, <1>5 DEF JobsInv, TierJobs
  <2>2. ASSUME NEW j \in jobs
        PROVE  InPlace(j.todo, j.keys)' /\ (Loaded(j) => Loaded(j)')
    BY <1>1, <1>2, <2>1 DEF JobsInv, InPlace, Loaded
  <2> QED
    BY Zenon, <1>1, <1>2, <2>1, <2>2 DEF JobsInv
<1>11. MemoryInv'
  <2>1. \A k \in stored : slotOf'[k] = slotOf[k]
    BY <1>2, <1>3, <1>5 DEF PrimaryInv
  <2> QED
    BY Zenon, <1>1, <1>2, <2>1 DEF MemoryInv, TieredKVExact
<1>12. \A k \in Keys :
         /\ StoresOf(k)' = StoresOf(k) \ {g} /\ QueuedOf(k)' = QueuedOf(k)
         /\ PromotionsOf(k)' = PromotionsOf(k)
  BY <1>1 DEF StoresOf, QueuedOf, PromotionsOf
<1>14. WritersInv'
  <2>1. \A k \in Keys \ K : g \notin StoresOf(k)
    BY DEF StoresOf, K
  <2>2. \A k \in Keys \ K : StoresOf(k)' = StoresOf(k)
    BY <1>12, <2>1
  <2>3. \A k \in K : StoresOf(k)' = {}
    BY <1>3, <1>12
  <2> QED
    BY <1>1, <1>3, <1>12, <2>2, <2>3 DEF TierInv, WritersInv
<1> QED
  BY <1>6, <1>7, <1>8, <1>9, <1>10, <1>11, <1>14 DEF TierInv


LEMMA CompleteStoreStep ==
  ASSUME TierInv, NEW g \in gpuJobs, CompleteStore(g)
  PROVE  TierInv'
<1> DEFINE K == KeysOf(g.blocks)
           C == {Job(t, FALSE, Blocks(K, slotOf)) : t \in Tiers}
<1>1. /\ g.store /\ phase = "update" /\ storing' = storing \ K /\ stored' = stored \cup K
      /\ jobs' = jobs \cup C /\ gpuJobs' = gpuJobs \ {g}
      /\ data' = [s \in CpuSlots |-> IF \E b \in g.blocks : b[2] = s
                                     THEN (CHOOSE b \in g.blocks : b[2] = s)[1] ELSE data[s]]
      /\ UNCHANGED <<phase, status, looking, hit, deferred, slotOf, pending, files>>
  BY Zenon DEF CompleteStore, engine, lookup
<1>2. LookUpInv /\ PrimaryInv /\ GpuJobsInv /\ PendingInv /\ JobsInv /\ MemoryInv
  BY DEF TierInv
<1>3. /\ K \subseteq storing /\ K \subseteq Keys /\ K \cap stored = {}
      /\ \A k \in K : /\ StoresOf(k) = {g} /\ QueuedOf(k) = {} /\ PromotionsOf(k) = {}
                      /\ LoadsOf(k) = {} /\ CascadesOf(k) = {} /\ <<k, slotOf[k]>> \in g.blocks
      /\ \A b \in g.blocks : b[2] = slotOf[b[1]] /\ b[1] \in K
  BY Zenon, <1>1, <1>2, StoreKeys DEF PrimaryInv
<1>4. /\ \A h \in gpuJobs', b \in Pairs : b \in h.blocks => b[1] \notin K
      /\ \A t \in Tiers, r \in Reqs : \A b \in pending[t][r] : b[1] \notin K
      /\ \A j \in jobs : j.keys \cap K = {}
  BY Zenon, <1>1, OthersAvoidStore
<1>5. \A c \in C : /\ c \in TierJobs /\ c.keys = K /\ ~c.promotion /\ c.tmp = {}
                  /\ InPlace(c.todo, K)
  <2>1. /\ KeysOf(Blocks(K, slotOf)) = K /\ InPlace(Blocks(K, slotOf), K)
        /\ Blocks(K, slotOf) \subseteq Pairs
    <3>1. \A k \in K : k \in Keys /\ slotOf[k] \in CpuSlots
      BY <1>2, <1>3 DEF PrimaryInv
    <3>2. Blocks(K, slotOf) \subseteq Pairs
      BY <3>1 DEF Blocks, Pairs
    <3> QED
      BY <3>2, BlocksAre DEF InPlace
  <2>2. ASSUME NEW t \in Tiers, NEW c, c = Job(t, FALSE, Blocks(K, slotOf))
        PROVE  /\ c \in TierJobs /\ c.keys = K /\ ~c.promotion /\ c.tmp = {}
               /\ InPlace(c.todo, K)
    BY Zenon, <1>3, <2>1, <2>2 DEF Job, TierJobs
  <2> QED
    BY Zenon, <2>2
<1> HIDE DEF K, C
<1>6. ASSUME NEW k \in (storing \cup stored) \ K PROVE data'[slotOf[k]] = data[slotOf[k]]
  <2>1. slotOf[k] \in CpuSlots
    BY Zenon, <1>2 DEF PrimaryInv
  <2>2. ~ \E b \in g.blocks : b[2] = slotOf[k]
    BY <1>2, <1>3 DEF PrimaryInv
  <2> QED
    BY Zenon, <1>1, <2>1, <2>2
<1>7. ASSUME NEW k \in K PROVE data'[slotOf[k]] = k
  <2>1. slotOf[k] \in CpuSlots
    BY Zenon, <1>2, <1>3 DEF PrimaryInv
  <2> DEFINE c == CHOOSE b \in g.blocks : b[2] = slotOf[k]
  <2>2. <<k, slotOf[k]>> \in g.blocks /\ <<k, slotOf[k]>>[2] = slotOf[k]
    BY Zenon, <1>3
  <2>3. c \in g.blocks /\ c[2] = slotOf[k]
    BY <2>2
  <2>4. data'[slotOf[k]] = c[1]
    BY Zenon, <1>1, <2>1, <2>3
  <2> HIDE DEF c
  <2>5. c[1] = k
    BY <1>2, <1>3, <2>3 DEF PrimaryInv
  <2> QED
    BY Zenon, <2>4, <2>5
<1>8. LookUpInv'
  BY <1>1, <1>2 DEF LookUpInv
<1>9. PrimaryInv'
  <2>1. storing' \cup stored' = storing \cup stored /\ slotOf' = slotOf
    BY Zenon, <1>1, <1>3
  <2>2. storing' \subseteq Keys /\ stored' \subseteq Keys /\ storing' \cap stored' = {}
    BY Zenon, <1>1, <1>2, <1>3 DEF PrimaryInv
  <2> QED
    BY <1>2, <2>1, <2>2 DEF PrimaryInv
<1>10. GpuJobsInv'
  <2>1. gpuJobs' \subseteq GpuJobs
    BY Zenon, <1>1, <1>2 DEF GpuJobsInv
  <2>2. ASSUME NEW h \in gpuJobs', NEW b \in h.blocks
        PROVE  /\ b[1] \in IF h.store THEN storing' ELSE stored'
               /\ b[2] = slotOf[b[1]]
    <3>1. b[1] \notin K
      BY Zenon, <1>4, <2>1 DEF GpuJobs
    <3> QED
      BY Zenon, <1>1, <1>2, <3>1 DEF GpuJobsInv, InPlace
  <2> QED
    BY Zenon, <1>1, <2>1, <2>2 DEF GpuJobsInv, InPlace
<1>11. PendingInv'
  BY Zenon, <1>1, <1>2, <1>4 DEF PendingInv, InPlace
<1>12. JobsInv'
  <2>1. jobs' \subseteq TierJobs
    BY Zenon, <1>1, <1>2, <1>5 DEF JobsInv
  <2>2. ASSUME NEW j \in jobs
        PROVE  /\ InPlace(j.todo, j.keys)'
               /\ j.promotion => j.keys \subseteq storing' /\ (Loaded(j) => Loaded(j)')
               /\ ~j.promotion => j.keys \subseteq stored'
    <3>1. InPlace(j.todo, j.keys)'
      BY Zenon, <1>1, <1>2 DEF JobsInv, InPlace
    <3>2. ASSUME j.promotion PROVE j.keys \subseteq storing' /\ (Loaded(j) => Loaded(j)')
      <4>1. \A k \in j.keys : k \in storing \ K
        BY Zenon, <1>2, <1>4, <3>2 DEF JobsInv
      <4> QED
        BY Zenon, <1>1, <1>6, <4>1 DEF Loaded
    <3> QED
      BY Zenon, <1>1, <1>2, <3>1, <3>2 DEF JobsInv
  <2>3. ASSUME NEW j \in C
        PROVE  /\ InPlace(j.todo, j.keys)' /\ j.keys \subseteq stored'
    BY Zenon, <1>1, <1>5 DEF InPlace
  <2>4. \A j \in jobs : /\ \A w \in j.tmp : w[1] \in j.keys /\ w[2] = w[1]
                        /\ j.promotion => j.tmp = {} /\ (j.ok => Loaded(j))
    BY <1>2 DEF JobsInv
  <2>5. \A j \in jobs' : j \in jobs \/ j \in C
    BY <1>1
  <2> QED
    BY Zenon, <1>5, <2>1, <2>2, <2>3, <2>4, <2>5 DEF JobsInv
<1>13. MemoryInv'
  <2>1. \A k \in stored' : data'[slotOf[k]] = k
    BY Zenon, <1>1, <1>2, <1>3, <1>6, <1>7 DEF MemoryInv, TieredKVExact
  <2>2. \A h \in gpuJobs' : ~h.store => \A b \in h.blocks : data'[b[2]] = b[1]
    BY <1>1, <1>2, <2>1 DEF GpuJobsInv, InPlace
  <2>3. data' = [s \in CpuSlots |-> data'[s]]
    BY <1>1
  <2>4. slotOf' = slotOf /\ files' = files
    BY Zenon, <1>1
  <2> QED
    BY Zenon, <1>2, <2>1, <2>2, <2>3, <2>4 DEF MemoryInv, TieredKVExact
<1>14. ASSUME NEW k \in Keys
       PROVE  /\ StoresOf(k)' = StoresOf(k) \ {g} /\ QueuedOf(k)' = QueuedOf(k)
              /\ PromotionsOf(k)' = PromotionsOf(k)
  BY Zenon, <1>1, <1>5 DEF StoresOf, QueuedOf, PromotionsOf
<1>16. WritersInv'
  <2>1. \A k \in Keys \ K : g \notin StoresOf(k)
    BY DEF StoresOf, K
  <2>2. \A k \in Keys \ K : StoresOf(k)' = StoresOf(k)
    BY <1>14, <2>1
  <2>3. \A k \in K : StoresOf(k)' = {}
    BY Zenon, <1>3, <1>14
  <2> QED
    BY Zenon, <1>1, <1>3, <1>14, <2>2, <2>3 DEF TierInv, WritersInv
<1> QED
  BY <1>8, <1>9, <1>10, <1>11, <1>12, <1>13, <1>16 DEF TierInv

LEMMA TakeEventsStep ==
  ASSUME TierInv, TakeEvents
  PROVE  TierInv'
<1> DEFINE New(q) == Job(q[1], TRUE, pending[q[1]][q[2]])
           Q == {q \in Tiers \X Reqs : pending[q[1]][q[2]] # {}}
<1>1. /\ phase = "update" /\ jobs' = jobs \cup Submitted
      /\ pending' = [t \in Tiers |-> [r \in Reqs |-> {}]]
      /\ UNCHANGED <<status, looking, hit, deferred, storing, stored, readers, slotOf, gpuJobs,
                     data, files>>
  BY DEF TakeEvents, lookup, primary, memory
<1>2. LookUpInv /\ PrimaryInv /\ GpuJobsInv /\ PendingInv /\ JobsInv /\ MemoryInv
  BY DEF TierInv
<1>3. Submitted = {New(q) : q \in Q}
  BY DEF Submitted
<1>4. ASSUME NEW q \in Q
      PROVE  /\ New(q) \in TierJobs /\ New(q).promotion /\ New(q).tmp = {}
             /\ New(q).keys = KeysOf(pending[q[1]][q[2]]) /\ New(q).keys \subseteq storing
             /\ New(q).keys = KeysOf(New(q).todo) /\ InPlace(New(q).todo, New(q).keys)
  <2> DEFINE B == pending[q[1]][q[2]]
  <2>1. q[1] \in Tiers /\ q[2] \in Reqs
    OBVIOUS
  <2>2. B \subseteq Pairs /\ InPlace(B, storing)
    BY Zenon, <1>2, <2>1 DEF PendingInv
  <2>3. KeysOf(B) \subseteq storing /\ InPlace(B, KeysOf(B)) /\ KeysOf(B) \subseteq Keys
    BY <1>2, <2>2 DEF InPlace, KeysOf, PrimaryInv
  <2> HIDE DEF B
  <2>4. New(q) = Job(q[1], TRUE, B)
    BY Zenon DEF B
  <2> HIDE DEF New
  <2>5. New(q) = [tier |-> q[1], promotion |-> TRUE, keys |-> KeysOf(B), todo |-> B,
                  tmp |-> {}, ok |-> TRUE]
    BY Zenon, <2>4 DEF Job
  <2>6. /\ New(q).promotion /\ New(q).tmp = {} /\ New(q).todo = B /\ New(q).keys = KeysOf(B)
    BY <2>5
  <2>7. New(q) \in TierJobs
    BY <2>1, <2>2, <2>3, <2>5 DEF TierJobs
  <2> QED
    BY Zenon, <2>3, <2>6, <2>7 DEF B
<1> HIDE DEF New
<1>6. LookUpInv'
  BY Zenon, <1>1, <1>2 DEF LookUpInv
<1>7. PrimaryInv' /\ GpuJobsInv'
  BY Zenon, <1>1, <1>2 DEF PrimaryInv, GpuJobsInv, InPlace
<1>8. PendingInv'
  BY Zenon, <1>1 DEF PendingInv, InPlace
<1>9. MemoryInv'
  BY Zenon, <1>1, <1>2 DEF MemoryInv, TieredKVExact
<1>10. JobsInv'
  <2>1. jobs' \subseteq TierJobs
    BY <1>1, <1>2, <1>3, <1>4 DEF JobsInv
  <2>2. ASSUME NEW j \in jobs' PROVE j \in jobs \/ \E q \in Q : j = New(q)
    BY <1>1, <1>3
  <2>3. ASSUME NEW j PROVE (InPlace(j.todo, j.keys) => InPlace(j.todo, j.keys)')
                           /\ (Loaded(j) => Loaded(j)')
    BY Zenon, <1>1 DEF InPlace, Loaded
  <2>4. ASSUME NEW q \in Q PROVE Loaded(New(q))
    BY <1>4 DEF Loaded
  <2> HIDE DEF Q
  <2> QED
    BY Zenon, <1>1, <1>2, <1>4, <2>1, <2>2, <2>3, <2>4 DEF JobsInv
<1>11. ASSUME NEW k \in Keys
       PROVE  /\ StoresOf(k)' = StoresOf(k) /\ QueuedOf(k)' = {}
              /\ PromotionsOf(k)' = PromotionsOf(k) \cup {New(q) : q \in QueuedOf(k)}
  <2>1. StoresOf(k)' = StoresOf(k)
    BY <1>1 DEF StoresOf
  <2>3. QueuedOf(k)' = {}
    BY Zenon, <1>1 DEF QueuedOf, KeysOf
  <2>4. QueuedOf(k) = {q \in Q : k \in New(q).keys}
    <3>1. \A q \in Tiers \X Reqs : k \in KeysOf(pending[q[1]][q[2]]) => pending[q[1]][q[2]] # {}
      BY DEF KeysOf
    <3> QED
      BY <1>4, <3>1 DEF QueuedOf
  <2>5. PromotionsOf(k)' = PromotionsOf(k) \cup {j \in Submitted : k \in j.keys}
    BY Zenon, <1>1, <1>3, <1>4 DEF PromotionsOf
  <2>6. {j \in Submitted : k \in j.keys} = {New(q) : q \in QueuedOf(k)}
    BY <1>3, <2>4
  <2> QED
    BY <2>1, <2>3, <2>5, <2>6
<1>13. WritersInv'
  <2> SUFFICES ASSUME NEW k \in Keys
               PROVE  IF k \in storing
                      THEN OneWriter(StoresOf(k), {}, PromotionsOf(k)')
                      ELSE StoresOf(k) = {} /\ PromotionsOf(k)' = {}
    BY Zenon, <1>1, <1>11 DEF WritersInv, OneWriter
  <2>1. CASE QueuedOf(k) = {}
    <3>1. PromotionsOf(k)' = PromotionsOf(k)
      BY <1>11, <2>1
    <3> QED
      BY Zenon, <2>1, <3>1 DEF TierInv, WritersInv, OneWriter
  <2>2. CASE QueuedOf(k) # {}
    <3>1. k \in storing /\ StoresOf(k) = {} /\ PromotionsOf(k) = {} /\ \E x : QueuedOf(k) = {x}
      BY <2>2 DEF TierInv, WritersInv, OneWriter
    <3>2. PICK x : QueuedOf(k) = {x}
      BY <3>1
    <3>3. PromotionsOf(k)' = {New(x)}
      BY Zenon, <1>11, <3>1, <3>2
    <3> QED
      BY <3>1, <3>3 DEF OneWriter
  <2> QED
    BY <2>1, <2>2
<1> QED
  BY <1>6, <1>7, <1>8, <1>9, <1>10, <1>13 DEF TierInv


-----------------------------------------------------------------------------
(* Slots for new keys *)

\* prepare_store evicts keys without readers, and gives the new keys slots of their own.
LEMMA AllocateSlots ==
  ASSUME TierInv, NEW K \in SUBSET Keys, K \cap (storing \cup stored) = {}, NEW offered,
         Allocate(K, offered)
  PROVE  /\ storing' = storing \cup K /\ stored' \subseteq stored /\ readers' = readers
         /\ \A k \in stored \ stored' : readers[k] = 0
         /\ PrimaryInv'
         /\ \A k \in storing \cup stored' :
                slotOf'[k] = slotOf[k] /\ data'[slotOf[k]] = data[slotOf[k]]
         /\ data' = [s \in CpuSlots |-> data'[s]]
<1> DEFINE held == [k \in Keys |-> IF k \in storing \cup stored' THEN slotOf[k] ELSE None]
<1>1. /\ storing' = storing \cup K /\ readers' = readers
      /\ \E E \in Cache!kSubset(Cache!Excess(K), Cache!Unread) : stored' = stored \ E
  BY DEF Allocate, Cache!Store
<1>2. stored' \subseteq stored /\ \A k \in stored \ stored' : readers[k] = 0
  <2>1. PICK E \in Cache!kSubset(Cache!Excess(K), Cache!Unread) : stored' = stored \ E
    BY <1>1
  <2>2. E \subseteq Cache!Unread
    BY <2>1 DEF Cache!kSubset
  <2> QED
    BY <2>1, <2>2 DEF Cache!Unread
<1>3. PICK new \in Injection(K, CpuSlots \ Range(held)) :
          /\ slotOf' = [k \in Keys |-> IF k \in K THEN new[k] ELSE held[k]]
          /\ data' = [s \in CpuSlots |-> IF s \in Range(new) THEN Junk ELSE data[s]]
  BY Zenon DEF Allocate
<1>4. /\ new \in [K -> CpuSlots \ Range(held)]
      /\ \A k, l \in K : new[k] = new[l] => k = l
  BY DEF Injection, IsInjective
<1>5. PrimaryInv
  BY Zenon DEF TierInv
<1>6. ASSUME NEW k \in storing \cup stored'
      PROVE  /\ k \in Keys \ K /\ held[k] = slotOf[k] /\ slotOf[k] \in CpuSlots
             /\ slotOf[k] \in Range(held)
  <2>1. k \in Keys \ K /\ slotOf[k] \in CpuSlots
    BY Zenon, <1>2, <1>5 DEF PrimaryInv
  <2> QED
    BY <2>1 DEF Range
<1>7. Range(new) \cap Range(held) = {}
  BY <1>4 DEF Range
<1> HIDE DEF held
<1>8. ASSUME NEW k \in storing \cup stored'
      PROVE  slotOf'[k] = slotOf[k] /\ data'[slotOf[k]] = data[slotOf[k]]
  BY <1>3, <1>6, <1>7
<1>9. ASSUME NEW k \in K PROVE slotOf'[k] = new[k] /\ new[k] \in CpuSlots \ Range(held)
  BY <1>3, <1>4
<1>10. PrimaryInv'
  <2>1. slotOf' \in [Keys -> CpuSlots \cup {None}]
    <3>1. \A k \in Keys : held[k] \in CpuSlots \cup {None}
      BY <1>5 DEF PrimaryInv, held
    <3> QED
      BY <1>3, <1>9, <3>1
  <2>2. \A k \in storing' \cup stored' : k \in K \/ k \in storing \cup stored'
    BY Zenon, <1>1
  <2>3. \A k \in storing' \cup stored' : slotOf'[k] \in CpuSlots
    BY <1>6, <1>8, <1>9, <2>2
  <2>4. ASSUME NEW k \in storing' \cup stored', NEW l \in storing' \cup stored',
               slotOf'[k] = slotOf'[l]
        PROVE  k = l
    <3>1. CASE k \in K /\ l \in K
      BY Zenon, <1>4, <1>9, <2>4, <3>1
    <3>2. CASE k \notin K /\ l \notin K
      <4>1. k \in storing \cup stored /\ l \in storing \cup stored /\ slotOf[k] = slotOf[l]
        BY Zenon, <1>2, <1>8, <2>2, <2>4, <3>2
      <4> QED
        BY Zenon, <1>5, <4>1 DEF PrimaryInv
    <3>3. CASE k \in K /\ l \notin K
      BY Zenon, <1>6, <1>8, <1>9, <2>2, <2>4, <3>3
    <3>4. CASE k \notin K /\ l \in K
      BY Zenon, <1>6, <1>8, <1>9, <2>2, <2>4, <3>4
    <3> QED
      BY <3>1, <3>2, <3>3, <3>4
  <2>5. storing' \subseteq Keys /\ stored' \subseteq Keys /\ storing' \cap stored' = {}
    BY Zenon, <1>1, <1>2, <1>5 DEF PrimaryInv
  <2> QED
    BY Zenon, <2>1, <2>3, <2>4, <2>5 DEF PrimaryInv
<1> QED
  BY Zenon, <1>1, <1>2, <1>3, <1>8, <1>10

\* Transfers in flight keep their slots, for what they read has readers.
LEMMA AllocateKeepsJobs ==
  ASSUME TierInv, UnreadInv, NEW K \in SUBSET Keys, K \cap (storing \cup stored) = {}, NEW offered,
         Allocate(K, offered), UNCHANGED <<jobs, files>>,
         gpuJobs \subseteq gpuJobs', \A g \in gpuJobs' \ gpuJobs : g.store
  PROVE  /\ JobsInv' /\ MemoryInv'
         /\ \A g \in gpuJobs : \A b \in g.blocks :
                /\ b[1] \in IF g.store THEN storing' ELSE stored'
                /\ b[2] = slotOf'[b[1]]
         /\ \A t \in Tiers, r \in Reqs : \A b \in pending[t][r] :
                b[1] \in storing' /\ b[2] = slotOf'[b[1]]
<1>1. /\ storing' = storing \cup K /\ stored' \subseteq stored /\ readers' = readers
      /\ \A k \in stored \ stored' : readers[k] = 0
      /\ \A k \in storing \cup stored' :
             slotOf'[k] = slotOf[k] /\ data'[slotOf[k]] = data[slotOf[k]]
      /\ data' = [s \in CpuSlots |-> data'[s]]
  BY AllocateSlots
<1>2. PrimaryInv /\ GpuJobsInv /\ PendingInv /\ JobsInv /\ MemoryInv
  BY DEF TierInv
<1>3. \A k \in stored \ stored' : LoadsOf(k) = {} /\ CascadesOf(k) = {}
  BY <1>1, <1>2 DEF PrimaryInv, UnreadInv
<1>4. ASSUME NEW g \in gpuJobs, NEW b \in g.blocks
      PROVE  /\ b[1] \in IF g.store THEN storing' ELSE stored'
             /\ b[2] = slotOf'[b[1]]
  <2>1. b[1] \in (IF g.store THEN storing ELSE stored) /\ b[2] = slotOf[b[1]]
    BY <1>2 DEF GpuJobsInv, InPlace
  <2>2. ~g.store => g \in LoadsOf(b[1])
    BY DEF LoadsOf, KeysOf
  <2> QED
    BY Zenon, <1>1, <1>3, <2>1, <2>2
<1>5. ASSUME NEW t \in Tiers, NEW r \in Reqs, NEW b \in pending[t][r]
      PROVE  b[1] \in storing' /\ b[2] = slotOf'[b[1]]
  BY <1>1, <1>2 DEF PendingInv, InPlace
<1>6. JobsInv'
  <2>1. ASSUME NEW j \in jobs, NEW k \in j.keys
        PROVE  /\ IF j.promotion THEN k \in storing' ELSE k \in stored'
               /\ slotOf'[k] = slotOf[k] /\ data'[slotOf[k]] = data[slotOf[k]]
    <3>1. IF j.promotion THEN k \in storing ELSE k \in stored
      BY <1>2 DEF JobsInv
    <3>2. ~j.promotion => j \in CascadesOf(k)
      BY Zenon DEF CascadesOf
    <3> QED
      BY <1>1, <1>3, <3>1, <3>2
  <2>2. ASSUME NEW j \in jobs
        PROVE  InPlace(j.todo, j.keys)' /\ (Loaded(j) => Loaded(j)')
    BY <1>2, <2>1 DEF JobsInv, InPlace, Loaded
  <2>3. ASSUME NEW j \in jobs
        PROVE  (j.promotion => j.keys \subseteq storing') /\ (~j.promotion => j.keys \subseteq stored')
    BY <2>1
  <2> QED
    BY <1>2, <2>2, <2>3 DEF JobsInv
<1>7. MemoryInv'
  <2>1. \A k \in stored' : data'[slotOf'[k]] = k
    BY Zenon, <1>1, <1>2 DEF MemoryInv, TieredKVExact
  <2>2. \A g \in gpuJobs' : ~g.store => \A b \in g.blocks : data'[b[2]] = b[1]
    BY <1>4, <2>1
  <2> QED
    BY <1>1, <1>2, <2>1, <2>2 DEF MemoryInv, TieredKVExact
<1> QED
  BY Zenon, <1>4, <1>5, <1>6, <1>7


LEMMA PromoteStep ==
  ASSUME TierInv, UnreadInv, NEW t \in Tiers, Promote(t)
  PROVE  TierInv'
<1> DEFINE n == NextKey
           B == Blocks({n}, slotOf')
<1>1. /\ looking # None /\ hit < Len(Prompt[looking]) /\ n \notin storing \cup stored
      /\ Allocate({n}, {n}) /\ hit' = hit + 1 /\ deferred' = TRUE
      /\ pending' = [pending EXCEPT ![t][looking] = @ \cup B]
      /\ UNCHANGED <<phase, status, looking, gpuJobs, jobs, files>>
  BY DEF Promote, HasNext, engine
<1>2. LookUpInv /\ PrimaryInv /\ GpuJobsInv /\ PendingInv
  BY DEF TierInv
<1>3. looking \in Reqs /\ hit \in Nat /\ Len(Prompt[looking]) \in Nat
  BY <1>1, <1>2, PromptKeys DEF LookUpInv
<1>4. n \in Keys
  BY <1>1, <1>3, PromptKeys DEF NextKey
<1> HIDE DEF n
<1>5. /\ storing' = storing \cup {n} /\ PrimaryInv'
  BY Zenon, <1>1, <1>4, AllocateSlots
<1>6. /\ JobsInv' /\ MemoryInv'
      /\ \A g \in gpuJobs : \A b \in g.blocks :
             /\ b[1] \in IF g.store THEN storing' ELSE stored'
             /\ b[2] = slotOf'[b[1]]
      /\ \A u \in Tiers, r \in Reqs : \A b \in pending[u][r] :
             b[1] \in storing' /\ b[2] = slotOf'[b[1]]
  BY Zenon, <1>1, <1>4, AllocateKeepsJobs
<1>7. /\ KeysOf(B) = {n} /\ B \subseteq Pairs
      /\ \A b \in B : b[1] \in storing' /\ b[2] = slotOf'[b[1]]
  <2>1. n \in storing' /\ slotOf'[n] \in CpuSlots
    BY <1>5 DEF PrimaryInv
  <2>2. KeysOf(B) = {n} /\ \A b \in B : b[1] \in {n} /\ b[2] = slotOf'[b[1]]
    BY BlocksAre
  <2>3. B \subseteq Pairs
    BY <1>4, <2>1 DEF Blocks, Pairs
  <2> QED
    BY <2>1, <2>2, <2>3
<1> HIDE DEF B
<1>8. LookUpInv'
  BY <1>1, <1>2, <1>3 DEF LookUpInv
<1>9. GpuJobsInv'
  BY <1>1, <1>2, <1>6 DEF GpuJobsInv, InPlace
<1>10. ASSUME NEW u \in Tiers, NEW r \in Reqs
       PROVE  pending'[u][r] = IF u = t /\ r = looking THEN pending[u][r] \cup B ELSE pending[u][r]
  BY Zenon, <1>1, <1>2, <1>3 DEF PendingInv
<1>11. PendingInv'
  <2>1. pending' \in [Tiers -> [Reqs -> SUBSET Pairs]]
    BY Zenon, <1>1, <1>2, <1>3, <1>7 DEF PendingInv
  <2>2. ASSUME NEW u \in Tiers, NEW r \in Reqs, NEW b \in pending'[u][r]
        PROVE  b[1] \in storing' /\ b[2] = slotOf'[b[1]]
    <3>1. b \in pending[u][r] \/ b \in B
      BY Zenon, <1>10
    <3> QED
      BY <1>6, <1>7, <3>1
  <2> QED
    BY Zenon, <2>1, <2>2 DEF PendingInv, InPlace
<1>12. ASSUME NEW k \in Keys
       PROVE  /\ StoresOf(k)' = StoresOf(k) /\ PromotionsOf(k)' = PromotionsOf(k)
              /\ QueuedOf(k)' = IF k = n THEN QueuedOf(k) \cup {<<t, looking>>} ELSE QueuedOf(k)
  <2>1. StoresOf(k)' = StoresOf(k) /\ PromotionsOf(k)' = PromotionsOf(k)
    BY Zenon, <1>1 DEF StoresOf, PromotionsOf
  <2>2. ASSUME NEW q \in Tiers \X Reqs
        PROVE  k \in KeysOf(pending'[q[1]][q[2]])
               <=> k \in KeysOf(pending[q[1]][q[2]]) \/ (k = n /\ q = <<t, looking>>)
    <3>1. q[1] \in Tiers /\ q[2] \in Reqs /\ (q = <<t, looking>> <=> q[1] = t /\ q[2] = looking)
      BY <1>3
    <3>2. k \in KeysOf(pending[q[1]][q[2]] \cup B)
          <=> k \in KeysOf(pending[q[1]][q[2]]) \/ k \in KeysOf(B)
      BY DEF KeysOf
    <3> QED
      BY <1>7, <1>10, <3>1, <3>2
  <2>3. <<t, looking>> \in Tiers \X Reqs
    BY <1>3
  <2> QED
    BY <2>1, <2>2, <2>3 DEF QueuedOf
<1>13. WritersInv'
  <2> SUFFICES ASSUME NEW k \in Keys
               PROVE  IF k \in storing' THEN OneWriter(StoresOf(k), QueuedOf(k)', PromotionsOf(k))
                      ELSE StoresOf(k) = {} /\ QueuedOf(k)' = {} /\ PromotionsOf(k) = {}
    BY <1>12 DEF WritersInv, OneWriter
  <2>1. CASE k = n
    <3>1. StoresOf(k) = {} /\ QueuedOf(k) = {} /\ PromotionsOf(k) = {}
      BY <1>1, <2>1 DEF TierInv, WritersInv
    <3>2. QueuedOf(k)' = {<<t, looking>>}
      BY <1>12, <2>1, <3>1
    <3> QED
      BY Zenon, <1>5, <2>1, <3>1, <3>2 DEF OneWriter
  <2>2. CASE k # n
    BY <1>5, <1>12, <2>2 DEF TierInv, WritersInv
  <2> QED
    BY Zenon, <2>1, <2>2
<1> QED
  BY Zenon, <1>5, <1>6, <1>8, <1>9, <1>11, <1>13 DEF TierInv

LEMMA PrepareStoreStep ==
  ASSUME TierInv, UnreadInv, NEW r \in Reqs, PrepareStore(r)
  PROVE  TierInv'
<1> DEFINE W == Wanted(r)
<1>1. /\ phase = "stores" /\ status[r] = "running" /\ status' = [status EXCEPT ![r] = "stored"]
      /\ UNCHANGED <<phase, looking, hit, deferred, pending, jobs, files>>
  BY DEF PrepareStore, lookup, tiering
<1>2. LookUpInv /\ PrimaryInv /\ GpuJobsInv /\ PendingInv /\ looking = None
  BY Zenon, <1>1 DEF TierInv, LookUpInv
<1>3. \A g \in gpuJobs : g.req \in Reqs
  BY <1>2 DEF GpuJobsInv, GpuJobs
<1>4. CASE W = {}
  <2>1. UNCHANGED <<primary, gpuJobs, pending, jobs, memory>>
    BY Zenon, <1>1, <1>4 DEF PrepareStore, memory
  <2>2. LookUpInv'
    BY Zenon, <1>1, <1>2, <1>3, <2>1 DEF LookUpInv
  <2> QED
    BY <2>1, <2>2, Frame
<1>5. CASE W # {}
  <2> DEFINE B == Blocks(W, slotOf')
             g == GpuJob(r, TRUE, B)
  <2>1. Allocate(W, Range(Prompt[r])) /\ gpuJobs' = gpuJobs \cup {g}
    BY Zenon, <1>5 DEF PrepareStore
  <2>2. W \in SUBSET Keys /\ W \cap (storing \cup stored) = {}
    BY PromptKeys DEF Wanted
  <2>3. g.store = TRUE /\ g.req = r /\ g.blocks = B /\ g = [req |-> r, store |-> TRUE, blocks |-> B]
    BY DEF GpuJob
  <2> HIDE DEF W, g
  <2>4. /\ storing' = storing \cup W /\ PrimaryInv'
    BY Zenon, <2>1, <2>2, AllocateSlots
  <2>5. /\ JobsInv' /\ MemoryInv'
        /\ \A h \in gpuJobs : \A b \in h.blocks :
               /\ b[1] \in IF h.store THEN storing' ELSE stored'
               /\ b[2] = slotOf'[b[1]]
        /\ \A u \in Tiers, q \in Reqs : \A b \in pending[u][q] :
               b[1] \in storing' /\ b[2] = slotOf'[b[1]]
    BY Zenon, <1>1, <2>1, <2>2, <2>3, AllocateKeepsJobs
  <2>6. /\ KeysOf(B) = W /\ B \subseteq Pairs
        /\ \A b \in B : b[1] \in storing' /\ b[2] = slotOf'[b[1]]
    <3>1. \A k \in W : k \in storing' /\ slotOf'[k] \in CpuSlots /\ k \in Keys
      BY Zenon, <2>2, <2>4 DEF PrimaryInv
    <3>2. KeysOf(B) = W /\ \A b \in B : b[1] \in W /\ b[2] = slotOf'[b[1]]
      BY BlocksAre
    <3>3. B \subseteq Pairs
      BY <3>1 DEF Blocks, Pairs
    <3> QED
      BY <3>1, <3>2, <3>3
  <2> HIDE DEF B
  <2>7. g \in GpuJobs
    BY <2>3, <2>6 DEF GpuJobs
  <2>8. GpuJobsInv'
    <3>1. gpuJobs' \subseteq GpuJobs
      BY <1>2, <2>1, <2>7 DEF GpuJobsInv
    <3>2. \A h \in gpuJobs' : h \in gpuJobs \/ h = g
      BY <2>1
    <3> QED
      BY Zenon, <2>3, <2>5, <2>6, <3>1, <3>2 DEF GpuJobsInv, InPlace
  <2>9. PendingInv'
    BY Zenon, <1>1, <1>2, <2>5 DEF PendingInv, InPlace
  <2>10. LookUpInv'
    BY Zenon, <1>1, <1>2, <1>3, <2>1, <2>3 DEF LookUpInv
  <2>11. ASSUME NEW k \in Keys
         PROVE  /\ StoresOf(k)' = IF k \in W THEN StoresOf(k) \cup {g} ELSE StoresOf(k)
                /\ PromotionsOf(k)' = PromotionsOf(k) /\ QueuedOf(k)' = QueuedOf(k)
    BY Zenon, <1>1, <2>1, <2>3, <2>6 DEF StoresOf, PromotionsOf, QueuedOf
  <2>12. WritersInv'
    <3> SUFFICES ASSUME NEW k \in Keys
                 PROVE  IF k \in storing' THEN OneWriter(StoresOf(k)', QueuedOf(k), PromotionsOf(k))
                        ELSE StoresOf(k)' = {} /\ QueuedOf(k) = {} /\ PromotionsOf(k) = {}
      BY Zenon, <2>11 DEF WritersInv, OneWriter
    <3>1. CASE k \in W
      <4>1. StoresOf(k) = {} /\ QueuedOf(k) = {} /\ PromotionsOf(k) = {}
        BY <2>2, <3>1 DEF TierInv, WritersInv
      <4>2. StoresOf(k)' = {g}
        BY Zenon, <2>11, <3>1, <4>1
      <4> QED
        BY <2>4, <3>1, <4>1, <4>2 DEF OneWriter
    <3>2. CASE k \notin W
      BY <2>4, <2>11, <3>2 DEF TierInv, WritersInv
    <3> QED
      BY <3>1, <3>2
  <2> QED
    BY <2>4, <2>5, <2>8, <2>9, <2>10, <2>12 DEF TierInv
<1> QED
  BY <1>4, <1>5

-----------------------------------------------------------------------------
LEMMA TierStep == TierInv /\ UnreadInv /\ [Next]_vars => TierInv'
<1> SUFFICES ASSUME TierInv, UnreadInv, [Next]_vars PROVE TierInv'
  OBVIOUS
<1>1. CASE Advance
  BY Zenon, <1>1, EngineSteps, PollStep, LookUpPrimaryStep, EndLookUpStep, TakeEventsStep, PromoteStep
     DEF Advance
<1>2. CASE Choices
  BY <1>2, RequestSteps, PrepareStoreStep, CompleteLoadStep, CompleteStoreStep, FailStoreStep
     DEF Choices
<1>3. CASE Restart
  BY <1>3, RestartStep
<1>4. ASSUME NEW t \in Tiers, NEW promotion \in BOOLEAN, NEW k \in Keys, Threads(t, promotion, k)
      PROVE  TierInv'
  BY <1>4, ThreadsStep
<1>5. CASE UNCHANGED vars
  <2>1. UNCHANGED <<primary, gpuJobs, pending, jobs, memory>>
    BY Zenon, <1>5 DEF vars, tiering
  <2>2. LookUpInv'
    BY <1>5 DEF vars, engine, lookup, primary, TierInv, LookUpInv
  <2> QED
    BY <2>1, <2>2, Frame
<1> QED
  BY <1>1, <1>2, <1>3, <1>4, <1>5 DEF Next

-----------------------------------------------------------------------------
(***************************************************************************)
(* TieringOffloadingManager for every number of requests, slots and tiers: *)
(* the pins of a block are counted, so that none is evicted while it is    *)
(* read, and with this TierInv is inductive.                               *)
(***************************************************************************)
\* readers counts the loads and cascades of a key, of which each tier has one at most.
ReadersInv ==
    /\ IsFiniteSet(gpuJobs) /\ IsFiniteSet(jobs) /\ readers \in [Keys -> Int]
    /\ \A k \in Keys : readers[k] = Cardinality(LoadsOf(k)) + Cardinality(CascadesOf(k))
    /\ \A k \in Keys : \A i, j \in CascadesOf(k) : i.tier = j.tier => i = j

LEMMA ReadersFinite ==
  ASSUME ReadersInv, NEW k
  PROVE  /\ IsFiniteSet(LoadsOf(k)) /\ Cardinality(LoadsOf(k)) \in Nat
         /\ IsFiniteSet(CascadesOf(k)) /\ Cardinality(CascadesOf(k)) \in Nat
<1>1. LoadsOf(k) \subseteq gpuJobs /\ CascadesOf(k) \subseteq jobs
  BY DEF LoadsOf, CascadesOf
<1>2. IsFiniteSet(gpuJobs) /\ IsFiniteSet(jobs)
  BY DEF ReadersInv
<1> QED
  BY Zenon, <1>1, <1>2, FS_Subset, FS_CardinalityType

\* A key without readers is in no load and no cascade.
LEMMA UnreadKeys == ReadersInv => UnreadInv
<1> SUFFICES ASSUME ReadersInv, NEW k \in Keys, readers[k] = 0
             PROVE  LoadsOf(k) = {} /\ CascadesOf(k) = {}
  BY DEF UnreadInv
<1>1. Cardinality(LoadsOf(k)) + Cardinality(CascadesOf(k)) = 0
  BY DEF ReadersInv
<1>2. Cardinality(LoadsOf(k)) = 0 /\ Cardinality(CascadesOf(k)) = 0
  BY <1>1, ReadersFinite
<1> QED
  BY <1>2, ReadersFinite, FS_EmptySet

\* The invariants give the second property.
LEMMA InvImpliesPins ==
  ASSUME WritersInv, ReadersInv
  PROVE  EveryPinHasAJob
<1> SUFFICES ASSUME NEW k \in Keys
             PROVE  Cardinality(StoresOf(k)) + Cardinality(Promoting(k))
                    = IF k \in storing THEN 1 ELSE 0
  BY DEF EveryPinHasAJob, LoadsOf, CascadesOf, StoresOf, ReadersInv
<1>1. Promoting(k) = QueuedOf(k) \cup PromotionsOf(k)
  BY DEF Promoting, QueuedOf, PromotionsOf
<1>2. Cardinality({}) = 0 /\ \A x : Cardinality({x}) = 1
  BY Zenon, FS_EmptySet, FS_Singleton
<1>3. CASE k \in storing
  <2>1. OneWriter(StoresOf(k), QueuedOf(k), PromotionsOf(k))
    BY <1>3 DEF WritersInv
  <2>2. CASE StoresOf(k) = {}
    <3>1. PICK x : Promoting(k) = {x}
      BY Zenon, <1>1, <2>1, <2>2 DEF OneWriter
    <3>2. Cardinality(StoresOf(k)) = 0 /\ Cardinality(Promoting(k)) = 1
      BY <1>2, <2>2, <3>1, Zenon
    <3> QED
      BY <1>3, <3>2
  <2>3. CASE StoresOf(k) # {}
    <3>1. PICK x : StoresOf(k) = {x} /\ Promoting(k) = {}
      BY <1>1, <2>1, <2>3 DEF OneWriter
    <3>2. Cardinality(StoresOf(k)) = 1 /\ Cardinality(Promoting(k)) = 0
      BY <1>2, <3>1, Zenon
    <3> QED
      BY <1>3, <3>2
  <2> QED
    BY <2>2, <2>3
<1>4. CASE k \notin storing
  <2>1. StoresOf(k) = {} /\ Promoting(k) = {}
    BY <1>1, <1>4 DEF WritersInv
  <2> QED
    BY <1>2, <1>4, <2>1
<1> QED
  BY Zenon, <1>3, <1>4

-----------------------------------------------------------------------------
\* A step that starts and ends no read.
LEMMA SameReaders ==
  ASSUME ReadersInv, UNCHANGED readers, IsFiniteSet(gpuJobs'), IsFiniteSet(jobs'),
         \A k \in Keys : LoadsOf(k)' = LoadsOf(k) /\ CascadesOf(k)' = CascadesOf(k)
  PROVE  ReadersInv'
  BY Zenon DEF ReadersInv

LEMMA SameJobs ==
  ASSUME ReadersInv, UNCHANGED <<readers, gpuJobs, jobs>>
  PROVE  ReadersInv'
<1>1. \A k \in Keys : LoadsOf(k)' = LoadsOf(k) /\ CascadesOf(k)' = CascadesOf(k)
  BY DEF LoadsOf, CascadesOf
<1> QED
  BY <1>1, SameReaders DEF ReadersInv

\* A step of a thread replaces a job by one of the same tier with the same keys.
LEMMA ThreadsCount ==
  ASSUME ReadersInv, NEW j \in jobs, NEW i, Becomes(j, i), i.tier = j.tier,
         i.promotion = j.promotion, i.keys = j.keys, UNCHANGED <<readers, gpuJobs>>
  PROVE  ReadersInv'
<1>1. jobs' = (jobs \ {j}) \cup {i}
  BY DEF Becomes
<1>2. IsFiniteSet(gpuJobs') /\ IsFiniteSet(jobs') /\ readers' \in [Keys -> Int]
  BY Zenon, <1>1, FS_AddElement, FS_RemoveElement DEF ReadersInv
<1>3. ASSUME NEW k \in Keys
      PROVE  /\ LoadsOf(k)' = LoadsOf(k)
             /\ CascadesOf(k)' = IF j \in CascadesOf(k) THEN (CascadesOf(k) \ {j}) \cup {i}
                                 ELSE CascadesOf(k)
  BY Zenon, <1>1 DEF LoadsOf, CascadesOf
<1>4. ASSUME NEW k \in Keys
      PROVE  Cardinality(CascadesOf(k)') = Cardinality(CascadesOf(k))
  <2>1. CASE j \in CascadesOf(k)
    <3> DEFINE C == CascadesOf(k) \ {j}
    <3>1. i \notin C
      BY <2>1 DEF ReadersInv, CascadesOf
    <3>2. IsFiniteSet(CascadesOf(k)) /\ Cardinality(CascadesOf(k)) \in Nat
      BY Zenon, ReadersFinite
    <3>3. IsFiniteSet(C) /\ Cardinality(C) = Cardinality(CascadesOf(k)) - 1
      BY <2>1, <3>2, FS_RemoveElement
    <3>4. Cardinality(C \cup {i}) = Cardinality(C) + 1
      BY Zenon, <3>1, <3>3, FS_AddElement
    <3>5. CascadesOf(k)' = C \cup {i}
      BY Zenon, <1>3, <2>1
    <3> QED
      BY <3>2, <3>3, <3>4, <3>5
  <2> QED
    BY <1>3, <2>1
<1>5. \A k \in Keys : readers'[k] = Cardinality(LoadsOf(k)') + Cardinality(CascadesOf(k)')
  BY Zenon, <1>3, <1>4 DEF ReadersInv
<1>6. ASSUME NEW k \in Keys, NEW x \in CascadesOf(k)', NEW y \in CascadesOf(k)',
             x.tier = y.tier
      PROVE  x = y
  BY <1>3, <1>6 DEF ReadersInv
<1> QED
  BY Zenon, <1>2, <1>5, <1>6 DEF ReadersInv

\* _process_finished_jobs: complete_read for the cascades that have ended.
LEMMA PollCount ==
  ASSUME ReadersInv, Poll
  PROVE  ReadersInv'
<1> DEFINE done == {j \in jobs : Finished(j)}
<1>1. /\ readers' = [k \in Keys |->
             readers[k] - Cardinality({j \in done : ~j.promotion /\ k \in j.keys})]
      /\ jobs' = jobs \ done /\ gpuJobs' = gpuJobs
  BY DEF Poll
<1> HIDE DEF done
<1>2. ASSUME NEW k \in Keys
      PROVE  /\ LoadsOf(k)' = LoadsOf(k) /\ CascadesOf(k)' = CascadesOf(k) \ done
             /\ {j \in done : ~j.promotion /\ k \in j.keys} = CascadesOf(k) \cap done
  BY Zenon, <1>1 DEF LoadsOf, CascadesOf, done
<1>3. ASSUME NEW k \in Keys
      PROVE  /\ readers'[k] \in Int
             /\ readers'[k] = Cardinality(LoadsOf(k)) + Cardinality(CascadesOf(k) \ done)
  <2>1. /\ IsFiniteSet(CascadesOf(k)) /\ Cardinality(CascadesOf(k)) \in Nat
        /\ Cardinality(LoadsOf(k)) \in Nat
    BY ReadersFinite
  <2>2. Cardinality(CascadesOf(k) \ done)
        = Cardinality(CascadesOf(k)) - Cardinality(CascadesOf(k) \cap done)
    BY Zenon, <2>1, FS_Difference
  <2>3. Cardinality(CascadesOf(k) \cap done) \in Nat
    BY <2>1, FS_Subset, FS_CardinalityType
  <2>4. readers[k] = Cardinality(LoadsOf(k)) + Cardinality(CascadesOf(k))
    BY Zenon DEF ReadersInv
  <2>5. readers'[k] = readers[k] - Cardinality(CascadesOf(k) \cap done)
    BY <1>1, <1>2
  <2> QED
    BY <2>1, <2>2, <2>3, <2>4, <2>5
<1>4. readers' \in [Keys -> Int]
  BY Zenon, <1>1, <1>3
<1>5. IsFiniteSet(gpuJobs') /\ IsFiniteSet(jobs')
  BY <1>1, FS_Subset DEF ReadersInv
<1>6. \A k \in Keys : readers'[k] = Cardinality(LoadsOf(k)') + Cardinality(CascadesOf(k)')
  BY Zenon, <1>2, <1>3
<1>7. \A k \in Keys : \A i, j \in CascadesOf(k)' : i.tier = j.tier => i = j
  BY <1>2 DEF ReadersInv
<1> QED
  BY Zenon, <1>4, <1>5, <1>6, <1>7 DEF ReadersInv

-----------------------------------------------------------------------------
(* Loads *)

\* prepare_load and complete_load change the readers of the keys of one load.
LEMMA LoadsCount ==
  ASSUME ReadersInv, UNCHANGED jobs, IsFiniteSet(gpuJobs'), readers' \in [Keys -> Int],
         \A k \in Keys : /\ Cardinality(LoadsOf(k)') \in Nat
                         /\ readers'[k] - readers[k]
                            = Cardinality(LoadsOf(k)') - Cardinality(LoadsOf(k))
  PROVE  ReadersInv'
<1>1. \A k \in Keys : CascadesOf(k)' = CascadesOf(k)
  BY DEF CascadesOf
<1>2. ASSUME NEW k \in Keys
      PROVE  readers'[k] = Cardinality(LoadsOf(k)') + Cardinality(CascadesOf(k))
  <2>1. Cardinality(LoadsOf(k)) \in Nat /\ Cardinality(CascadesOf(k)) \in Nat
    BY ReadersFinite
  <2>2. readers[k] = Cardinality(LoadsOf(k)) + Cardinality(CascadesOf(k)) /\ readers'[k] \in Int
    BY DEF ReadersInv
  <2> QED
    BY <2>1, <2>2
<1> QED
  BY <1>1, <1>2 DEF ReadersInv

LEMMA CompleteLoadCount ==
  ASSUME ReadersInv, NEW g \in gpuJobs, CompleteLoad(g)
  PROVE  ReadersInv'
<1>1. /\ ~g.store /\ gpuJobs' = gpuJobs \ {g} /\ jobs' = jobs
      /\ readers' = [k \in Keys |-> IF k \in KeysOf(g.blocks) THEN readers[k] - 1
                                    ELSE readers[k]]
  BY DEF CompleteLoad, Cache!Done, tiering
<1>2. IsFiniteSet(gpuJobs') /\ readers' \in [Keys -> Int] /\ readers \in [Keys -> Int]
  BY <1>1, FS_RemoveElement DEF ReadersInv
<1>3. ASSUME NEW k \in Keys
      PROVE  /\ Cardinality(LoadsOf(k)') \in Nat
             /\ readers'[k] - readers[k] = Cardinality(LoadsOf(k)') - Cardinality(LoadsOf(k))
  <2>1. IsFiniteSet(LoadsOf(k)) /\ Cardinality(LoadsOf(k)) \in Nat /\ readers[k] \in Int
    BY Zenon, <1>2, ReadersFinite
  <2>2. CASE k \in KeysOf(g.blocks)
    <3>1. LoadsOf(k)' = LoadsOf(k) \ {g} /\ g \in LoadsOf(k)
      BY <1>1, <2>2 DEF LoadsOf
    <3>2. Cardinality(LoadsOf(k)') = Cardinality(LoadsOf(k)) - 1 /\ IsFiniteSet(LoadsOf(k)')
      BY <2>1, <3>1, FS_RemoveElement
    <3>3. Cardinality(LoadsOf(k)') \in Nat
      BY <3>2, FS_CardinalityType
    <3>4. readers'[k] = readers[k] - 1
      BY Zenon, <1>1, <2>2
    <3> QED
      BY <2>1, <3>2, <3>3, <3>4
  <2>3. CASE k \notin KeysOf(g.blocks)
    <3>1. LoadsOf(k)' = LoadsOf(k) /\ readers'[k] = readers[k]
      BY <1>1, <2>3 DEF LoadsOf
    <3> QED
      BY <2>1, <3>1
  <2> QED
    BY <2>2, <2>3
<1> QED
  BY Zenon, <1>1, <1>2, <1>3, LoadsCount

LEMMA EndLookUpCount ==
  ASSUME LookUpInv, ReadersInv, EndLookUp
  PROVE  ReadersInv'
<1>1. CASE deferred \/ hit = 0
  BY Zenon, <1>1, SameJobs DEF EndLookUp, tiering
<1>2. CASE ~deferred /\ hit # 0
  <2> DEFINE g == GpuJob(looking, FALSE, Blocks(Hits, slotOf))
  <2>1. /\ looking # None /\ gpuJobs' = gpuJobs \cup {g} /\ jobs' = jobs
        /\ readers' = [k \in Keys |-> IF k \in Hits THEN readers[k] + 1 ELSE readers[k]]
    BY <1>2, Zenon DEF EndLookUp, Cache!Read, tiering
  <2>2. KeysOf(Blocks(Hits, slotOf)) = Hits
    BY BlocksAre
  <2>3. ~g.store /\ KeysOf(g.blocks) = Hits /\ g.req = looking
    BY Zenon, <2>2 DEF GpuJob
  <2> HIDE DEF g
  <2>4. g \notin gpuJobs
    BY <2>1, <2>3 DEF LookUpInv
  <2>5. IsFiniteSet(gpuJobs') /\ readers' \in [Keys -> Int] /\ readers \in [Keys -> Int]
    BY <2>1, FS_AddElement DEF ReadersInv
  <2>6. ASSUME NEW k \in Keys
        PROVE  /\ Cardinality(LoadsOf(k)') \in Nat
               /\ readers'[k] - readers[k] = Cardinality(LoadsOf(k)') - Cardinality(LoadsOf(k))
    <3>1. IsFiniteSet(LoadsOf(k)) /\ Cardinality(LoadsOf(k)) \in Nat /\ readers[k] \in Int
      BY Zenon, <2>5, ReadersFinite
    <3>2. CASE k \in Hits
      <4>1. LoadsOf(k)' = LoadsOf(k) \cup {g} /\ g \notin LoadsOf(k)
        BY Zenon, <2>1, <2>3, <2>4, <3>2 DEF LoadsOf
      <4>2. Cardinality(LoadsOf(k)') = Cardinality(LoadsOf(k)) + 1
        BY Zenon, <3>1, <4>1, FS_AddElement
      <4>3. readers'[k] = readers[k] + 1
        BY <2>1, <3>2
      <4> QED
        BY <3>1, <4>2, <4>3
    <3>3. CASE k \notin Hits
      <4>1. LoadsOf(k)' = LoadsOf(k) /\ readers'[k] = readers[k]
        BY <2>1, <2>3, <3>3 DEF LoadsOf
      <4> QED
        BY <3>1, <4>1
    <3> QED
      BY <3>2, <3>3
  <2> QED
    BY <2>1, <2>5, <2>6, LoadsCount
<1> QED
  BY <1>1, <1>2

-----------------------------------------------------------------------------
(* Stores *)

\* There is one cascade for each tier.
LEMMA CascadeCount ==
  ASSUME NEW B
  PROVE  LET C == {Job(t, FALSE, B) : t \in Tiers} IN
         IsFiniteSet(C) /\ Cardinality(C) = NumTiers
<1> DEFINE C == {Job(t, FALSE, B) : t \in Tiers}
           f == [t \in Tiers |-> Job(t, FALSE, B)]
<1>1. \A t \in Tiers : f[t] \in C /\ f[t].tier = t
  BY Zenon DEF Job
<1>2. \A c \in C : \E t \in Tiers : f[t] = c
  BY Zenon
<1>3. f \in [Tiers -> C]
  BY Zenon
<1> HIDE DEF f, C
<1>4. f \in Bijection(Tiers, C)
  BY <1>1, <1>2, <1>3 DEF Bijection, Injection, Surjection, IsInjective
<1>5. IsFiniteSet(Tiers) /\ Cardinality(Tiers) = NumTiers
  <2>1. /\ IsFiniteSet(1 .. NumTiers)
        /\ Cardinality(1 .. NumTiers) = IF 1 > NumTiers THEN 0 ELSE NumTiers - 1 + 1
    BY TieringAssumption, FS_Interval
  <2> QED
    BY <2>1, TieringAssumption DEF Tiers
<1>6. IsFiniteSet(C) /\ Cardinality(C) = NumTiers
  BY Zenon, <1>4, <1>5, FS_Bijection DEF ExistsBijection
<1> QED
  BY <1>6 DEF C

LEMMA CompleteStoreCount ==
  ASSUME TierInv, ReadersInv, NEW g \in gpuJobs, CompleteStore(g)
  PROVE  ReadersInv'
<1> DEFINE K == KeysOf(g.blocks)
           C == {Job(t, FALSE, Blocks(K, slotOf)) : t \in Tiers}
<1>1. /\ g.store /\ jobs' = jobs \cup C /\ gpuJobs' = gpuJobs \ {g}
      /\ readers' = [k \in Keys |-> IF k \in K THEN NumTiers ELSE readers[k]]
  BY Zenon DEF CompleteStore, Pinned
<1>2. \A k \in K : k \in Keys /\ LoadsOf(k) = {} /\ CascadesOf(k) = {}
  BY Zenon, <1>1, StoreKeys
<1>3. IsFiniteSet(C) /\ Cardinality(C) = NumTiers
  BY CascadeCount, Zenon
<1>4. ASSUME NEW t \in Tiers, NEW c, c = Job(t, FALSE, Blocks(K, slotOf))
      PROVE  c.keys = K /\ ~c.promotion /\ c.tier = t
  BY Zenon, <1>4, BlocksAre DEF Job
<1>5. \A c \in C : \E t \in Tiers : c = Job(t, FALSE, Blocks(K, slotOf))
  BY Zenon
<1> HIDE DEF K, C
<1>6. ASSUME NEW c \in C
      PROVE  c.keys = K /\ ~c.promotion /\ c = Job(c.tier, FALSE, Blocks(K, slotOf))
  <2>1. PICK t \in Tiers : c = Job(t, FALSE, Blocks(K, slotOf))
    BY Zenon, <1>5
  <2> QED
    BY Zenon, <1>4, <2>1
<1>7. \A c, d \in C : c.tier = d.tier => c = d
  BY <1>6, Zenon
<1>8. ASSUME NEW k \in Keys
      PROVE  /\ LoadsOf(k)' = LoadsOf(k)
             /\ CascadesOf(k)' = IF k \in K THEN C ELSE CascadesOf(k)
  <2>1. LoadsOf(k)' = LoadsOf(k)
    BY <1>1 DEF LoadsOf
  <2>2. CascadesOf(k)' = CascadesOf(k) \cup {c \in C : k \in K}
    BY Zenon, <1>1, <1>6 DEF CascadesOf
  <2> QED
    BY <1>2, <2>1, <2>2
<1>9. IsFiniteSet(gpuJobs') /\ IsFiniteSet(jobs') /\ readers' \in [Keys -> Int]
  <2>1. IsFiniteSet(gpuJobs') /\ IsFiniteSet(jobs')
    BY Zenon, <1>1, <1>3, FS_RemoveElement, FS_Union DEF ReadersInv
  <2> QED
    BY <1>1, <2>1, TieringAssumption DEF ReadersInv
<1>10. ASSUME NEW k \in Keys
       PROVE  readers'[k] = Cardinality(LoadsOf(k)') + Cardinality(CascadesOf(k)')
  <2>1. CASE k \in K
    <3>1. readers'[k] = NumTiers /\ LoadsOf(k)' = {} /\ CascadesOf(k)' = C
      BY Zenon, <1>1, <1>2, <1>8, <2>1
    <3>2. Cardinality(LoadsOf(k)') = 0 /\ Cardinality(CascadesOf(k)') = NumTiers
      BY Zenon, <1>3, <3>1, FS_EmptySet
    <3> QED
      BY <3>1, <3>2, TieringAssumption
  <2>2. CASE k \notin K
    BY Zenon, <1>1, <1>8, <2>2 DEF ReadersInv
  <2> QED
    BY <2>1, <2>2
<1>11. \A k \in Keys : \A i, j \in CascadesOf(k)' : i.tier = j.tier => i = j
  BY <1>7, <1>8 DEF ReadersInv
<1> QED
  BY <1>9, <1>10, <1>11 DEF ReadersInv

\* A store is no reader.
LEMMA StoreCount ==
  ASSUME ReadersInv, NEW g, g.store, UNCHANGED <<readers, jobs>>,
         gpuJobs' = gpuJobs \cup {g} \/ gpuJobs' = gpuJobs \ {g}
  PROVE  ReadersInv'
<1>1. IsFiniteSet(gpuJobs') /\ IsFiniteSet(jobs')
  BY FS_AddElement, FS_RemoveElement DEF ReadersInv
<1>2. \A k \in Keys : LoadsOf(k)' = LoadsOf(k) /\ CascadesOf(k)' = CascadesOf(k)
  BY DEF LoadsOf, CascadesOf
<1> QED
  BY Zenon, <1>1, <1>2, SameReaders

LEMMA PrepareStoreCount ==
  ASSUME ReadersInv, NEW r \in Reqs, PrepareStore(r)
  PROVE  ReadersInv'
<1>1. jobs' = jobs
  BY DEF PrepareStore, tiering
<1>2. CASE Wanted(r) = {}
  BY <1>1, <1>2, SameJobs DEF PrepareStore, primary
<1>3. CASE Wanted(r) # {}
  <2> DEFINE g == GpuJob(r, TRUE, Blocks(Wanted(r), slotOf'))
  <2>1. gpuJobs' = gpuJobs \cup {g} /\ readers' = readers
    BY <1>3, Zenon DEF PrepareStore, Allocate
  <2>2. g.store
    BY DEF GpuJob
  <2> HIDE DEF g
  <2> QED
    BY <1>1, <2>1, <2>2, StoreCount
<1> QED
  BY Zenon, <1>2, <1>3

\* take_events submits promotions, which are no readers.
LEMMA TakeEventsCount ==
  ASSUME ReadersInv, TakeEvents
  PROVE  ReadersInv'
<1> DEFINE Q == {q \in Tiers \X Reqs : pending[q[1]][q[2]] # {}}
           New(q) == Job(q[1], TRUE, pending[q[1]][q[2]])
           f == [q \in Q |-> New(q)]
<1>1. jobs' = jobs \cup Submitted /\ UNCHANGED <<readers, gpuJobs>>
  BY DEF TakeEvents, primary
<1>2. Submitted = {New(q) : q \in Q}
  BY Zenon DEF Submitted
<1>3. \A q \in Q : New(q).promotion
  BY DEF Job
<1>4. IsFiniteSet(Q)
  <2>1. IsFiniteSet(Tiers) /\ IsFiniteSet(Reqs)
    BY TieringAssumption, FS_Interval DEF Tiers
  <2>2. IsFiniteSet(Tiers \X Reqs)
    BY <2>1, FS_Product
  <2> QED
    BY <2>2, FS_Subset
<1>5. f \in Surjection(Q, Submitted)
  BY Zenon, <1>2 DEF Surjection
<1> HIDE DEF New, Q, f
<1>6. IsFiniteSet(gpuJobs') /\ IsFiniteSet(jobs')
  BY Zenon, <1>1, <1>4, <1>5, FS_Surjection, FS_Union DEF ReadersInv
<1>7. \A k \in Keys : LoadsOf(k)' = LoadsOf(k) /\ CascadesOf(k)' = CascadesOf(k)
  BY <1>1, <1>2, <1>3 DEF LoadsOf, CascadesOf
<1> QED
  BY Zenon, <1>1, <1>6, <1>7, SameReaders

LEMMA NoReaders == gpuJobs = {} /\ jobs = {} /\ readers = [k \in Keys |-> 0] => ReadersInv
<1> SUFFICES ASSUME gpuJobs = {}, jobs = {}, readers = [k \in Keys |-> 0] PROVE ReadersInv
  OBVIOUS
<1>1. \A k : LoadsOf(k) = {} /\ CascadesOf(k) = {}
  BY DEF LoadsOf, CascadesOf
<1>2. IsFiniteSet({}) /\ Cardinality({}) = 0
  BY FS_EmptySet
<1> QED
  BY <1>1, <1>2 DEF ReadersInv

-----------------------------------------------------------------------------
LEMMA ReadersStep ==
  ASSUME TierInv, ReadersInv, [Next]_vars
  PROVE  ReadersInv'
<1>1. ASSUME BeginStep \/ LookUpPrimary \/ EndSchedule \/ EndStores
             \/ (\E t \in Tiers : Promote(t))
             \/ (\E r \in Reqs : LookUp(r) \/ Arrive(r) \/ Finish(r)) \/ UNCHANGED vars
      PROVE  ReadersInv'
  <2>1. UNCHANGED <<readers, gpuJobs, jobs>>
    BY Zenon, <1>1 DEF BeginStep, LookUpPrimary, EndSchedule, EndStores, Promote, Allocate, LookUp,
                Arrive, Finish, vars, primary, tiering
  <2> QED
    BY <2>1, SameJobs
<1>2. CASE Advance
  BY Zenon, <1>1, <1>2, PollCount, EndLookUpCount, TakeEventsCount DEF Advance, TierInv
<1>3. ASSUME NEW g \in gpuJobs, FailStore(g)
      PROVE  ReadersInv'
  BY Zenon, <1>3, StoreCount DEF FailStore, tiering
<1>4. CASE Choices
  BY Zenon, <1>1, <1>3, <1>4, PrepareStoreCount, CompleteLoadCount, CompleteStoreCount DEF Choices
<1>5. CASE Restart
  <2>1. gpuJobs' = {} /\ jobs' = {} /\ readers' = [k \in Keys |-> 0]
    BY <1>5 DEF Restart, Cache!Reset
  <2>2. (gpuJobs = {} /\ jobs = {} /\ readers = [k \in Keys |-> 0])' => ReadersInv'
    BY NoReaders, PTL
  <2> QED
    BY <2>1, <2>2
<1>6. ASSUME NEW t \in Tiers, NEW promotion \in BOOLEAN, NEW k \in Keys, Threads(t, promotion, k)
      PROVE  ReadersInv'
  <2>1. PICK j \in jobs : \/ \E b \in j.todo : StoreBlock(j, b) \/ LoadBlock(j, b)
                          \/ \E w \in j.tmp : StoreEnds(j, w)
    BY <1>6 DEF Threads
  <2>2. UNCHANGED <<readers, gpuJobs>> /\ j \in TierJobs
    BY Zenon, <1>6 DEF Threads, primary, TierInv, JobsInv
  <2>3. \E i : Becomes(j, i) /\ i.tier = j.tier /\ i.promotion = j.promotion /\ i.keys = j.keys
    <3> DEFINE Same(i) == i.tier = j.tier /\ i.promotion = j.promotion /\ i.keys = j.keys
    <3>1. ASSUME NEW b \in j.todo, StoreBlock(j, b)
          PROVE  \E i : Becomes(j, i) /\ Same(i)
      <4>1. PICK T, U : Becomes(j, [j EXCEPT !.todo = T, !.tmp = U])
        BY Zenon, <3>1 DEF StoreBlock
      <4>2. Same([j EXCEPT !.todo = T, !.tmp = U])
        BY <2>2 DEF TierJobs
      <4> QED
        BY Zenon, <4>1, <4>2
    <3>2. ASSUME NEW w \in j.tmp, StoreEnds(j, w)
          PROVE  \E i : Becomes(j, i) /\ Same(i)
      <4>1. PICK U : Becomes(j, [j EXCEPT !.tmp = U])
        BY Zenon, <3>2 DEF StoreEnds
      <4>2. Same([j EXCEPT !.tmp = U])
        BY <2>2 DEF TierJobs
      <4> QED
        BY Zenon, <4>1, <4>2
    <3>3. ASSUME NEW b \in j.todo, LoadBlock(j, b)
          PROVE  \E i : Becomes(j, i) /\ Same(i)
      <4>1. PICK T, o : Becomes(j, [j EXCEPT !.todo = T, !.ok = o])
        BY Zenon, <3>3 DEF LoadBlock
      <4>2. Same([j EXCEPT !.todo = T, !.ok = o])
        BY <2>2 DEF TierJobs
      <4> QED
        BY Zenon, <4>1, <4>2
    <3> QED
      BY Zenon, <2>1, <3>1, <3>2, <3>3
  <2> QED
    BY Zenon, <2>2, <2>3, ThreadsCount
<1> QED
  BY <1>1, <1>2, <1>4, <1>5, <1>6 DEF Next

LEMMA TierInvariant == Spec => [](TierInv /\ ReadersInv)
<1>1. Init => TierInv /\ ReadersInv
  BY InitStep, NoReaders DEF Init, Cache!Init
<1>2. TierInv /\ ReadersInv /\ [Next]_vars => TierInv' /\ ReadersInv'
  BY TierStep, UnreadKeys, ReadersStep
<1> QED
  BY <1>1, <1>2, PTL DEF Spec

\* A key that lookup offers is in its slot, a load keeps the slots it reads, and a file
\* holds the KV of its key: with any number of requests, slots and tiers, when jobs fail,
\* end in any order or are cut off by a restart.
THEOREM TiersCorrect == Spec => []TieredKVExact
<1>1. TierInv => TieredKVExact
  BY DEF TierInv, MemoryInv
<1> QED
  BY <1>1, TierInvariant, PTL

\* prepare_read and complete_read are balanced, and so are prepare_write and
\* complete_write: every reader of a CPU block is a load or a cascade in flight, and every
\* block that is being written has exactly one writer.
THEOREM PinsCorrect == Spec => []EveryPinHasAJob
<1>1. TierInv /\ ReadersInv => EveryPinHasAJob
  BY InvImpliesPins DEF TierInv
<1> QED
  BY <1>1, TierInvariant, PTL
=============================================================================
