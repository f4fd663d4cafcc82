----------------------- MODULE SimpleOffloadCopyProofs -----------------------
(***************************************************************************)
(* Every copy of v1/simple_kv_offload, from build_connector_meta to the    *)
(* stream that runs it, keeps the blocks at both of its ends.              *)
(***************************************************************************)
EXTENDS SimpleOffloadBlockProofs

-----------------------------------------------------------------------------
(***************************************************************************)
(* Hashes, continued: loads and tables that end, stores.                   *)
(***************************************************************************)
\* _update_waiting_for_remote_kv caches the loaded blocks; the others of the table carry
\* the same hashes already.
LEMMA PromoteBlocks ==
  ASSUME RefInv, BlocksInv, NEW r \in Reqs, Promote(r)
  PROVE  BlocksInv'
<1>1. /\ status[r] = "loaded" /\ status' = [status EXCEPT ![r] = "ready"]
      /\ gpuHash' = [g \in GpuBlocks |->
                        IF g \in Range(blocks[r])
                        THEN Prompt[r][CHOOSE i \in DOMAIN blocks[r] : blocks[r][i] = g]
                        ELSE gpuHash[g]]
      /\ UNCHANGED <<blocks, cpuHash, cached, toLoad, inStore>>
  BY ZenonT(30) DEF Promote, cpuMap, loads, stores
<1>2. toLoad[r] = {} /\ IsInjective(blocks[r])
  BY Zenon, <1>1 DEF RefInv, TablesInv
<1>3. /\ blocks[r] \in Seq(GpuBlocks) /\ DOMAIN blocks[r] = 1 .. Len(blocks[r])
      /\ Len(blocks[r]) \in Nat
  BY Zenon, TableTyped
<1>4. Row(r, blocks[r])
  BY Zenon DEF BlocksInv, HashesInv
<1>5. ASSUME NEW i \in DOMAIN blocks[r]
      PROVE  /\ gpuHash'[blocks[r][i]] = Prompt[r][i] /\ Prompt[r][i] # None
             /\ gpuHash[blocks[r][i]] # None => gpuHash'[blocks[r][i]] = gpuHash[blocks[r][i]]
  <2>1. blocks[r][i] \in GpuBlocks /\ blocks[r][i] \in Range(blocks[r])
    BY Zenon, TableTyped
  <2>2. (CHOOSE j \in DOMAIN blocks[r] : blocks[r][j] = blocks[r][i]) = i
    BY Zenon, <1>2 DEF IsInjective
  <2>3. gpuHash'[blocks[r][i]] = Prompt[r][i]
    BY ZenonT(30), <1>1, <2>1, <2>2
  <2>4. Prompt[r][i] # None
    <3>1. i <= Len(Prompt[r])
      BY Zenon, <1>4 DEF Row
    <3>2. i \in 1 .. Len(Prompt[r])
      BY <1>3, <3>1, HashType
    <3> QED
      BY Zenon, <3>2, HashType
  <2> QED
    BY Zenon, <1>4, <2>3, <2>4 DEF Row
<1>6. ASSUME NEW g \in GpuBlocks
      PROVE  /\ g \notin Range(blocks[r]) => gpuHash'[g] = gpuHash[g]
             /\ gpuHash[g] # None => gpuHash'[g] = gpuHash[g]
             /\ gpuHash'[g] = None => gpuHash[g] = None /\ g \notin Range(blocks[r])
  <2>1. g \notin Range(blocks[r]) => gpuHash'[g] = gpuHash[g]
    BY ZenonT(30), <1>1
  <2>2. CASE g \in Range(blocks[r])
    <3>1. PICK i \in DOMAIN blocks[r] : g = blocks[r][i]
      BY Zenon, <2>2, TableTyped
    <3> QED
      BY Zenon, <1>5, <2>2, <3>1
  <2> QED
    BY Zenon, <2>1, <2>2
<1>7. LoadsInv'
  <2> SUFFICES ASSUME NEW q \in Reqs, NEW p \in toLoad[q]
               PROVE  p[1] \in cached /\ gpuHash'[p[2]] = None /\ p[2] \in Range(blocks[q])
    BY ZenonT(30), <1>1 DEF LoadsInv
  <2>1. /\ p[1] \in cached /\ gpuHash[p[2]] = None /\ p[2] \in Range(blocks[q])
        /\ p[2] \in GpuBlocks /\ q # r
    <3>1. p[1] \in cached /\ gpuHash[p[2]] = None /\ p[2] \in Range(blocks[q])
      BY Zenon DEF BlocksInv, LoadsInv
    <3> QED
      BY Zenon, <1>2, <3>1, LoadTyped
  <2>2. p[2] \notin Range(blocks[r])
    BY Zenon, <2>1 DEF BlocksInv, HashesInv
  <2> QED
    BY Zenon, <1>6, <2>1, <2>2
<1>8. StoresInv'
  <2>1. \A t \in inStore : gpuHash'[t[2]] = gpuHash[t[2]]
    BY Zenon, <1>6, StoreTyped DEF BlocksInv, StoresInv
  <2> QED
    BY ZenonT(30), <1>1, <2>1 DEF BlocksInv, StoresInv
<1>9. ASSUME NEW q \in Reqs PROVE Row(q, blocks[q])'
  <2>1. CASE q = r
    <3>1. ASSUME NEW i \in DOMAIN blocks[r]
          PROVE  i <= Len(Prompt[r]) /\ gpuHash'[blocks[r][i]] = Prompt[r][i]
      BY Zenon, <1>4, <1>5 DEF Row
    <3> QED
      BY Zenon, <1>1, <2>1, <3>1 DEF Row
  <2>2. CASE q # r
    <3>1. status'[q] = status[q] /\ Row(q, blocks[q])
      BY Zenon, <1>1, <2>2, RefTyped, Replaced DEF BlocksInv, HashesInv
    <3>2. ASSUME NEW i \in DOMAIN blocks[q]
          PROVE  /\ gpuHash'[blocks[q][i]] \in {None, Prompt[q][i]} /\ i <= Len(Prompt[q])
                 /\ status[q] \in {"running", "ready"} => gpuHash'[blocks[q][i]] = Prompt[q][i]
      <4>1. blocks[q][i] \in GpuBlocks /\ blocks[q][i] \in Range(blocks[q])
        BY Zenon, TableTyped
      <4>2. gpuHash[blocks[q][i]] = None => blocks[q][i] \notin Range(blocks[r])
        BY Zenon, <2>2, <4>1 DEF BlocksInv, HashesInv
      <4>3. gpuHash'[blocks[q][i]] = gpuHash[blocks[q][i]]
        BY ZenonT(30), <1>6, <4>1, <4>2
      <4> QED
        BY ZenonT(30), <3>1, <4>3 DEF Row
    <3> QED
      BY ZenonT(30), <1>1, <3>1, <3>2 DEF Row
  <2> QED
    BY Zenon, <2>1, <2>2
<1>10. ASSUME NEW p \in Reqs, NEW q \in Reqs, NEW g \in Range(blocks[p]),
              g \in Range(blocks[q]), gpuHash'[g] = None
       PROVE  p = q
  <2>1. g \in GpuBlocks
    BY Zenon, TableTyped
  <2> QED
    BY Zenon, <1>6, <1>10, <2>1 DEF BlocksInv, HashesInv
<1>11. HashesInv'
  BY Zenon, <1>1, <1>9, <1>10 DEF HashesInv
<1> QED
  BY Zenon, <1>7, <1>8, <1>11 DEF BlocksInv

\* A table goes.
LEMMA ReleaseBlocks ==
  ASSUME RefInv, BlocksInv, NEW r \in Reqs, toLoad[r] = {}, blocks' = [blocks EXCEPT ![r] = <<>>],
         \A q \in Reqs \ {r} : status'[q] = status[q],
         UNCHANGED <<gpuHash, cpuHash, cached, toLoad, inStore>>
  PROVE  BlocksInv'
<1>1. PICK N \in SUBSET GpuBlocks : N = {}
  BY Zenon
<1>2. Unheld(N) /\ HashKept(N)
  BY <1>1 DEF Unheld, HashKept
<1>3. NewRow(r, <<>>, N)
  BY DEF NewRow
<1>4. PICK B : B = <<>>
  BY Zenon
<1>5. HashesInv'
  BY ZenonT(30), <1>2, <1>3, <1>4, HashesKept
<1>6. StoresInv' /\ LoadsInv'
  BY Zenon, <1>2, <1>4, StoresKept, LoadsKept
<1> QED
  BY Zenon, <1>5, <1>6 DEF BlocksInv

LEMMA PreemptBlocks ==
  ASSUME RefInv, BlocksInv, NEW r \in Reqs, Preempt(r)
  PROVE  BlocksInv'
<1>1. /\ status[r] = "running" /\ status' = [status EXCEPT ![r] = "waiting"]
      /\ blocks' = [blocks EXCEPT ![r] = <<>>]
      /\ UNCHANGED <<gpuHash, cpuHash, cached, toLoad, inStore>>
  BY DEF Preempt, cpuMap, loads
<1>2. toLoad[r] = {} /\ \A q \in Reqs \ {r} : status'[q] = status[q]
  <2>1. toLoad[r] = {}
    BY Zenon, <1>1 DEF RefInv, TablesInv
  <2> QED
    BY Zenon, <1>1, <2>1, RefTyped, Replaced
<1> QED
  BY Zenon, <1>1, <1>2, ReleaseBlocks

LEMMA FinishBlocks ==
  ASSUME RefInv, BlocksInv, NEW r \in Reqs, Finish(r)
  PROVE  BlocksInv'
<1>1. /\ status' = [status EXCEPT ![r] = "finished"]
      /\ UNCHANGED <<gpuHash, cpuHash, cached, toLoad, inStore>>
  BY Zenon DEF Finish, cpuMap
<1>2. status'[r] = "finished" /\ \A q \in Reqs \ {r} : status'[q] = status[q]
  BY Zenon, <1>1, RefTyped, Replaced
<1>3. CASE toLoad[r] = {}
  <2>1. blocks' = [blocks EXCEPT ![r] = <<>>]
    BY Zenon, <1>3 DEF Finish
  <2> QED
    BY Zenon, <1>1, <1>2, <1>3, <2>1, ReleaseBlocks
<1>4. CASE toLoad[r] # {}
  <2>1. blocks' = blocks
    BY ZenonT(30), <1>4 DEF Finish
  <2>2. LoadsInv' /\ StoresInv'
    BY ZenonT(30), <1>1, <2>1 DEF BlocksInv, LoadsInv, StoresInv
  <2>3. HashesInv'
    BY Zenon, <1>1, <1>2, <2>1 DEF BlocksInv, HashesInv, Row
  <2> QED
    BY Zenon, <2>2, <2>3 DEF BlocksInv
<1> QED
  BY Zenon, <1>3, <1>4


\* A store stamps and takes CPU blocks that nobody holds.
LEMMA StoreBlocks ==
  ASSUME RefInv, BlocksInv, NEW n \in Nat, NEW src \in [1 .. n -> GpuBlocks], IsInjective(src),
         Len(src) = n, \A i \in 1 .. n : gpuHash[src[i]] # None, Store(src), ctr["store"] \in Nat,
         UNCHANGED <<status, blocks, toLoad, gpuHash>>
  PROVE  BlocksInv' /\ inStore \subseteq inStore'
<1>0. DOMAIN src = 1 .. n
  BY Zenon
<1>1. PICK dst \in NewBlocks(cpuRef, cpuFresh, {}, n) :
        /\ inStore' = inStore \cup {<<ctr["store"], src[i], dst[i]>> : i \in 1 .. n}
        /\ cached' = cached \ Range(dst)
        /\ cpuHash' = [c \in CpuBlocks |->
                          IF c \in Range(dst)
                          THEN gpuHash[src[CHOOSE i \in DOMAIN dst : dst[i] = c]]
                          ELSE cpuHash[c]]
  BY Zenon, <1>0 DEF Store
<1>2. /\ dst \in [1 .. n -> CpuBlocks] /\ IsInjective(dst)
      /\ \A c \in Range(dst) : Pins(c) = {} /\ CpuLoads(c) = {} /\ CpuStores(c) = {}
  <2>1. PICK S : S = {}
    BY ZenonT(30)
  <2> QED
    BY <2>1, NewCpu
<1>3. PICK e \in Nat : e = ctr["store"]
  BY Zenon
<1>4. PICK N : N = Triples(e, src, dst, n)
  BY Zenon
<1>5. Paired(N, e, src, dst, n)
  BY Zenon, <1>2, <1>4, NewTriples
<1>6. inStore' = inStore \cup N
  BY ZenonT(30), <1>1, <1>3, <1>4 DEF Triples
<1>7. N \subseteq Nat \X GpuBlocks \X CpuBlocks
  <2>1. ASSUME NEW i \in 1 .. n PROVE <<e, src[i], dst[i]>> \in Nat \X GpuBlocks \X CpuBlocks
    BY <1>2
  <2> QED
    BY Zenon, <1>4, <2>1 DEF Triples
<1>8. ASSUME NEW i \in 1 .. n
      PROVE  dst[i] \in CpuBlocks /\ dst[i] \in Range(dst) /\ cpuHash'[dst[i]] = gpuHash[src[i]]
  <2>1. dst[i] \in CpuBlocks /\ dst[i] \in Range(dst) /\ DOMAIN dst = 1 .. n
    BY Zenon, <1>2 DEF Range
  <2>2. (CHOOSE j \in DOMAIN dst : dst[j] = dst[i]) = i
    BY Zenon, <1>2, <2>1 DEF IsInjective
  <2> QED
    BY Zenon, <1>1, <2>1, <2>2
<1>9. ASSUME NEW t \in N
      PROVE  /\ gpuHash[t[2]] = cpuHash'[t[3]] /\ gpuHash[t[2]] # None
             /\ t[3] \in Range(dst) /\ \A u \in N : t[3] = u[3] => t = u
  <2>1. PICK i \in 1 .. n : t[2] = src[i] /\ t[3] = dst[i]
    BY Zenon, <1>5 DEF Paired
  <2>2. PICK v \in N : \A u \in N : u[3] = dst[i] => u = v
    BY ZenonT(30), <1>5 DEF Paired
  <2> QED
    BY Zenon, <1>8, <2>1, <2>2
<1>10. ASSUME NEW t \in inStore
       PROVE  t[3] \notin Range(dst) /\ cpuHash'[t[3]] = cpuHash[t[3]]
  <2>1. t[3] \in CpuBlocks /\ t[3] \notin Range(dst)
    BY Zenon, <1>2, StoreTyped DEF CpuStores
  <2> QED
    BY ZenonT(30), <1>1, <2>1
<1>11. StoresInv'
  <2>1. inStore' \subseteq Nat \X GpuBlocks \X CpuBlocks
    BY Zenon, <1>6, <1>7 DEF BlocksInv, StoresInv
  <2>2. ASSUME NEW t \in inStore'
        PROVE  gpuHash'[t[2]] = cpuHash'[t[3]] /\ gpuHash'[t[2]] # None /\ t[3] \notin cached'
    <3>1. CASE t \in inStore
      BY ZenonT(30), <1>1, <1>10, <3>1 DEF BlocksInv, StoresInv
    <3>2. CASE t \in N
      BY Zenon, <1>1, <1>9, <3>2
    <3> QED
      BY Zenon, <1>6, <3>1, <3>2
  <2>3. ASSUME NEW t \in inStore', NEW u \in inStore', t[3] = u[3]
        PROVE  t = u
    <3>1. CASE t \in inStore /\ u \in inStore
      BY Zenon, <2>3, <3>1 DEF BlocksInv, StoresInv
    <3>2. CASE t \in N /\ u \in N
      BY Zenon, <1>9, <2>3, <3>2
    <3>3. CASE (t \in inStore /\ u \in N) \/ (t \in N /\ u \in inStore)
      BY ZenonT(30), <1>9, <1>10, <2>3, <3>3
    <3> QED
      BY Zenon, <1>6, <3>1, <3>2, <3>3
  <2> QED
    BY Zenon, <2>1, <2>2, <2>3 DEF StoresInv
<1>12. LoadsInv'
  <2> SUFFICES ASSUME NEW q \in Reqs, NEW p \in toLoad[q]
               PROVE  p[1] \in cached' /\ gpuHash[p[2]] = None /\ p[2] \in Range(blocks[q])
    BY ZenonT(30) DEF LoadsInv
  <2>1. p[1] \in cached /\ gpuHash[p[2]] = None /\ p[2] \in Range(blocks[q])
    BY Zenon DEF BlocksInv, LoadsInv
  <2>2. p[1] \notin Range(dst)
    BY ZenonT(30), <1>2 DEF CpuLoads
  <2> QED
    BY ZenonT(30), <1>1, <2>1, <2>2
<1>13. HashesInv'
  BY Zenon DEF BlocksInv, HashesInv, Row
<1> QED
  BY Zenon, <1>6, <1>11, <1>12, <1>13 DEF BlocksInv

LEMMA EagerStoreBlocks ==
  ASSUME RefInv, BlocksInv, NEW r \in Reqs, EagerStore(r), ctr["store"] \in Nat
  PROVE  BlocksInv' /\ inStore \subseteq inStore'
<1>0. PICK n \in Nat : \E src \in [1 .. n -> GpuBlocks] :
         /\ IsInjective(src) /\ Len(src) = n /\ Store(src)
         /\ \A i \in 1 .. n : \E j \in DOMAIN blocks[r] :
               src[i] = blocks[r][j] /\ src[i] \notin InFlight
  BY Zenon, EagerSource
<1>1. PICK src \in [1 .. n -> GpuBlocks] :
         /\ IsInjective(src) /\ Len(src) = n /\ Store(src)
         /\ \A i \in 1 .. n : \E j \in DOMAIN blocks[r] : src[i] = blocks[r][j]
  BY ZenonT(30), <1>0
<1>2. Row(r, blocks[r]) /\ status[r] = "running"
  BY Zenon DEF BlocksInv, HashesInv, EagerStore
<1>3. ASSUME NEW j \in DOMAIN blocks[r] PROVE gpuHash[blocks[r][j]] # None
  <2>1. gpuHash[blocks[r][j]] = Prompt[r][j] /\ j <= Len(Prompt[r])
    BY Zenon, <1>2 DEF Row
  <2>2. j \in 1 .. Len(blocks[r]) /\ Len(blocks[r]) \in Nat
    BY Zenon, TableTyped
  <2>3. j \in 1 .. Len(Prompt[r])
    BY <2>1, <2>2, HashType
  <2> QED
    BY Zenon, <2>1, <2>3, HashType
<1>4. \A i \in 1 .. n : gpuHash[src[i]] # None
  BY Zenon, <1>1, <1>3
<1>5. UNCHANGED <<status, blocks, toLoad, gpuHash>>
  BY Zenon DEF EagerStore, loads
<1> QED
  BY Zenon, <1>1, <1>4, <1>5, StoreBlocks

LEMMA LazyStoreBlocks ==
  ASSUME RefInv, BlocksInv, LazyStore, ctr["store"] \in Nat
  PROVE  BlocksInv' /\ inStore \subseteq inStore'
<1>1. PICK m \in 1 .. Cardinality(FreeOf(cpuRef)) :
        \E s \in Injection(1 .. m, FreeOf(gpuRef)) :
            Store(s) /\ \A i \in 1 .. m : gpuHash[s[i]] # None
  BY Zenon DEF LazyStore
<1>2. PICK src \in Injection(1 .. m, FreeOf(gpuRef)) :
        Store(src) /\ \A i \in 1 .. m : gpuHash[src[i]] # None
  BY Zenon, <1>1
<1>3. PICK n \in Nat : n = m
  BY <1>1
<1>4. src \in [1 .. n -> FreeOf(gpuRef)] /\ IsInjective(src)
  BY <1>2, <1>3 DEF Injection
<1>5. FreeOf(gpuRef) \subseteq GpuBlocks
  BY FreeGpu
<1>6. src \in [1 .. n -> GpuBlocks] /\ Len(src) = n /\ \A i \in 1 .. n : gpuHash[src[i]] # None
  BY <1>2, <1>3, <1>4, <1>5
<1>7. UNCHANGED <<status, blocks, toLoad, gpuHash>>
  BY Zenon DEF LazyStore, loads, engine
<1> QED
  BY Zenon, <1>2, <1>4, <1>6, <1>7, StoreBlocks

LEMMA UpdateOutputBlocks ==
  ASSUME RefInv, BlocksInv, UpdateOutput
  PROVE  BlocksInv'
<1>1. PICK R, S, over :
        /\ R = {r \in Reqs : loadEvent[r] \in recving}
        /\ S = {t \in inStore : t[1] \in stored}
        /\ over = {r \in R : status[r] = "finished"}
  BY Zenon
<1>2. /\ toLoad' = [r \in Reqs |-> IF r \in R THEN {} ELSE toLoad[r]]
      /\ inStore' = inStore \ S
      /\ cached' = cached \cup {t[3] : t \in S}
      /\ status' = [r \in Reqs |-> IF r \in R \ over THEN "loaded" ELSE status[r]]
      /\ blocks' = [r \in Reqs |-> IF r \in over THEN <<>> ELSE blocks[r]]
      /\ UNCHANGED <<gpuHash, cpuHash>>
  BY Zenon, <1>1 DEF UpdateOutput
<1>3. over \subseteq R /\ S \subseteq inStore
  BY Zenon, <1>1
<1>4. LoadsInv'
  BY ZenonT(30), <1>2, <1>3 DEF BlocksInv, LoadsInv
<1>5. StoresInv'
  <2>1. ASSUME NEW t \in inStore' PROVE t[3] \notin cached'
    BY Zenon, <1>2, <1>3 DEF BlocksInv, StoresInv
  <2> QED
    BY Zenon, <1>2, <2>1 DEF BlocksInv, StoresInv
<1>6. \A r \in Reqs : blocks'[r] = blocks[r] \/ blocks'[r] = <<>>
  BY Zenon, <1>2
<1>7. ASSUME NEW r \in Reqs PROVE Row(r, blocks[r])'
  <2>1. CASE blocks'[r] = <<>>
    BY SMTT(30), <2>1 DEF Row
  <2>2. CASE blocks'[r] = blocks[r]
    <3>1. status'[r] \in {"running", "ready"} => status[r] \in {"running", "ready"}
      BY Zenon, <1>2
    <3>2. Row(r, blocks[r])
      BY Zenon DEF BlocksInv, HashesInv
    <3>3. ASSUME NEW i \in DOMAIN blocks'[r]
          PROVE  /\ i <= Len(Prompt[r]) /\ gpuHash'[blocks'[r][i]] \in {None, Prompt[r][i]}
                 /\ status'[r] \in {"running", "ready"} =>
                       gpuHash'[blocks'[r][i]] = Prompt[r][i]
      <4>1. i \in DOMAIN blocks[r] /\ gpuHash'[blocks'[r][i]] = gpuHash[blocks[r][i]]
        BY Zenon, <1>2, <2>2
      <4>2. /\ i <= Len(Prompt[r]) /\ gpuHash[blocks[r][i]] \in {None, Prompt[r][i]}
            /\ status[r] \in {"running", "ready"} => gpuHash[blocks[r][i]] = Prompt[r][i]
        BY Zenon, <3>2, <4>1 DEF Row
      <4> QED
        BY Zenon, <3>1, <4>1, <4>2
    <3> QED
      BY Zenon, <3>3 DEF Row
  <2> QED
    BY Zenon, <1>6, <2>1, <2>2
<1>8. \A r \in Reqs : Range(blocks'[r]) \subseteq Range(blocks[r])
  BY SMTT(30), <1>6 DEF Range
<1>9. HashesInv'
  BY Zenon, <1>2, <1>7, <1>8 DEF BlocksInv, HashesInv
<1> QED
  BY Zenon, <1>4, <1>5, <1>9 DEF BlocksInv

-----------------------------------------------------------------------------
(***************************************************************************)
(* Registrations.                                                          *)
(***************************************************************************)
LEMMA CopiesTyped ==
  ASSUME CopyTypes
  PROVE  /\ Copies \subseteq Items /\ Waiting \subseteq Items /\ Waiting \subseteq Copies
         /\ \A x \in Items : x.dir \in {"load", "store"} /\ x.dir \in Dirs /\ x.idx \in Nat
<1>1. /\ Range(queue) \subseteq Items /\ Range(meta) \subseteq Items
      /\ \A d \in Dirs : Range(stream[d]) \subseteq Items
  BY DEF CopyTypes, Range
<1>2. "load" \in Dirs /\ "store" \in Dirs
  BY DEF Dirs
<1>3. \A x \in Items : x.dir \in {"load", "store"} /\ x.dir \in Dirs /\ x.idx \in Nat
  BY DEF Items, Dirs
<1> QED
  BY Zenon, <1>1, <1>2, <1>3 DEF Copies, Waiting

LEMMA RegisteredFrame ==
  ASSUME Registrations, Copies' \subseteq Copies, UNCHANGED <<toLoad, loadEvent>>,
         inStore \subseteq inStore'
  PROVE  Registrations'
  BY ZenonT(30) DEF Registrations, Registered

LEMMA StartLoadRegistered ==
  ASSUME RefInv, Registrations, NEW r \in Reqs, StartLoad(r)
  PROVE  Registrations'
<1>1. /\ status[r] = "waiting" /\ UNCHANGED <<loadEvent, inStore, queue, stream, meta>>
      /\ \E T : toLoad' = [toLoad EXCEPT ![r] = T]
  BY ZenonT(30) DEF StartLoad, Visit, stores, copies, worker
<1>2. toLoad[r] = {}
  BY Zenon, <1>1 DEF RefInv, TablesInv
<1>3. \A q \in Reqs : \A p \in toLoad[q] : p \in toLoad'[q]
  BY <1>1, <1>2 DEF RefInv, RefTypes
<1>4. Copies' = Copies
  BY <1>1 DEF Copies
<1> QED
  BY ZenonT(30), <1>1, <1>3, <1>4 DEF Registrations, Registered

\* Only events behind the mark are reported, so a copy that is still to run stays registered.
LEMMA UpdateOutputRegistered ==
  ASSUME Registrations, CopyTypes, MarksInv, ReportsInv, UpdateOutput
  PROVE  Registrations'
<1>1. /\ toLoad' = [r \in Reqs |-> IF loadEvent[r] \in recving THEN {} ELSE toLoad[r]]
      /\ loadEvent' = [r \in Reqs |-> IF loadEvent[r] \in recving THEN None ELSE loadEvent[r]]
      /\ inStore' = inStore \ {t \in inStore : t[1] \in stored}
      /\ UNCHANGED <<queue, stream, meta>>
  BY ZenonT(30) DEF UpdateOutput, copies
<1>2. Copies' = Copies
  BY Zenon, <1>1 DEF Copies
<1> SUFFICES ASSUME NEW x \in Copies PROVE Registered(x)'
  BY Zenon, <1>2 DEF Registrations
<1>3. Registered(x) /\ hwm[x.dir] < x.idx /\ x.dir \in {"load", "store"} /\ x.idx \in Nat
  BY CopiesTyped DEF Registrations, MarksInv
<1>4. hwm["load"] \in Int /\ hwm["store"] \in Int
  BY Zenon DEF CopyTypes, Dirs
<1>5. CASE x.dir = "store"
  <2>1. x.idx \notin stored
    BY <1>3, <1>4, <1>5 DEF ReportsInv
  <2>2. \A a, b : <<x.idx, a, b>>[1] = x.idx
    BY Zenon
  <2> QED
    BY Zenon, <1>1, <1>3, <1>5, <2>1, <2>2 DEF Registered
<1>6. CASE x.dir = "load"
  <2>1. x.idx \notin recving
    BY SMTT(30), <1>3, <1>4, <1>6 DEF ReportsInv
  <2> QED
    BY Zenon, <1>1, <1>3, <1>6, <2>1 DEF Registered
<1> QED
  BY Zenon, <1>3, <1>5, <1>6

\* What build_connector_meta hands to the worker.
LoadPairs == UNION {toLoad[r] : r \in {q \in Reqs : toLoad[q] # {} /\ loadEvent[q] = None}}
StorePairs == {<<t[2], t[3]>> : t \in {u \in inStore : u[1] = ctr["store"]}}
PairsOf(d) == IF d = "load" THEN LoadPairs ELSE StorePairs
BuiltCopy(d) == IF PairsOf(d) # {} THEN <<Copy(d, PairsOf(d))>> ELSE <<>>

LEMMA BuiltMeta ==
  ASSUME BuildMeta
  PROVE  /\ meta' = BuiltCopy("load") \o BuiltCopy("store")
         /\ ctr' = [d \in Dirs |-> IF PairsOf(d) # {} THEN ctr[d] + 1 ELSE ctr[d]]
         /\ pend' = [d \in Dirs |-> IF PairsOf(d) # {} THEN pend[d] \cup {ctr[d]} ELSE pend[d]]
         /\ loadEvent' = [r \in Reqs |-> IF toLoad[r] # {} /\ loadEvent[r] = None
                                         THEN ctr["load"] ELSE loadEvent[r]]
  BY ZenonT(30) DEF BuildMeta, BuiltCopy, PairsOf, LoadPairs, StorePairs, Dirs


LEMMA BuiltTyped ==
  ASSUME RefInv, StoresInv, CopyTypes, BuildMeta
  PROVE  /\ meta' \in Seq(Items)
         /\ \A x \in Range(meta)' : /\ x.dir \in Dirs /\ x.idx = ctr[x.dir]
                                    /\ x.pairs = PairsOf(x.dir) /\ PairsOf(x.dir) # {}
         /\ \A i, j \in DOMAIN meta' : meta'[i].dir = meta'[j].dir => i = j
<1>1. /\ LoadPairs \subseteq CpuBlocks \X GpuBlocks
      /\ StorePairs \subseteq GpuBlocks \X CpuBlocks
  <2>1. LoadPairs \subseteq CpuBlocks \X GpuBlocks
    BY SMTT(30) DEF RefInv, RefTypes, LoadPairs
  <2>2. ASSUME NEW t \in inStore PROVE <<t[2], t[3]>> \in GpuBlocks \X CpuBlocks
    BY DEF StoresInv
  <2> QED
    BY Zenon, <2>1, <2>2 DEF StorePairs
<1>2. ASSUME NEW d \in Dirs, NEW s, s = BuiltCopy(d)
      PROVE  /\ s \in Seq(Items) /\ Len(s) \in 0 .. 1
             /\ Len(s) = 1 => /\ s[1].dir = d /\ s[1].idx = ctr[d]
                              /\ s[1].pairs = PairsOf(d) /\ PairsOf(d) # {}
  <2>1. CASE PairsOf(d) = {}
    <3>1. s = <<>>
      BY Zenon, <1>2, <2>1 DEF BuiltCopy
    <3> QED
      BY <3>1
  <2>2. CASE PairsOf(d) # {}
    <3>1. PICK x : x = Copy(d, PairsOf(d))
      OBVIOUS
    <3>2. x.dir = d /\ x.idx = ctr[d] /\ x.pairs = PairsOf(d)
      BY Zenon, <3>1 DEF Copy
    <3>3. x \in Items
      BY <1>1, <3>1 DEF Copy, Items, CopyTypes, Dirs, PairsOf
    <3>4. s = <<x>>
      BY <1>2, <2>2, <3>1 DEF BuiltCopy
    <3>5. Len(s) = 1 /\ s[1] = x /\ s \in Seq(Items)
      BY <3>3, <3>4
    <3> QED
      BY <2>2, <3>2, <3>5
  <2> QED
    BY <2>1, <2>2
<1>3. PICK s : s = BuiltCopy("load")
  OBVIOUS
<1>4. PICK t : t = BuiltCopy("store")
  BY Zenon
<1>5. /\ s \in Seq(Items) /\ Len(s) \in 0 .. 1
      /\ Len(s) = 1 => /\ s[1].dir = "load" /\ s[1].idx = ctr["load"]
                       /\ s[1].pairs = PairsOf("load") /\ PairsOf("load") # {}
  BY Zenon, <1>2, <1>3 DEF Dirs
<1>6. /\ t \in Seq(Items) /\ Len(t) \in 0 .. 1
      /\ Len(t) = 1 => /\ t[1].dir = "store" /\ t[1].idx = ctr["store"]
                       /\ t[1].pairs = PairsOf("store") /\ PairsOf("store") # {}
  BY Zenon, <1>2, <1>4 DEF Dirs
<1>7. PICK m : m = meta' /\ m = s \o t
  BY Zenon, <1>3, <1>4, BuiltMeta
<1>8. /\ m \in Seq(Items) /\ Len(m) = Len(s) + Len(t)
      /\ \A i \in 1 .. Len(s) + Len(t) : m[i] = IF i <= Len(s) THEN s[i] ELSE t[i - Len(s)]
  BY SMTT(30), <1>5, <1>6, <1>7, ConcatProperties
<1>9. ASSUME NEW i \in DOMAIN m
      PROVE  \/ i = 1 /\ Len(s) = 1 /\ m[i] = s[1]
             \/ i = Len(s) + 1 /\ Len(t) = 1 /\ m[i] = t[1]
  <2>1. i \in 1 .. Len(s) + Len(t) /\ Len(s) \in 0 .. 1 /\ Len(t) \in 0 .. 1
    BY <1>5, <1>6, <1>8
  <2> QED
    BY <1>8, <2>1
<1>10. ASSUME NEW i \in DOMAIN m
      PROVE  /\ m[i].dir \in Dirs /\ m[i].idx = ctr[m[i].dir]
             /\ m[i].pairs = PairsOf(m[i].dir) /\ PairsOf(m[i].dir) # {}
  <2>1. "load" \in Dirs /\ "store" \in Dirs
    BY DEF Dirs
  <2> QED
    BY Zenon, <1>5, <1>6, <1>9, <2>1
<1>11. ASSUME NEW i \in DOMAIN m, NEW j \in DOMAIN m, m[i].dir = m[j].dir
      PROVE  i = j
  <2>1. "load" # "store"
    OBVIOUS
  <2> QED
    BY Zenon, <1>5, <1>6, <1>9, <1>11, <2>1
<1>12. ASSUME NEW x \in Range(meta)'
       PROVE  /\ x.dir \in Dirs /\ x.idx = ctr[x.dir]
              /\ x.pairs = PairsOf(x.dir) /\ PairsOf(x.dir) # {}
  <2>1. PICK i \in DOMAIN m : x = m[i]
    BY <1>7 DEF Range
  <2> QED
    BY Zenon, <1>10, <2>1
<1> QED
  BY Zenon, <1>7, <1>8, <1>11, <1>12


LEMMA BuildMetaRegistered ==
  ASSUME RefInv, StoresInv, CopyTypes, Registrations, BuildMeta
  PROVE  Registrations'
<1>1. UNCHANGED <<queue, stream, toLoad, inStore>>
  BY ZenonT(30) DEF BuildMeta, stores, copies
<1>2. loadEvent' = [r \in Reqs |-> IF toLoad[r] # {} /\ loadEvent[r] = None
                                   THEN ctr["load"] ELSE loadEvent[r]]
  BY ZenonT(30), BuiltMeta
<1>3. ASSUME NEW x \in Copies PROVE Registered(x)'
  <2>1. Registered(x) /\ x.idx # None
    BY SMTT(30), CopiesTyped, SimpleAssumption DEF Registrations
  <2> QED
    BY Zenon, <1>1, <1>2, <2>1 DEF Registered
<1>4. ASSUME NEW x \in Range(meta)' PROVE Registered(x)'
  <2>1. x.dir \in Dirs /\ x.idx = ctr[x.dir] /\ x.pairs = PairsOf(x.dir)
    BY Zenon, <1>4, BuiltTyped
  <2>2. CASE x.dir = "store"
    <3> SUFFICES ASSUME NEW p \in StorePairs PROVE <<ctr["store"], p[1], p[2]>> \in inStore
      BY Zenon, <1>1, <2>1, <2>2 DEF Registered, PairsOf
    <3>1. PICK t \in inStore : t[1] = ctr["store"] /\ p = <<t[2], t[3]>>
      BY Zenon DEF StorePairs
    <3>2. t = <<t[1], t[2], t[3]>> /\ p[1] = t[2] /\ p[2] = t[3]
      BY SMTT(30), <3>1 DEF StoresInv
    <3> QED
      BY Zenon, <3>1, <3>2
  <2>3. CASE x.dir = "load"
    <3> SUFFICES ASSUME NEW p \in LoadPairs
                 PROVE  \E r \in Reqs : p \in toLoad[r] /\ loadEvent'[r] = ctr["load"]
      BY Zenon, <1>1, <2>1, <2>3 DEF Registered, PairsOf
    <3> QED
      BY Zenon, <1>2 DEF LoadPairs
  <2> QED
    BY Zenon, <2>1, <2>2, <2>3 DEF Dirs
<1>5. Copies' \subseteq Copies \cup Range(meta)'
  BY Zenon, <1>1 DEF Copies
<1> QED
  BY Zenon, <1>3, <1>4, <1>5 DEF Registrations

-----------------------------------------------------------------------------
(***************************************************************************)
(* Events.                                                                 *)
(***************************************************************************)
LEMMA RangeTail ==
  ASSUME NEW S, NEW s \in Seq(S), s # <<>>
  PROVE  /\ Tail(s) \in Seq(S) /\ Head(s) \in Range(s) /\ Range(Tail(s)) \subseteq Range(s)
         /\ \A i \in DOMAIN Tail(s) : i + 1 \in DOMAIN s /\ i \in Int /\ Tail(s)[i] = s[i + 1]
         /\ Head(s) = s[1] /\ 1 \in DOMAIN s /\ \A i \in DOMAIN Tail(s) : 1 < i + 1
<1>1. /\ Tail(s) \in Seq(S) /\ Len(Tail(s)) = Len(s) - 1 /\ Len(s) > 0
      /\ \A i \in 1 .. Len(Tail(s)) : Tail(s)[i] = s[i + 1]
  BY HeadTailProperties
<1>2. /\ \A i \in DOMAIN Tail(s) : i + 1 \in DOMAIN s /\ i \in Int /\ Tail(s)[i] = s[i + 1]
      /\ \A i \in DOMAIN Tail(s) : 1 < i + 1
      /\ 1 \in DOMAIN s /\ Head(s) = s[1]
  BY SMTT(30), <1>1
<1> QED
  BY <1>1, <1>2 DEF Range

LEMMA RangeAppend ==
  ASSUME NEW S, NEW s \in Seq(S), NEW x \in S
  PROVE  Append(s, x) \in Seq(S) /\ Range(Append(s, x)) = Range(s) \cup {x}
<1>1. PICK t : t = Append(s, x)
  BY Zenon
<1>2. /\ t \in Seq(S) /\ Len(t) = Len(s) + 1 /\ t[Len(s) + 1] = x
      /\ \A i \in 1 .. Len(s) : t[i] = s[i]
  BY <1>1, AppendProperties
<1>3. DOMAIN t = DOMAIN s \cup {Len(s) + 1} /\ \A i \in DOMAIN s : t[i] = s[i]
  BY SMTT(30), <1>2
<1> QED
  BY SMTT(30), <1>1, <1>2, <1>3 DEF Range

LEMMA RangeConcat ==
  ASSUME NEW S, NEW s \in Seq(S), NEW t \in Seq(S), NEW u, u = s \o t
  PROVE  /\ u \in Seq(S) /\ \A x : x \in Range(u) <=> x \in Range(s) \/ x \in Range(t)
         /\ \A i \in DOMAIN u :
              \/ i \in DOMAIN s /\ u[i] = s[i]
              \/ i > Len(s) /\ i - Len(s) \in DOMAIN t /\ u[i] = t[i - Len(s)]
<1>1. /\ u \in Seq(S) /\ Len(u) = Len(s) + Len(t)
      /\ \A i \in 1 .. Len(s) + Len(t) : u[i] = IF i <= Len(s) THEN s[i] ELSE t[i - Len(s)]
  BY ConcatProperties
<1> Len(s) \in Nat /\ Len(t) \in Nat
  OBVIOUS
<1>2. DOMAIN s = 1 .. Len(s) /\ DOMAIN t = 1 .. Len(t) /\ DOMAIN u = 1 .. Len(s) + Len(t)
  BY SMTT(30), <1>1
<1>3. \A i \in DOMAIN u :
         \/ i \in DOMAIN s /\ u[i] = s[i]
         \/ i > Len(s) /\ i - Len(s) \in DOMAIN t /\ u[i] = t[i - Len(s)]
  BY SMTT(30), <1>1, <1>2
<1>4. \A i \in DOMAIN s : i \in DOMAIN u /\ u[i] = s[i]
  BY SMTT(30), <1>1, <1>2
<1>5. ASSUME NEW i \in DOMAIN t PROVE t[i] \in Range(u)
  <2>1. PICK k \in DOMAIN u : k = i + Len(s)
    BY SMTT(30), <1>2
  <2>2. u[k] = t[i]
    BY SMTT(30), <1>1, <1>2, <2>1
  <2> QED
    BY <2>2 DEF Range
<1>6. Range(u) \subseteq Range(s) \cup Range(t)
  BY Zenon, <1>3 DEF Range
<1>7. Range(s) \subseteq Range(u) /\ Range(t) \subseteq Range(u)
  BY Zenon, <1>4, <1>5 DEF Range
<1> QED
  BY Zenon, <1>1, <1>3, <1>6, <1>7

LEMMA RangeRest ==
  ASSUME NEW S, NEW s \in Seq(S), NEW n \in 0 .. Len(s), NEW t, t = SubSeq(s, n + 1, Len(s))
  PROVE  t \in Seq(S) /\ Range(t) \subseteq Range(s)
<1>1. /\ t \in Seq(S) /\ Len(t) = Len(s) - n
      /\ \A i \in 1 .. Len(t) : t[i] = s[n + i]
  BY SubSeqProperties
<1> QED
  BY <1>1 DEF Range


tracks == <<ctr, hwm, events, queue, stream, meta, thread, pend>>

LEMMA ReportsFrame ==
  ASSUME ReportsInv, UNCHANGED <<hwm, recving, stored>>, phase = "update" <=> phase' = "update"
  PROVE  ReportsInv'
  BY DEF ReportsInv

LEMMA EventsFrame ==
  ASSUME EventsInv, UNCHANGED tracks, ReportsInv'
  PROVE  EventsInv'
<1>1. Copies' = Copies /\ Waiting' = Waiting
  BY DEF tracks, Copies, Waiting
<1>2. CopyTypes'
  BY Zenon DEF EventsInv, CopyTypes, tracks
<1>3. MarksInv'
  BY Zenon, <1>1 DEF EventsInv, MarksInv, tracks
<1>4. OrderInv'
  BY <1>1 DEF EventsInv, OrderInv, tracks
<1> QED
  BY <1>2, <1>3, <1>4 DEF EventsInv

\* The new copies come after everything that was numbered before.
LEMMA BuildMetaEvents ==
  ASSUME RefInv, StoresInv, EventsInv, BuildMeta
  PROVE  EventsInv'
<1> CopyTypes /\ MarksInv /\ OrderInv /\ ReportsInv
  BY Zenon DEF EventsInv
<1>1. /\ UNCHANGED <<queue, thread, stream, events, hwm, recving, stored>>
      /\ phase = "stores" /\ phase' \in {"sync load", "execute"}
  BY Zenon DEF BuildMeta, copies
<1>2. /\ meta' \in Seq(Items)
      /\ \A x \in Range(meta)' : x.dir \in Dirs /\ x.idx = ctr[x.dir] /\ PairsOf(x.dir) # {}
      /\ \A i, j \in DOMAIN meta' : meta'[i].dir = meta'[j].dir => i = j
  BY ZenonT(30), BuiltTyped
<1>3. /\ ctr' = [d \in Dirs |-> IF PairsOf(d) # {} THEN ctr[d] + 1 ELSE ctr[d]]
      /\ pend' = [d \in Dirs |-> IF PairsOf(d) # {} THEN pend[d] \cup {ctr[d]} ELSE pend[d]]
  BY Zenon, BuiltMeta
<1>4. /\ \A d \in Dirs : ctr[d] \in Nat /\ ctr'[d] \in Nat /\ ctr[d] <= ctr'[d]
      /\ \A d \in Dirs : PairsOf(d) # {} => ctr'[d] = ctr[d] + 1
  BY SMTT(30), <1>3 DEF CopyTypes
<1>5. CopyTypes'
  <2>1. ctr' \in [Dirs -> Nat]
    BY Zenon, <1>3, <1>4
  <2>2. pend' \in [Dirs -> SUBSET Nat]
    BY Zenon, <1>3, <1>4 DEF CopyTypes
  <2>3. \A d \in Dirs : \A x \in Range(stream[d])' : x.dir = d
    BY Zenon, <1>1 DEF CopyTypes
  <2> QED
    BY ZenonT(30), <1>1, <1>2, <2>1, <2>2, <2>3 DEF CopyTypes
<1>6. /\ Copies' \subseteq Copies \cup Range(meta)' /\ Waiting' \subseteq Waiting \cup Range(meta)'
      /\ Range(queue) \subseteq Copies
  BY ZenonT(30), <1>1 DEF Copies, Waiting
<1>7. MarksInv'
  <2>1. ASSUME NEW d \in Dirs
        PROVE  hwm'[d] < ctr'[d] /\ \A j \in Range(events[d])' : j < ctr'[d]
    <3>1. hwm[d] \in Int /\ \A j \in Range(events[d]) : j \in Int
      BY SMTT(30) DEF CopyTypes, Range
    <3>2. hwm[d] < ctr[d] /\ \A j \in Range(events[d]) : j < ctr[d]
      BY DEF MarksInv
    <3>3. hwm'[d] = hwm[d] /\ Range(events[d])' = Range(events[d])
      BY Zenon, <1>1
    <3>4. \A j \in Range(events[d]) : j < ctr'[d]
      BY SMTT(30), <1>4, <3>1, <3>2
    <3> QED
      BY SMTT(30), <1>4, <3>1, <3>2, <3>3, <3>4
  <2>2. ASSUME NEW x \in Copies' PROVE hwm'[x.dir] < x.idx /\ x.idx < ctr'[x.dir]
    <3>1. CASE x \in Copies
      <4>1. x.dir \in Dirs /\ x.idx \in Nat
        BY Zenon, <3>1, CopiesTyped
      <4>2. hwm[x.dir] < x.idx /\ x.idx < ctr[x.dir]
        BY <3>1 DEF MarksInv
      <4>3. hwm'[x.dir] = hwm[x.dir]
        BY Zenon, <1>1
      <4>4. ctr[x.dir] \in Nat /\ ctr'[x.dir] \in Nat /\ ctr[x.dir] <= ctr'[x.dir]
        BY Zenon, <1>4, <4>1
      <4>5. x.idx < ctr'[x.dir]
        BY SMTT(30), <4>1, <4>2, <4>4
      <4> QED
        BY <4>1, <4>2, <4>3, <4>5
    <3>2. CASE x \in Range(meta)'
      <4>1. x.dir \in Dirs /\ x.idx = ctr[x.dir] /\ ctr'[x.dir] = ctr[x.dir] + 1
        BY Zenon, <1>2, <1>4, <3>2
      <4>2. hwm[x.dir] < ctr[x.dir]
        BY Zenon, <4>1 DEF MarksInv
      <4>3. hwm'[x.dir] = hwm[x.dir]
        BY Zenon, <1>1
      <4>4. ctr[x.dir] \in Nat /\ ctr'[x.dir] \in Nat /\ ctr[x.dir] <= ctr'[x.dir]
        BY Zenon, <1>4, <4>1
      <4>5. x.idx < ctr'[x.dir]
        BY SMTT(30), <4>1, <4>2, <4>4
      <4> QED
        BY Zenon, <4>1, <4>2, <4>3, <4>5
    <3> QED
      BY Zenon, <1>6, <3>1, <3>2
  <2>3. ASSUME thread # None PROVE thread.idx < ctr'[thread.dir]
    <3>1. thread.dir \in Dirs /\ thread.idx \in Nat
      BY Zenon, <2>3, CopiesTyped DEF CopyTypes
    <3> QED
      BY SMTT(30), <1>4, <2>3, <3>1 DEF MarksInv
  <2> QED
    BY ZenonT(30), <1>1, <2>1, <2>2, <2>3 DEF MarksInv
<1>8. OrderInv'
  <2>1. ASSUME NEW x \in Waiting' PROVE \A j \in Range(events'[x.dir]) : j < x.idx
    <3>1. CASE x \in Waiting
      BY Zenon, <1>1, <3>1 DEF OrderInv
    <3>2. CASE x \in Range(meta)'
      BY Zenon, <1>1, <1>2, <3>2 DEF MarksInv
    <3> QED
      BY Zenon, <1>6, <3>1, <3>2
  <2>2. ASSUME NEW x \in Waiting', thread # None, x.dir = thread.dir PROVE thread.idx < x.idx
    <3>1. CASE x \in Waiting
      BY Zenon, <2>2, <3>1 DEF OrderInv
    <3>2. CASE x \in Range(meta)'
      BY Zenon, <1>2, <2>2, <3>2 DEF MarksInv
    <3> QED
      BY Zenon, <1>6, <3>1, <3>2
  <2>3. \A x \in Range(queue), y \in Range(meta)' : x.dir = y.dir => x.idx < y.idx
    BY Zenon, <1>2, <1>6 DEF MarksInv
  <2>4. /\ \A i, j \in DOMAIN queue' :
             i < j /\ queue'[i].dir = queue'[j].dir => queue'[i].idx < queue'[j].idx
        /\ Range(queue)' = Range(queue)
    BY Zenon, <1>1 DEF OrderInv
  <2> QED
    BY ZenonT(30), <1>1, <1>2, <2>1, <2>2, <2>3, <2>4 DEF OrderInv
<1>9. ReportsInv'
  BY ZenonT(30), <1>1, ReportsFrame
<1> QED
  BY <1>5, <1>7, <1>8, <1>9 DEF EventsInv


LEMMA EventsTyped ==
  ASSUME CopyTypes, NEW d \in Dirs
  PROVE  /\ hwm[d] \in Int /\ ctr[d] \in Nat /\ events[d] \in Seq(Nat)
         /\ \A j \in Range(events[d]) : j \in Nat
         /\ Range(stream[d]) \subseteq Copies /\ Range(queue) \subseteq Copies
  BY SMTT(30) DEF CopyTypes, Range, Copies, Dirs

\* A mark that covers recorded and executed events only is behind every copy left.
LEMMA MarkBehind ==
  ASSUME CopyTypes, MarksInv, OrderInv, NEW d \in Dirs, NEW n \in DOMAIN events[d],
         Done(d, events[d][n])
  PROVE  /\ events[d][n] \in Nat /\ events[d][n] < ctr[d]
         /\ \A x \in Copies : x.dir = d => events[d][n] < x.idx
<1>1. events[d][n] \in Nat /\ events[d][n] \in Range(events[d])
  BY ZenonT(30), EventsTyped DEF Range
<1>2. events[d][n] < ctr[d]
  BY Zenon, <1>1 DEF MarksInv
<1>3. ASSUME NEW x \in Copies, x.dir = d PROVE events[d][n] < x.idx
  <2>1. CASE x \in Waiting
    BY ZenonT(30), <1>1, <1>3, <2>1 DEF OrderInv
  <2>2. CASE x \in Range(stream[d])
    <3>1. PICK k \in DOMAIN stream[d] : x = stream[d][k]
      BY <2>2 DEF Range
    <3>2. k \in 1 .. Len(stream[d])
      BY SMTT(30) DEF CopyTypes
    <3>3. x.idx > events[d][n]
      BY Zenon, <3>1, <3>2 DEF Done
    <3> QED
      BY Zenon, <1>1, <3>3, CopiesTyped
  <2>3. x \in Waiting \/ \E c \in Dirs : x \in Range(stream[c])
    BY DEF Copies, Waiting, Dirs
  <2>4. \A c \in Dirs : x \in Range(stream[c]) => c = d
    BY <1>3 DEF CopyTypes
  <2> QED
    BY ZenonT(30), <2>1, <2>2, <2>3, <2>4
<1> QED
  BY Zenon, <1>1, <1>2, <1>3

LEMMA SyncEvents ==
  ASSUME EventsInv, NEW d \in Dirs, Sync(d)
  PROVE  EventsInv'
<1> CopyTypes /\ MarksInv /\ OrderInv /\ ReportsInv
  BY Zenon DEF EventsInv
<1>1. /\ UNCHANGED <<ctr, queue, thread, stream, events, meta, pend, recving, stored>>
      /\ phase # "update" /\ phase' # "update"
      /\ \A i \in DOMAIN events[d] : Done(d, events[d][i])
      /\ hwm' = [hwm EXCEPT ![d] = Synced(d)]
  BY ZenonT(30) DEF Sync, copies, Dirs
<1>2. /\ Synced(d) \in Int /\ Synced(d) < ctr[d]
      /\ \A x \in Copies : x.dir = d => Synced(d) < x.idx
  <2>1. CASE events[d] = <<>>
    BY Zenon, <2>1, EventsTyped DEF Synced, MarksInv
  <2>2. CASE events[d] # <<>>
    <3>1. Len(events[d]) \in DOMAIN events[d]
      BY SMTT(30), <2>2, EventsTyped
    <3> QED
      BY SMTT(30), <1>1, <2>2, <3>1, MarkBehind DEF Synced
  <2> QED
    BY ZenonT(30), <2>1, <2>2
<1>3. Copies' = Copies /\ Waiting' = Waiting
  BY Zenon, <1>1 DEF Copies, Waiting
<1>4. hwm' \in [Dirs -> Int] /\ hwm'[d] = Synced(d) /\ \A c \in Dirs : c # d => hwm'[c] = hwm[c]
  BY Zenon, <1>1, <1>2 DEF CopyTypes
<1>5. CopyTypes'
  BY Zenon, <1>1, <1>4 DEF CopyTypes
<1>6. MarksInv'
  <2>1. \A c \in Dirs : hwm'[c] < ctr[c]
    BY Zenon, <1>2, <1>4 DEF MarksInv
  <2>2. \A x \in Copies : hwm'[x.dir] < x.idx
    BY Zenon, <1>2, <1>4, CopiesTyped DEF MarksInv
  <2> QED
    BY ZenonT(30), <1>1, <1>3, <2>1, <2>2 DEF MarksInv
<1>7. OrderInv'
  BY Zenon, <1>1, <1>3 DEF OrderInv
<1>8. ReportsInv'
  BY <1>1 DEF ReportsInv
<1> QED
  BY <1>5, <1>6, <1>7, <1>8 DEF EventsInv

LEMMA ClearEvents ==
  ASSUME EventsInv, NEW d \in Dirs, Clear(d)
  PROVE  EventsInv'
<1> CopyTypes /\ MarksInv /\ OrderInv /\ ReportsInv
  BY Zenon DEF EventsInv
<1>1. /\ UNCHANGED <<ctr, hwm, queue, thread, stream, meta, pend, recving, stored>>
      /\ phase # "update" /\ phase' # "update"
      /\ events' = [events EXCEPT ![d] = <<>>]
  BY Zenon DEF Clear, worker, Dirs
<1>2. Copies' = Copies /\ Waiting' = Waiting
  BY Zenon, <1>1 DEF Copies, Waiting
<1>3. events' \in [Dirs -> Seq(Nat)] /\ \A c \in Dirs : Range(events'[c]) \subseteq Range(events[c])
  BY SMTT(30), <1>1 DEF CopyTypes, Range
<1>4. CopyTypes'
  BY Zenon, <1>1, <1>3 DEF CopyTypes
<1>5. MarksInv'
  BY Zenon, <1>1, <1>2, <1>3 DEF MarksInv
<1>6. OrderInv'
  BY Zenon, <1>1, <1>2, <1>3, CopiesTyped DEF OrderInv
<1>7. ReportsInv'
  BY <1>1, ReportsFrame
<1> QED
  BY <1>4, <1>5, <1>6, <1>7 DEF EventsInv


LEMMA ExecuteModelEvents ==
  ASSUME EventsInv, ExecuteModel
  PROVE  EventsInv' /\ Copies' = Copies
<1> CopyTypes /\ MarksInv /\ OrderInv /\ ReportsInv
  BY DEF EventsInv
<1>1. /\ UNCHANGED <<ctr, hwm, thread, stream, events, pend, recving, stored>>
      /\ phase # "update" /\ phase' # "update"
      /\ queue' = queue \o meta /\ meta' = <<>>
  BY DEF ExecuteModel
<1>2. PICK q : q = queue'
  OBVIOUS
<1>3. /\ q \in Seq(Items) /\ Range(q) = Range(queue) \cup Range(meta)
      /\ \A i \in DOMAIN q :
            \/ i \in DOMAIN queue /\ q[i] = queue[i]
            \/ i > Len(queue) /\ i - Len(queue) \in DOMAIN meta /\ q[i] = meta[i - Len(queue)]
  <2>1. PICK s \in Seq(Items), t \in Seq(Items) : s = queue /\ t = meta
    BY DEF CopyTypes
  <2>2. q = s \o t
    BY <1>1, <1>2, <2>1
  <2>3. q \in Seq(Items) /\ Range(q) = Range(s) \cup Range(t)
    <3>1. q \in Seq(Items)
      BY <2>2, RangeConcat
    <3>2. \A x : x \in Range(q) <=> x \in Range(s) \/ x \in Range(t)
      BY Zenon, <2>2, RangeConcat
    <3> QED
      BY <3>1, <3>2
  <2>4. \A i \in DOMAIN q :
           \/ i \in DOMAIN s /\ q[i] = s[i]
           \/ i > Len(s) /\ i - Len(s) \in DOMAIN t /\ q[i] = t[i - Len(s)]
    BY <2>2, RangeConcat
  <2> QED
    BY Zenon, <2>1, <2>3, <2>4
<1>4. meta' \in Seq(Items) /\ Range(meta') = {}
  BY SMTT(30), <1>1 DEF Range
<1>5. Waiting' = Waiting /\ Copies' = Copies
  BY Zenon, <1>1, <1>2, <1>3, <1>4 DEF Waiting, Copies
<1>6. CopyTypes'
  BY Zenon, <1>1, <1>2, <1>3, <1>4 DEF CopyTypes
<1>7. MarksInv'
  BY ZenonT(30), <1>1, <1>5 DEF MarksInv
<1>8. ASSUME NEW i \in DOMAIN q, NEW j \in DOMAIN q, i < j, q[i].dir = q[j].dir
      PROVE  q[i].idx < q[j].idx
  <2>1. i \in Int /\ j \in Int /\ Len(queue) \in Nat /\ DOMAIN queue = 1 .. Len(queue)
    BY SMTT(30), <1>3 DEF CopyTypes
  <2>2. CASE i \in DOMAIN queue /\ j \in DOMAIN queue
    <3>1. q[i] = queue[i] /\ q[j] = queue[j]
      BY SMTT(30), <1>3, <2>1, <2>2
    <3> QED
      BY Zenon, <1>8, <2>2, <3>1 DEF OrderInv
  <2>3. CASE i \in DOMAIN queue /\ j > Len(queue)
    <3>1. q[i] \in Range(queue) /\ q[j] \in Range(meta)
      BY SMTT(30), <1>3, <2>1, <2>3 DEF Range
    <3> QED
      BY Zenon, <1>8, <3>1 DEF OrderInv
  <2>4. CASE i > Len(queue) /\ j > Len(queue)
    <3>1. /\ i - Len(queue) \in DOMAIN meta /\ q[i] = meta[i - Len(queue)]
          /\ j - Len(queue) \in DOMAIN meta /\ q[j] = meta[j - Len(queue)]
      BY <1>3, <2>1, <2>4
    <3>2. i - Len(queue) = j - Len(queue)
      BY Zenon, <1>8, <3>1 DEF OrderInv
    <3> QED
      BY <1>8, <2>1, <3>2
  <2> QED
    BY SMTT(30), <1>3, <1>8, <2>1, <2>2, <2>3, <2>4
<1>9. OrderInv'
  <2>1. /\ \A x \in Waiting' : \A j \in Range(events'[x.dir]) : j < x.idx
        /\ \A x \in Waiting' : thread' # None /\ x.dir = thread'.dir => thread'.idx < x.idx
    BY Zenon, <1>1, <1>5 DEF OrderInv
  <2>2. DOMAIN meta' = {}
    BY <1>1
  <2> QED
    BY ZenonT(30), <1>2, <1>4, <1>8, <2>1, <2>2 DEF OrderInv
<1>10. ReportsInv'
  BY Zenon, <1>1, ReportsFrame
<1> QED
  BY <1>5, <1>6, <1>7, <1>9, <1>10 DEF EventsInv

LEMMA PolledExists ==
  ASSUME CopyTypes, NEW d \in Dirs
  PROVE  /\ Polled(d) \in 0 .. Len(events[d])
         /\ \A i \in 1 .. Polled(d) : Done(d, events[d][i])
<1>1. Len(events[d]) \in Nat
  BY SMTT(30), EventsTyped
<1> DEFINE T == {n \in 0 .. Len(events[d]) :
                    n = Len(events[d]) \/ ~Done(d, events[d][n + 1])}
<1>2. T \subseteq Nat /\ Len(events[d]) \in T
  BY SMTT(30), <1>1
<1>3. PICK n \in T : \A m \in T : n <= m
  BY Zenon, <1>2, Smallest
<1>4. ASSUME NEW i \in 1 .. n PROVE Done(d, events[d][i])
  <2>1. i - 1 \in 0 .. Len(events[d]) /\ i - 1 < n /\ n <= Len(events[d]) /\ (i - 1) + 1 = i
    BY <1>1
  <2>2. ~(n <= i - 1)
    BY <1>1
  <2>3. i - 1 \notin T
    BY ZenonT(30), <1>3, <2>2
  <2> QED
    BY <2>1, <2>3
<1>5. /\ n \in 0 .. Len(events[d]) /\ \A i \in 1 .. n : Done(d, events[d][i])
      /\ n = Len(events[d]) \/ ~Done(d, events[d][n + 1])
  BY <1>4
<1> QED
  BY ZenonT(30), <1>5 DEF Polled


LEMMA PollEvents ==
  ASSUME EventsInv, Poll
  PROVE  EventsInv'
<1> CopyTypes /\ MarksInv /\ OrderInv /\ ReportsInv
  BY DEF EventsInv
<1>1. PICK n : n = [d \in Dirs |-> IF pend[d] = {} THEN 0 ELSE Polled(d)]
  BY Zenon
<1>2. PICK mark : mark = [d \in Dirs |-> IF n[d] = 0 THEN hwm[d] ELSE events[d][n[d]]]
  BY Zenon
<1>3. /\ hwm' = mark
      /\ events' = [d \in Dirs |-> SubSeq(events[d], n[d] + 1, Len(events[d]))]
      /\ pend' = [d \in Dirs |-> pend[d] \ Reported(d, mark[d])]
      /\ recving' = Reported("load", mark["load"]) /\ stored' = Reported("store", mark["store"])
      /\ phase' = "update" /\ UNCHANGED <<ctr, queue, thread, stream, meta>>
  BY ZenonT(30), <1>1, <1>2 DEF Poll, Dirs
<1>4. \A d \in Dirs : /\ n[d] \in 0 .. Len(events[d])
                      /\ \A i \in 1 .. n[d] : Done(d, events[d][i])
  <2>1. ASSUME NEW d \in Dirs
        PROVE  /\ n[d] \in 0 .. Len(events[d])
               /\ \A i \in 1 .. n[d] : Done(d, events[d][i])
    <3>1. Len(events[d]) \in Nat
      BY SMTT(30), EventsTyped
    <3>2. CASE pend[d] = {}
      BY SMTT(30), <1>1, <3>1, <3>2
    <3>3. CASE pend[d] # {}
      BY Zenon, <1>1, <3>3, PolledExists
    <3> QED
      BY Zenon, <3>2, <3>3
  <2> QED
    BY Zenon, <2>1
<1>5. ASSUME NEW d \in Dirs
      PROVE  /\ mark[d] \in Int /\ mark[d] < ctr[d]
             /\ \A x \in Copies : x.dir = d => mark[d] < x.idx
  <2>1. CASE n[d] = 0
    <3>1. mark[d] = hwm[d]
      BY Zenon, <1>2, <2>1
    <3> QED
      BY Zenon, <3>1, EventsTyped DEF MarksInv
  <2>2. CASE n[d] # 0
    <3>1. n[d] \in DOMAIN events[d] /\ n[d] \in 1 .. n[d]
      BY SMTT(30), <1>4, <2>2, EventsTyped
    <3>2. mark[d] = events[d][n[d]] /\ Done(d, events[d][n[d]])
      BY ZenonT(30), <1>2, <1>4, <2>2, <3>1
    <3> QED
      BY SMTT(30), <3>1, <3>2, MarkBehind
  <2> QED
    BY Zenon, <2>1, <2>2
<1>6. ASSUME NEW d \in Dirs
      PROVE  events'[d] \in Seq(Nat) /\ Range(events'[d]) \subseteq Range(events[d])
  <2>1. PICK s \in Seq(Nat), m \in Int : s = events[d] /\ m = n[d]
    BY <1>4, EventsTyped
  <2>2. PICK t : t = events'[d]
    BY Zenon
  <2>3. t = SubSeq(s, m + 1, Len(s)) /\ m \in 0 .. Len(s)
    BY Zenon, <1>3, <1>4, <2>1, <2>2
  <2>4. t \in Seq(Nat) /\ Range(t) \subseteq Range(s)
    BY ZenonT(30), <2>3, RangeRest
  <2> QED
    BY ZenonT(30), <2>1, <2>2, <2>4
<1>7. Copies' = Copies /\ Waiting' = Waiting
  BY Zenon, <1>3 DEF Copies, Waiting
<1>8. CopyTypes'
  <2>1. hwm' \in [Dirs -> Int]
    BY ZenonT(30), <1>2, <1>3, <1>5
  <2>2. events' \in [Dirs -> Seq(Nat)]
    BY ZenonT(30), <1>3, <1>6
  <2>3. pend' \in [Dirs -> SUBSET Nat]
    BY Zenon, <1>3 DEF CopyTypes
  <2> QED
    BY Zenon, <1>3, <2>1, <2>2, <2>3 DEF CopyTypes
<1>9. MarksInv'
  <2>1. \A d \in Dirs : hwm'[d] < ctr[d] /\ \A j \in Range(events'[d]) : j < ctr[d]
    BY ZenonT(30), <1>3, <1>5, <1>6 DEF MarksInv
  <2>2. \A x \in Copies : hwm'[x.dir] < x.idx /\ x.idx < ctr[x.dir]
    BY ZenonT(30), <1>3, <1>5, CopiesTyped DEF MarksInv
  <2> QED
    BY ZenonT(30), <1>3, <1>7, <2>1, <2>2 DEF MarksInv
<1>10. OrderInv'
  <2>1. \A x \in Waiting : \A j \in Range(events'[x.dir]) : j < x.idx
    BY ZenonT(30), <1>6, CopiesTyped DEF OrderInv
  <2> QED
    BY ZenonT(30), <1>3, <1>7, <2>1 DEF OrderInv
<1>11. ReportsInv'
  <2>1. \A d \in Dirs : \A j \in Reported(d, mark[d]) : j \in Int /\ j <= mark[d]
    BY SMTT(30) DEF Reported, CopyTypes
  <2> QED
    BY Zenon, <1>3, <2>1 DEF ReportsInv, Dirs
<1> QED
  BY <1>8, <1>9, <1>10, <1>11 DEF EventsInv

LEMMA ThreadIssueEvents ==
  ASSUME EventsInv, ThreadIssue
  PROVE  EventsInv' /\ Copies' \subseteq Copies
<1> CopyTypes /\ MarksInv /\ OrderInv /\ ReportsInv
  BY DEF EventsInv
<1>1. PICK x : x = Head(queue)
  OBVIOUS
<1>2. /\ UNCHANGED <<phase, ctr, events, meta, pend, hwm, recving, stored>>
      /\ thread = None /\ queue # <<>> /\ thread' = x /\ queue' = Tail(queue)
      /\ stream' = [stream EXCEPT ![x.dir] = Append(@, x)]
  BY <1>1 DEF ThreadIssue, worker
<1>3. /\ queue' \in Seq(Items) /\ x \in Range(queue) /\ Range(queue') \subseteq Range(queue)
      /\ \A i \in DOMAIN queue' : i + 1 \in DOMAIN queue /\ i \in Int /\ queue'[i] = queue[i + 1]
      /\ x = queue[1] /\ 1 \in DOMAIN queue /\ \A i \in DOMAIN queue' : 1 < i + 1
  <2>1. queue \in Seq(Items)
    BY Zenon DEF CopyTypes
  <2> QED
    BY Zenon, <1>1, <1>2, <2>1, RangeTail
<1>4. x \in Items /\ x.dir \in Dirs /\ x \in Waiting /\ x \in Copies
  BY Zenon, <1>3, CopiesTyped DEF Waiting
<1>5. ASSUME NEW d \in Dirs
      PROVE  /\ stream'[d] \in Seq(Items)
             /\ \A y \in Range(stream'[d]) : y \in Range(stream[d]) \/ (y = x /\ d = x.dir)
  <2>1. stream[d] \in Seq(Items)
    BY Zenon DEF CopyTypes
  <2>2. CASE d = x.dir
    <3>1. stream'[d] = Append(stream[d], x)
      BY Zenon, <1>2, <2>2 DEF CopyTypes
    <3>2. PICK s \in Seq(Items) : s = stream[d]
      BY <2>1
    <3>3. PICK t : t = Append(s, x)
      BY ZenonT(30)
    <3>4. t \in Seq(Items) /\ Range(t) = Range(s) \cup {x}
      BY <1>4, <3>3, RangeAppend
    <3> QED
      BY Zenon, <2>2, <3>1, <3>2, <3>3, <3>4
  <2>3. CASE d # x.dir
    BY <1>2, <2>1, <2>3 DEF CopyTypes
  <2> QED
    BY Zenon, <2>2, <2>3
<1>6. Copies' \subseteq Copies /\ Waiting' \subseteq Waiting
  BY ZenonT(30), <1>2, <1>3, <1>4, <1>5 DEF Copies, Waiting, Dirs
<1>7. CopyTypes'
  <2>1. stream' \in [Dirs -> Seq(Items)]
    BY ZenonT(30), <1>2, <1>5 DEF CopyTypes
  <2>2. \A d \in Dirs : \A y \in Range(stream'[d]) : y.dir = d
    BY <1>5 DEF CopyTypes
  <2> QED
    BY Zenon, <1>2, <1>3, <1>4, <2>1, <2>2 DEF CopyTypes
<1>8. MarksInv'
  BY ZenonT(30), <1>2, <1>4, <1>6 DEF MarksInv
<1>9. OrderInv'
  <2>1. \A y \in Waiting' : \A j \in Range(events[y.dir]) : j < y.idx
    BY Zenon, <1>6 DEF OrderInv
  <2>2. ASSUME NEW y \in Waiting', y.dir = x.dir PROVE x.idx < y.idx
    <3>1. CASE y \in Range(queue')
      <4>1. PICK i \in DOMAIN queue' : y = queue'[i]
        BY <3>1 DEF Range
      <4>2. y = queue[i + 1] /\ i + 1 \in DOMAIN queue /\ 1 < i + 1
        BY Zenon, <1>3, <4>1
      <4> QED
        BY Zenon, <1>3, <2>2, <4>2 DEF OrderInv
    <3>2. CASE y \in Range(meta)
      BY ZenonT(30), <1>3, <2>2, <3>2 DEF OrderInv
    <3> QED
      BY Zenon, <1>2, <3>1, <3>2 DEF Waiting
  <2>3. ASSUME NEW i \in DOMAIN queue', NEW j \in DOMAIN queue', i < j,
               queue'[i].dir = queue'[j].dir
        PROVE  queue'[i].idx < queue'[j].idx
    <3>1. i + 1 \in DOMAIN queue /\ j + 1 \in DOMAIN queue /\ i + 1 < j + 1
      BY SMTT(30), <1>3, <2>3
    <3>2. queue'[i] = queue[i + 1] /\ queue'[j] = queue[j + 1]
      BY Zenon, <1>3
    <3> QED
      BY Zenon, <2>3, <3>1, <3>2 DEF OrderInv
  <2>4. \A z \in Range(queue'), y \in Range(meta) : z.dir = y.dir => z.idx < y.idx
    BY Zenon, <1>3 DEF OrderInv
  <2> QED
    BY Zenon, <1>2, <2>1, <2>2, <2>3, <2>4 DEF OrderInv
<1>10. ReportsInv'
  BY <1>2, ReportsFrame
<1> QED
  BY <1>6, <1>7, <1>8, <1>9, <1>10 DEF EventsInv


LEMMA ThreadRecordEvents ==
  ASSUME EventsInv, ThreadRecord
  PROVE  EventsInv'
<1> CopyTypes /\ MarksInv /\ OrderInv /\ ReportsInv
  BY Zenon DEF EventsInv
<1>1. /\ UNCHANGED <<phase, ctr, queue, stream, meta, pend, hwm, recving, stored>>
      /\ thread # None /\ thread' = None
      /\ events' = [events EXCEPT ![thread.dir] = Append(@, thread.idx)]
  BY Zenon DEF ThreadRecord, worker
<1>2. thread.dir \in Dirs /\ thread.idx \in Nat
  BY Zenon, <1>1, CopiesTyped DEF CopyTypes
<1>3. Copies' = Copies /\ Waiting' = Waiting
  BY Zenon, <1>1 DEF Copies, Waiting
<1>4. ASSUME NEW d \in Dirs
      PROVE  /\ events'[d] \in Seq(Nat)
             /\ \A j \in Range(events'[d]) :
                   j \in Range(events[d]) \/ (j = thread.idx /\ d = thread.dir)
  <2>1. events[d] \in Seq(Nat)
    BY Zenon, EventsTyped
  <2>2. CASE d = thread.dir
    <3>1. events'[d] = Append(events[d], thread.idx)
      BY Zenon, <1>1, <2>2 DEF CopyTypes
    <3>2. PICK s \in Seq(Nat) : s = events[d]
      BY <2>1
    <3>3. PICK t : t = Append(s, thread.idx)
      BY ZenonT(30)
    <3>4. t \in Seq(Nat) /\ Range(t) = Range(s) \cup {thread.idx}
      BY <1>2, <3>3, RangeAppend
    <3> QED
      BY Zenon, <2>2, <3>1, <3>2, <3>3, <3>4
  <2>3. CASE d # thread.dir
    BY <1>1, <2>1, <2>3 DEF CopyTypes
  <2> QED
    BY Zenon, <2>2, <2>3
<1>5. CopyTypes'
  <2>1. events' \in [Dirs -> Seq(Nat)]
    BY ZenonT(30), <1>1, <1>4 DEF CopyTypes
  <2> QED
    BY ZenonT(30), <1>1, <2>1 DEF CopyTypes
<1>6. MarksInv'
  <2>1. \A d \in Dirs : \A j \in Range(events'[d]) : j < ctr[d]
    BY ZenonT(30), <1>1, <1>4 DEF MarksInv
  <2> QED
    BY ZenonT(30), <1>1, <1>3, <2>1 DEF MarksInv
<1>7. OrderInv'
  <2>1. ASSUME NEW x \in Waiting PROVE \A j \in Range(events'[x.dir]) : j < x.idx
    <3>1. x.dir \in Dirs
      BY CopiesTyped
    <3> QED
      BY Zenon, <1>1, <1>4, <3>1 DEF OrderInv
  <2> QED
    BY ZenonT(30), <1>1, <1>3, <2>1 DEF OrderInv
<1>8. ReportsInv'
  BY <1>1, ReportsFrame
<1> QED
  BY <1>5, <1>6, <1>7, <1>8 DEF EventsInv

LEMMA StreamCopyEvents ==
  ASSUME EventsInv, NEW d \in Dirs, StreamCopy(d)
  PROVE  EventsInv' /\ Copies' \subseteq Copies
<1> CopyTypes /\ MarksInv /\ OrderInv /\ ReportsInv
  BY Zenon DEF EventsInv
<1>1. /\ UNCHANGED <<phase, ctr, queue, thread, events, meta, pend, hwm, recving, stored>>
      /\ stream[d] # <<>> /\ stream' = [stream EXCEPT ![d] = Tail(@)]
  BY Zenon DEF StreamCopy, worker
<1>2. ASSUME NEW c \in Dirs
      PROVE  stream'[c] \in Seq(Items) /\ Range(stream'[c]) \subseteq Range(stream[c])
  <2>1. stream[c] \in Seq(Items)
    BY Zenon DEF CopyTypes
  <2>2. CASE c = d
    <3>1. stream'[c] = Tail(stream[c])
      BY Zenon, <1>1, <2>2 DEF CopyTypes
    <3> QED
      BY Zenon, <1>1, <2>1, <2>2, <3>1, RangeTail
  <2>3. CASE c # d
    BY Zenon, <1>1, <2>1, <2>3 DEF CopyTypes
  <2> QED
    BY <2>2, <2>3
<1>3. Copies' \subseteq Copies /\ Waiting' = Waiting
  BY Zenon, <1>1, <1>2 DEF Copies, Waiting, Dirs
<1>4. CopyTypes'
  <2>1. stream' \in [Dirs -> Seq(Items)]
    BY Zenon, <1>1, <1>2 DEF CopyTypes
  <2>2. \A c \in Dirs : \A y \in Range(stream'[c]) : y.dir = c
    BY ZenonT(30), <1>2 DEF CopyTypes
  <2> QED
    BY Zenon, <1>1, <2>1, <2>2 DEF CopyTypes
<1>5. MarksInv'
  BY ZenonT(30), <1>1, <1>3 DEF MarksInv
<1>6. OrderInv'
  BY Zenon, <1>1, <1>3 DEF OrderInv
<1>7. ReportsInv'
  BY <1>1, ReportsFrame
<1> QED
  BY <1>3, <1>4, <1>5, <1>6, <1>7 DEF EventsInv

LEMMA UpdateOutputEvents ==
  ASSUME EventsInv, UpdateOutput
  PROVE  EventsInv'
<1>1. UNCHANGED tracks
  BY ZenonT(30) DEF UpdateOutput, tracks, copies
<1>2. ReportsInv'
  BY Zenon DEF UpdateOutput, ReportsInv
<1> QED
  BY Zenon, <1>1, <1>2, EventsFrame


-----------------------------------------------------------------------------
(***************************************************************************)
(* CopyInv, by action.                                                     *)
(***************************************************************************)
quiet == <<tracks, loadEvent, recving, stored>>
hashes == <<status, blocks, gpuHash, cpuHash, cached, toLoad, inStore>>

LEMMA QuietStep ==
  ASSUME Registrations, EventsInv, UNCHANGED quiet, UNCHANGED toLoad, inStore \subseteq inStore',
         phase = "update" <=> phase' = "update"
  PROVE  Registrations' /\ EventsInv'
<1>1. UNCHANGED tracks /\ UNCHANGED <<hwm, recving, stored>> /\ Copies' = Copies
  BY DEF quiet, tracks, Copies
<1>2. ReportsInv'
  BY Zenon, <1>1, ReportsFrame DEF EventsInv
<1> QED
  BY Zenon, <1>1, <1>2, EventsFrame, RegisteredFrame DEF quiet

LEMMA CopyAdvance ==
  ASSUME CopyInv, Advance
  PROVE  BlocksInv' /\ Registrations' /\ EventsInv'
<1> RefInv /\ BlocksInv /\ Registrations /\ EventsInv
  BY DEF CopyInv
<1>0. /\ StoresInv /\ CopyTypes /\ MarksInv /\ ReportsInv /\ ctr["store"] \in Nat
  BY DEF BlocksInv, EventsInv, CopyTypes, Dirs
<1>1. CASE BeginStep
  <2>1. /\ UNCHANGED quiet /\ UNCHANGED hashes /\ phase # "update" /\ phase' # "update"
    BY Zenon, <1>1 DEF BeginStep, quiet, tracks, hashes, gpu, cpuMap, loads, stores, copies, worker
  <2> QED
    BY Zenon, <2>1, QuietStep, BlocksFrame DEF hashes
<1>2. CASE EndLoop
  <2>1. /\ UNCHANGED quiet /\ UNCHANGED hashes /\ phase # "update" /\ phase' # "update"
    BY <1>2 DEF EndLoop, quiet, tracks, hashes, engine, gpu, cpuMap, loads, stores, copies, worker
  <2> QED
    BY Zenon, <2>1, QuietStep, BlocksFrame DEF hashes
<1>3. CASE BuildMeta
  <2>1. UNCHANGED hashes
    BY Zenon, <1>3 DEF BuildMeta, hashes, gpu, cpuMap, stores
  <2> QED
    BY Zenon, <1>0, <1>3, <2>1, BlocksFrame, BuildMetaRegistered, BuildMetaEvents DEF hashes
<1>4. CASE ExecuteModel
  <2>1. UNCHANGED hashes /\ UNCHANGED loadEvent
    BY <1>4 DEF ExecuteModel, hashes, gpu, cpuMap, loads, stores
  <2> QED
    BY Zenon, <1>4, <2>1, BlocksFrame, RegisteredFrame, ExecuteModelEvents DEF hashes
<1>5. CASE Poll
  <2>1. UNCHANGED hashes /\ UNCHANGED <<loadEvent, queue, stream, meta>>
    BY Zenon, <1>5 DEF Poll, hashes, engine, gpu, cpuMap, loads, stores
  <2>2. Copies' = Copies
    BY <2>1 DEF Copies
  <2> QED
    BY <1>5, <2>1, <2>2, BlocksFrame, RegisteredFrame, PollEvents DEF hashes
<1>6. CASE UpdateOutput
  BY Zenon, <1>0, <1>6, UpdateOutputBlocks, UpdateOutputRegistered, UpdateOutputEvents
<1>7. ASSUME NEW r \in Reqs, EagerStore(r) PROVE BlocksInv' /\ Registrations' /\ EventsInv'
  <2>1. /\ UNCHANGED quiet /\ UNCHANGED toLoad /\ phase = phase'
    BY Zenon, <1>7 DEF EagerStore, quiet, tracks, loads, copies, worker
  <2> QED
    BY Zenon, <1>0, <1>7, <2>1, QuietStep, EagerStoreBlocks
<1>8. ASSUME NEW d \in Dirs, Sync(d) PROVE BlocksInv' /\ Registrations' /\ EventsInv'
  <2>1. UNCHANGED hashes /\ UNCHANGED <<loadEvent, queue, stream, meta>>
    BY Zenon, <1>8 DEF Sync, hashes, engine, gpu, cpuMap, loads, stores, copies
  <2>2. Copies' = Copies
    BY Zenon, <2>1 DEF Copies
  <2> QED
    BY Zenon, <1>8, <2>1, <2>2, BlocksFrame, RegisteredFrame, SyncEvents DEF hashes
<1>9. ASSUME NEW d \in Dirs, Clear(d) PROVE BlocksInv' /\ Registrations' /\ EventsInv'
  <2>1. UNCHANGED hashes /\ UNCHANGED <<loadEvent, queue, stream, meta>>
    BY Zenon, <1>9 DEF Clear, hashes, engine, gpu, cpuMap, loads, stores, worker
  <2>2. Copies' = Copies
    BY Zenon, <2>1 DEF Copies
  <2> QED
    BY Zenon, <1>9, <2>1, <2>2, BlocksFrame, RegisteredFrame, ClearEvents DEF hashes
<1> QED
  BY Zenon, <1>1, <1>2, <1>3, <1>4, <1>5, <1>6, <1>7, <1>8, <1>9 DEF Advance


LEMMA CopyChoices ==
  ASSUME CopyInv, Choices
  PROVE  BlocksInv' /\ Registrations' /\ EventsInv'
<1> RefInv /\ BlocksInv /\ Registrations /\ EventsInv
  BY DEF CopyInv
<1>0. ctr["store"] \in Nat /\ ReportsInv
  BY DEF EventsInv, CopyTypes, Dirs
<1>1. ASSUME NEW r \in Reqs, LookUpOnly(r) PROVE BlocksInv' /\ Registrations' /\ EventsInv'
  <2>1. UNCHANGED quiet /\ UNCHANGED hashes /\ phase # "update" /\ phase' # "update"
    BY Zenon, <1>1 DEF LookUpOnly, Visit, quiet, tracks, hashes, gpu, cpuMap, stores, copies, worker
  <2> QED
    BY Zenon, <2>1, QuietStep, BlocksFrame DEF hashes
<1>2. ASSUME NEW r \in Reqs, StartFresh(r) PROVE BlocksInv' /\ Registrations' /\ EventsInv'
  <2>1. UNCHANGED quiet /\ UNCHANGED <<toLoad, inStore, phase>>
    BY Zenon, <1>2 DEF StartFresh, Visit, quiet, tracks, stores, copies, worker
  <2> QED
    BY Zenon, <1>2, <2>1, QuietStep, StartFreshBlocks
<1>3. ASSUME NEW r \in Reqs, StartLoad(r) PROVE BlocksInv' /\ Registrations' /\ EventsInv'
  <2>1. UNCHANGED tracks /\ UNCHANGED <<hwm, recving, stored, phase>>
    BY Zenon, <1>3 DEF StartLoad, Visit, tracks, copies, worker
  <2>2. EventsInv'
    BY Zenon, <1>0, <2>1, ReportsFrame, EventsFrame
  <2> QED
    BY Zenon, <1>3, <2>2, StartLoadRegistered, StartLoadBlocks
<1>4. ASSUME NEW r \in Reqs, Promote(r) PROVE BlocksInv' /\ Registrations' /\ EventsInv'
  <2>1. UNCHANGED quiet /\ UNCHANGED <<toLoad, inStore, phase>>
    BY Zenon, <1>4 DEF Promote, quiet, tracks, loads, stores, copies, worker
  <2> QED
    BY Zenon, <1>4, <2>1, QuietStep, PromoteBlocks
<1>5. ASSUME NEW r \in Reqs, Continue(r) PROVE BlocksInv' /\ Registrations' /\ EventsInv'
  <2>1. UNCHANGED quiet /\ UNCHANGED <<toLoad, inStore, phase>>
    BY Zenon, <1>5 DEF Continue, Visit, quiet, tracks, loads, stores, copies, worker
  <2> QED
    BY Zenon, <1>5, <2>1, QuietStep, ContinueBlocks
<1>6. ASSUME NEW r \in Reqs, Preempt(r) PROVE BlocksInv' /\ Registrations' /\ EventsInv'
  <2>1. UNCHANGED quiet /\ UNCHANGED <<toLoad, inStore, phase>>
    BY Zenon, <1>6 DEF Preempt, quiet, tracks, loads, copies, worker
  <2> QED
    BY Zenon, <1>6, <2>1, QuietStep, PreemptBlocks
<1>7. ASSUME NEW r \in Reqs, Finish(r) PROVE BlocksInv' /\ Registrations' /\ EventsInv'
  <2>1. UNCHANGED quiet /\ UNCHANGED <<toLoad, inStore, phase>>
    BY Zenon, <1>7 DEF Finish, quiet, tracks, copies, worker
  <2> QED
    BY Zenon, <1>7, <2>1, QuietStep, FinishBlocks
<1>8. CASE LazyStore
  <2>1. UNCHANGED quiet /\ UNCHANGED <<toLoad, phase>>
    BY Zenon, <1>8 DEF LazyStore, quiet, tracks, loads, copies, worker
  <2> QED
    BY Zenon, <1>0, <1>8, <2>1, QuietStep, LazyStoreBlocks
<1> QED
  BY Zenon, <1>1, <1>2, <1>3, <1>4, <1>5, <1>6, <1>7, <1>8 DEF Choices

LEMMA CopyDevice ==
  ASSUME CopyInv, Device
  PROVE  BlocksInv' /\ Registrations' /\ EventsInv'
<1> BlocksInv /\ Registrations /\ EventsInv
  BY Zenon DEF CopyInv
<1>1. UNCHANGED hashes /\ UNCHANGED loadEvent
  BY Zenon DEF Device, ThreadIssue, ThreadRecord, StreamCompute, StreamCopy, hashes, engine, gpu,
         cpuMap, loads, stores
<1>2. BlocksInv'
  BY Zenon, <1>1, BlocksFrame DEF hashes
<1>3. CASE ThreadIssue
  BY Zenon, <1>1, <1>2, <1>3, RegisteredFrame, ThreadIssueEvents DEF hashes
<1>4. CASE ThreadRecord
  <2>1. Copies' = Copies
    BY Zenon, <1>4 DEF ThreadRecord, worker, Copies
  <2> QED
    BY Zenon, <1>1, <1>2, <1>4, <2>1, RegisteredFrame, ThreadRecordEvents DEF hashes
<1>5. CASE StreamCompute
  <2>1. UNCHANGED quiet /\ phase' = phase
    BY Zenon, <1>5 DEF StreamCompute, quiet, tracks, loads, copies, worker
  <2> QED
    BY Zenon, <1>1, <1>2, <2>1, QuietStep DEF hashes
<1>6. ASSUME NEW d \in Dirs, StreamCopy(d) PROVE Registrations' /\ EventsInv'
  BY Zenon, <1>1, <1>6, RegisteredFrame, StreamCopyEvents DEF hashes
<1> QED
  BY Zenon, <1>2, <1>3, <1>4, <1>5, <1>6 DEF Device

LEMMA CopyInit ==
  ASSUME Init
  PROVE  CopyInv
<1>1. RefInv
  BY Zenon, RefInit
<1>2. /\ blocks = [r \in Reqs |-> <<>>] /\ toLoad = [r \in Reqs |-> {}] /\ inStore = {}
      /\ ctr = [d \in Dirs |-> 0] /\ meta = <<>> /\ pend = [d \in Dirs |-> {}]
      /\ queue = <<>> /\ thread = None /\ stream = [d \in Dirs |-> <<>>]
      /\ events = [d \in Dirs |-> <<>>] /\ hwm = [d \in Dirs |-> -1]
      /\ recving = {} /\ stored = {}
  BY DEF Init
<1>3. Range(<<>>) = {} /\ DOMAIN <<>> = {} /\ <<>> \in Seq(Items) /\ <<>> \in Seq(Nat)
  BY SMTT(30) DEF Range
<1>4. BlocksInv
  BY Zenon, <1>2, <1>3 DEF BlocksInv, LoadsInv, StoresInv, HashesInv, Row
<1>5. Copies = {} /\ Waiting = {}
  BY Zenon, <1>2, <1>3 DEF Copies, Waiting, Dirs
<1>6. CopyTypes
  BY SMTT(30), <1>2, <1>3 DEF CopyTypes
<1>7. MarksInv
  BY SMTT(30), <1>2, <1>3, <1>5 DEF MarksInv
<1>8. OrderInv
  BY Zenon, <1>2, <1>3, <1>5 DEF OrderInv
<1>9. ReportsInv
  BY <1>2 DEF ReportsInv
<1> QED
  BY Zenon, <1>1, <1>4, <1>5, <1>6, <1>7, <1>8, <1>9 DEF CopyInv, Registrations, EventsInv

\* From build_connector_meta until a stream has executed it, a copy keeps both ends,
\* whatever is preempted, aborted, finished, looked up or stored meanwhile: the source of a
\* store carries the hash stamped on its destination, which is not published; the source of
\* a load stays published, and its destination is cached under no hash.
THEOREM CopiesProtected == Spec => []CopiesKeepTheirBlocks
<1>1. Init => CopyInv
  BY CopyInit
<1>2. ASSUME CopyInv, [Next]_vars PROVE CopyInv'
  <2>1. RefInv'
    BY <1>2, RefNext DEF CopyInv
  <2>2. CASE Next
    BY Zenon, <1>2, <2>1, <2>2, CopyAdvance, CopyChoices, CopyDevice DEF Next, CopyInv
  <2>3. CASE UNCHANGED vars
    <3>1. UNCHANGED quiet /\ UNCHANGED hashes /\ phase' = phase
      BY <2>3 DEF vars, quiet, tracks, hashes, engine, gpu, cpuMap, loads, stores, copies, worker
    <3> QED
      BY Zenon, <1>2, <2>1, <3>1, QuietStep, BlocksFrame DEF CopyInv, hashes
  <2> QED
    BY <1>2, <2>2, <2>3
<1>3. CopyInv => CopiesKeepTheirBlocks
  BY CopiesKept
<1> QED
  BY <1>1, <1>2, <1>3, PTL DEF Spec
=============================================================================
