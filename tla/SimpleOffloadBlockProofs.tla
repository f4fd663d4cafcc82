----------------------- MODULE SimpleOffloadBlockProofs -----------------------
(***************************************************************************)
(* v1/simple_kv_offload for every number of requests, blocks and events:   *)
(* the reference counts of both pools are exact, and the blocks that loads *)
(* and stores were given keep their hashes and their owners.               *)
(***************************************************************************)
EXTENDS SimpleOffloadProps, FiniteSetTheorems, SequenceTheorems, TLAPS

Statuses == {"waiting", "loading", "loaded", "ready", "running", "finished"}

\* Who holds a block of the CPU pool, and who one of the GPU pool.
Pins(c) == {r \in Reqs : c \in hits[r]}
CpuLoads(c) == {r \in Reqs : \E p \in toLoad[r] : p[1] = c}
CpuStores(c) == {t \in inStore : t[3] = c}
Tables(g) == {r \in Reqs : g \in Range(blocks[r])}
GpuLoads(g) == {r \in Reqs : \E p \in toLoad[r] : p[2] = g}
GpuStores(g) == {t \in inStore : t[2] = g}

RefTypes ==
    /\ status \in [Reqs -> Statuses]
    /\ blocks \in [Reqs -> Seq(GpuBlocks)]
    /\ gpuRef \in [GpuBlocks -> Int] /\ cpuRef \in [CpuBlocks -> Int]
    /\ hits \in [Reqs -> SUBSET CpuBlocks]
    /\ toLoad \in [Reqs -> SUBSET (CpuBlocks \X GpuBlocks)]
    /\ cached \subseteq CpuBlocks
    /\ IsFiniteSet(inStore) /\ \A t \in inStore : t[2] \in GpuBlocks /\ t[3] \in CpuBlocks

\* A table has no block twice, and a request whose blocks a load writes keeps its table.
TablesInv ==
    \A r \in Reqs :
        /\ IsInjective(blocks[r])
        /\ status[r] = "waiting" => blocks[r] = <<>>
        /\ toLoad[r] # {} => status[r] \in {"loading", "finished"}

CpuRefs == \A c \in CpuBlocks :
    cpuRef[c] = Cardinality(Pins(c)) + Cardinality(CpuLoads(c)) + Cardinality(CpuStores(c))
GpuRefs == \A g \in GpuBlocks :
    gpuRef[g] = Cardinality(Tables(g)) + Cardinality(GpuLoads(g)) + Cardinality(GpuStores(g))

RefInv == RefTypes /\ TablesInv /\ CpuRefs /\ GpuRefs

LEMMA RefTyped ==
  ASSUME RefInv
  PROVE  /\ status \in [Reqs -> Statuses] /\ blocks \in [Reqs -> Seq(GpuBlocks)]
         /\ gpuRef \in [GpuBlocks -> Int] /\ cpuRef \in [CpuBlocks -> Int]
         /\ hits \in [Reqs -> SUBSET CpuBlocks]
         /\ toLoad \in [Reqs -> SUBSET (CpuBlocks \X GpuBlocks)]
         /\ cached \subseteq CpuBlocks /\ IsFiniteSet(inStore)
  BY Zenon DEF RefInv, RefTypes

LEMMA TableTyped ==
  ASSUME RefInv, NEW q \in Reqs
  PROVE  /\ blocks[q] \in Seq(GpuBlocks) /\ IsInjective(blocks[q])
         /\ Len(blocks[q]) \in Nat /\ DOMAIN blocks[q] = 1 .. Len(blocks[q])
         /\ \A i \in DOMAIN blocks[q] :
               blocks[q][i] \in GpuBlocks /\ blocks[q][i] \in Range(blocks[q])
         /\ \A g \in Range(blocks[q]) :
               g \in GpuBlocks /\ \E i \in DOMAIN blocks[q] : g = blocks[q][i]
<1>1. blocks[q] \in Seq(GpuBlocks) /\ IsInjective(blocks[q])
  BY DEF RefInv, RefTypes, TablesInv
<1>2. Len(blocks[q]) \in Nat /\ DOMAIN blocks[q] = 1 .. Len(blocks[q])
  BY <1>1, LenProperties
<1>3. \A i \in DOMAIN blocks[q] :
         blocks[q][i] \in GpuBlocks /\ blocks[q][i] \in Range(blocks[q])
  BY <1>1, <1>2 DEF Range
<1>4. \A g \in Range(blocks[q]) : \E i \in DOMAIN blocks[q] : g = blocks[q][i]
  BY Zenon DEF Range
<1> QED
  BY Zenon, <1>1, <1>2, <1>3, <1>4

LEMMA LoadTyped ==
  ASSUME RefInv, NEW q \in Reqs, NEW p \in toLoad[q]
  PROVE  p[1] \in CpuBlocks /\ p[2] \in GpuBlocks
  BY DEF RefInv, RefTypes

LEMMA StoreTyped ==
  ASSUME RefInv, NEW t \in inStore
  PROVE  t[2] \in GpuBlocks /\ t[3] \in CpuBlocks
  BY Zenon DEF RefInv, RefTypes

\* Replacing the value of one request.
LEMMA NoBlocks == Range(<<>>) = {} /\ IsInjective(<<>>) /\ \A S : <<>> \in Seq(S)
<1>1. DOMAIN <<>> = {} /\ \A S : <<>> \in Seq(S)
  OBVIOUS
<1> QED
  BY <1>1 DEF Range, IsInjective

LEMMA Replaced ==
  ASSUME NEW S, NEW f \in [Reqs -> S], NEW r \in Reqs, NEW x
  PROVE  /\ [f EXCEPT ![r] = x][r] = x
         /\ \A q \in Reqs \ {r} : [f EXCEPT ![r] = x][q] = f[q]
  OBVIOUS

-----------------------------------------------------------------------------
(***************************************************************************)
(* Counting.                                                               *)
(***************************************************************************)
One(x, S) == IF x \in S THEN 1 ELSE 0

LEMMA OneValue == \A x, S : One(x, S) = (IF x \in S THEN 1 ELSE 0) /\ One(x, S) \in Int
  BY DEF One

\* A count of the holders of a block, in three parts.
Sum(m, a, b, c) == m = a + b + c

LEMMA SumMore ==
  \A a, b \in Nat : \A m, n, c, d :
      Sum(m, a, b, c) /\ n = m + 1 /\ c = 0 /\ d = 1 => Sum(n, a, b, d)
  BY DEF Sum

\* The places of a list of n blocks after a others, within m.
LEMMA Within == \A a, n, m \in Nat : a + n <= m => \A i \in 1 .. a + n : i \in 1 .. m /\ i <= m
  OBVIOUS

LEMMA Beyond == \A a, n \in Nat : \A i \in 1 .. a + n : i \notin 1 .. a => \E j \in 1 .. n : i = a + j
<1> SUFFICES ASSUME NEW a \in Nat, NEW n \in Nat, NEW i \in 1 .. a + n, i \notin 1 .. a
             PROVE  \E j \in 1 .. n : i = a + j
  OBVIOUS
<1>1. i - a \in 1 .. n /\ i = a + (i - a)
  OBVIOUS
<1> QED
  BY Zenon, <1>1

\* The lists of n members of S.
Lists(n, S) == [1 .. n -> S]

\* The pairs of the members of two lists of the same length.
ListPairs(T, n, f, g) ==
    /\ T = {<<f[i], g[i]>> : i \in 1 .. n}
    /\ {p[1] : p \in T} = Range(f) /\ {p[2] : p \in T} = Range(g)

LEMMA Pairs ==
  ASSUME NEW n \in Nat, NEW A, NEW B, NEW f \in Lists(n, A), NEW g \in Lists(n, B)
  PROVE  \E T \in SUBSET (A \X B) : ListPairs(T, n, f, g)
<1>1. PICK T : T = {<<f[i], g[i]>> : i \in 1 .. n}
  BY Zenon
<1>2. T \in SUBSET (A \X B)
  BY <1>1 DEF Lists
<1>3. Range(f) = {f[i] : i \in 1 .. n} /\ Range(g) = {g[i] : i \in 1 .. n}
  BY DEF Range, Lists
<1>4. \A i \in 1 .. n : \E p \in T : p[1] = f[i] /\ p[2] = g[i]
  <2> SUFFICES ASSUME NEW i \in 1 .. n
               PROVE  \E p \in T : p[1] = f[i] /\ p[2] = g[i]
    BY Zenon
  <2>1. <<f[i], g[i]>> \in T
    BY <1>1
  <2> QED
    BY <2>1
<1>5. \A p \in T : \E i \in 1 .. n : p[1] = f[i] /\ p[2] = g[i]
  BY <1>1
<1>6. {p[1] : p \in T} = {f[i] : i \in 1 .. n}
  BY <1>4, <1>5
<1>7. {p[2] : p \in T} = {g[i] : i \in 1 .. n}
  BY <1>4, <1>5
<1> QED
  BY Zenon, <1>1, <1>2, <1>3, <1>6, <1>7 DEF ListPairs

LEMMA CountsFinite ==
  ASSUME RefTypes
  PROVE  /\ \A c : /\ IsFiniteSet(Pins(c)) /\ IsFiniteSet(CpuLoads(c)) /\ IsFiniteSet(CpuStores(c))
                   /\ Cardinality(Pins(c)) \in Nat /\ Cardinality(CpuLoads(c)) \in Nat
                   /\ Cardinality(CpuStores(c)) \in Nat
         /\ \A g : /\ IsFiniteSet(Tables(g)) /\ IsFiniteSet(GpuLoads(g)) /\ IsFiniteSet(GpuStores(g))
                   /\ Cardinality(Tables(g)) \in Nat /\ Cardinality(GpuLoads(g)) \in Nat
                   /\ Cardinality(GpuStores(g)) \in Nat
<1>1. IsFiniteSet(Reqs) /\ IsFiniteSet(inStore)
  BY SimpleAssumption DEF RefTypes
<1>2. \A x : /\ Pins(x) \subseteq Reqs /\ CpuLoads(x) \subseteq Reqs /\ CpuStores(x) \subseteq inStore
             /\ Tables(x) \subseteq Reqs /\ GpuLoads(x) \subseteq Reqs /\ GpuStores(x) \subseteq inStore
  BY DEF Pins, CpuLoads, CpuStores, Tables, GpuLoads, GpuStores
<1> QED
  BY <1>1, <1>2, FS_Subset, FS_CardinalityType

\* A free block is held by nobody.
LEMMA FreeCpu ==
  ASSUME RefInv, NEW c \in FreeOf(cpuRef)
  PROVE  c \in CpuBlocks /\ Pins(c) = {} /\ CpuLoads(c) = {} /\ CpuStores(c) = {}
<1>1. c \in CpuBlocks /\ cpuRef[c] = 0
  BY DEF FreeOf, RefInv, RefTypes
<1>2. Cardinality(Pins(c)) + Cardinality(CpuLoads(c)) + Cardinality(CpuStores(c)) = 0
  BY <1>1 DEF RefInv, CpuRefs
<1>3. Cardinality(Pins(c)) = 0 /\ Cardinality(CpuLoads(c)) = 0 /\ Cardinality(CpuStores(c)) = 0
  BY <1>2, CountsFinite DEF RefInv
<1> QED
  BY <1>1, <1>3, CountsFinite, FS_EmptySet DEF RefInv

LEMMA FreeGpu ==
  ASSUME RefInv, NEW g \in FreeOf(gpuRef)
  PROVE  g \in GpuBlocks /\ Tables(g) = {} /\ GpuLoads(g) = {} /\ GpuStores(g) = {}
<1>1. g \in GpuBlocks /\ gpuRef[g] = 0
  BY DEF FreeOf, RefInv, RefTypes
<1>2. Cardinality(Tables(g)) + Cardinality(GpuLoads(g)) + Cardinality(GpuStores(g)) = 0
  BY <1>1 DEF RefInv, GpuRefs
<1>3. Cardinality(Tables(g)) = 0 /\ Cardinality(GpuLoads(g)) = 0 /\ Cardinality(GpuStores(g)) = 0
  BY <1>2, CountsFinite DEF RefInv
<1> QED
  BY <1>1, <1>3, CountsFinite, FS_EmptySet DEF RefInv

\* A member that comes or goes.
LEMMA CountMember ==
  ASSUME NEW S, NEW T, IsFiniteSet(S), NEW x, T \ {x} = S \ {x}
  PROVE  /\ IsFiniteSet(T) /\ Cardinality(S) \in Nat /\ Cardinality(T) \in Nat
         /\ Cardinality(T) = Cardinality(S) - One(x, S) + One(x, T)
<1>1. CASE x \in S /\ x \notin T
  <2>1. T = S \ {x}
    BY <1>1
  <2> QED
    BY <1>1, <2>1, FS_RemoveElement, FS_CardinalityType DEF One
<1>2. CASE x \notin S /\ x \in T
  <2>1. T = S \cup {x}
    BY <1>2
  <2> QED
    BY <1>2, <2>1, FS_AddElement, FS_CardinalityType DEF One
<1>3. CASE x \in S <=> x \in T
  <2>1. T = S
    BY <1>3
  <2> QED
    BY <1>3, <2>1, FS_CardinalityType DEF One
<1> QED
  BY <1>1, <1>2, <1>3

\* The pins and the load of one request change.
CpuShift(r, H, T) ==
    \A c \in CpuBlocks : cpuRef'[c] = cpuRef[c] - One(c, hits[r]) + One(c, H)
                            - One(c, {p[1] : p \in toLoad[r]}) + One(c, {p[1] : p \in T})

LEMMA CpuMoves ==
  ASSUME RefInv, NEW r \in Reqs, NEW H \in SUBSET CpuBlocks,
         NEW T \in SUBSET (CpuBlocks \X GpuBlocks),
         hits' = [hits EXCEPT ![r] = H], toLoad' = [toLoad EXCEPT ![r] = T], inStore' = inStore,
         CpuShift(r, H, T)
  PROVE  CpuRefs'
<1> SUFFICES ASSUME NEW c \in CpuBlocks
             PROVE  cpuRef'[c] = Cardinality(Pins(c)') + Cardinality(CpuLoads(c)')
                                   + Cardinality(CpuStores(c)')
  BY DEF CpuRefs
<1>1. hits'[r] = H /\ toLoad'[r] = T
      /\ \A q \in Reqs \ {r} : hits'[q] = hits[q] /\ toLoad'[q] = toLoad[q]
  BY DEF RefInv, RefTypes
<1>2. Pins(c)' \ {r} = Pins(c) \ {r} /\ CpuLoads(c)' \ {r} = CpuLoads(c) \ {r}
  BY <1>1 DEF Pins, CpuLoads
<1>3. /\ One(r, Pins(c)) = One(c, hits[r]) /\ One(r, Pins(c)') = One(c, H)
      /\ One(r, CpuLoads(c)) = One(c, {p[1] : p \in toLoad[r]})
      /\ One(r, CpuLoads(c)') = One(c, {p[1] : p \in T})
  BY <1>1 DEF Pins, CpuLoads, One
<1>4. CpuStores(c)' = CpuStores(c)
  BY DEF CpuStores
<1>5. cpuRef[c] = Cardinality(Pins(c)) + Cardinality(CpuLoads(c)) + Cardinality(CpuStores(c))
  BY DEF RefInv, CpuRefs
<1>6. /\ IsFiniteSet(Pins(c)) /\ IsFiniteSet(CpuLoads(c)) /\ Cardinality(CpuStores(c)) \in Nat
  BY CountsFinite DEF RefInv
<1>7. /\ Cardinality(Pins(c)) \in Nat /\ Cardinality(Pins(c)') \in Nat
      /\ Cardinality(Pins(c)') = Cardinality(Pins(c)) - One(r, Pins(c)) + One(r, Pins(c)')
  BY <1>2, <1>6, CountMember
<1>8. /\ Cardinality(CpuLoads(c)) \in Nat /\ Cardinality(CpuLoads(c)') \in Nat
      /\ Cardinality(CpuLoads(c)')
            = Cardinality(CpuLoads(c)) - One(r, CpuLoads(c)) + One(r, CpuLoads(c)')
  BY <1>2, <1>6, CountMember
<1>9. \A x, S : One(x, S) \in Int
  BY DEF One
<1> QED
  BY <1>3, <1>4, <1>5, <1>6, <1>7, <1>8, <1>9 DEF CpuShift

\* The table and the load of one request change.
GpuShift(r, B, T) ==
    \A g \in GpuBlocks : gpuRef'[g] = gpuRef[g] - One(g, Range(blocks[r])) + One(g, Range(B))
                            - One(g, {p[2] : p \in toLoad[r]}) + One(g, {p[2] : p \in T})

LEMMA GpuMoves ==
  ASSUME RefInv, NEW r \in Reqs, NEW B, NEW T \in SUBSET (CpuBlocks \X GpuBlocks),
         blocks' = [blocks EXCEPT ![r] = B], toLoad' = [toLoad EXCEPT ![r] = T],
         inStore' = inStore, GpuShift(r, B, T)
  PROVE  GpuRefs'
<1> SUFFICES ASSUME NEW g \in GpuBlocks
             PROVE  gpuRef'[g] = Cardinality(Tables(g)') + Cardinality(GpuLoads(g)')
                                   + Cardinality(GpuStores(g)')
  BY DEF GpuRefs
<1>1. blocks'[r] = B /\ toLoad'[r] = T
      /\ \A q \in Reqs \ {r} : blocks'[q] = blocks[q] /\ toLoad'[q] = toLoad[q]
  BY DEF RefInv, RefTypes
<1>2. Tables(g)' \ {r} = Tables(g) \ {r} /\ GpuLoads(g)' \ {r} = GpuLoads(g) \ {r}
  BY <1>1 DEF Tables, GpuLoads
<1>3. /\ One(r, Tables(g)) = One(g, Range(blocks[r])) /\ One(r, Tables(g)') = One(g, Range(B))
      /\ One(r, GpuLoads(g)) = One(g, {p[2] : p \in toLoad[r]})
      /\ One(r, GpuLoads(g)') = One(g, {p[2] : p \in T})
  BY <1>1 DEF Tables, GpuLoads, One
<1>4. GpuStores(g)' = GpuStores(g)
  BY DEF GpuStores
<1>5. gpuRef[g] = Cardinality(Tables(g)) + Cardinality(GpuLoads(g)) + Cardinality(GpuStores(g))
  BY DEF RefInv, GpuRefs
<1>6. /\ IsFiniteSet(Tables(g)) /\ IsFiniteSet(GpuLoads(g)) /\ Cardinality(GpuStores(g)) \in Nat
  BY CountsFinite DEF RefInv
<1>7. /\ Cardinality(Tables(g)) \in Nat /\ Cardinality(Tables(g)') \in Nat
      /\ Cardinality(Tables(g)') = Cardinality(Tables(g)) - One(r, Tables(g)) + One(r, Tables(g)')
  BY Zenon, <1>2, <1>6, CountMember
<1>8. /\ Cardinality(GpuLoads(g)) \in Nat /\ Cardinality(GpuLoads(g)') \in Nat
      /\ Cardinality(GpuLoads(g)')
            = Cardinality(GpuLoads(g)) - One(r, GpuLoads(g)) + One(r, GpuLoads(g)')
  BY <1>2, <1>6, CountMember
<1>9. \A x, S : One(x, S) \in Int
  BY DEF One
<1> QED
  BY <1>3, <1>4, <1>5, <1>6, <1>7, <1>8, <1>9 DEF GpuShift

-----------------------------------------------------------------------------
(***************************************************************************)
(* Prefixes and tables.                                                    *)
(***************************************************************************)
LEMMA Smallest ==
  ASSUME NEW T, T \subseteq Nat, T # {}
  PROVE  \E x \in T : \A y \in T : x <= y
<1>1. PICK x \in T : \A y \in T : ~(<<y, x>> \in OpToRel(<, Nat))
  BY Zenon, NatLessThanWellFounded, WFMin
<1>2. \A y \in T : ~(y < x)
  BY Zenon, <1>1 DEF OpToRel
<1> QED
  BY <1>2

LEMMA LeadingExists ==
  ASSUME NEW r \in Reqs, NEW n \in Nat, n <= Len(Prompt[r]), NEW S
  PROVE  LET m == Leading(r, n, S)
         IN  /\ m \in 0 .. Len(Prompt[r]) - n
             /\ \A i \in n + 1 .. n + m : Prompt[r][i] \in S
<1> DEFINE L == Len(Prompt[r])
           P(m) == /\ \A i \in n + 1 .. n + m : Prompt[r][i] \in S
                   /\ n + m = L \/ Prompt[r][n + m + 1] \notin S
           Bad == {i \in n + 1 .. L : Prompt[r][i] \notin S}
<1>1. L \in Nat
  BY SimpleAssumption, LenProperties
<1>2. \E m \in 0 .. L - n : P(m)
  <2>1. CASE Bad = {}
    <3>1. L - n \in 0 .. L - n /\ P(L - n)
      BY <1>1, <2>1
    <3> QED
      BY <3>1
  <2>2. CASE Bad # {}
    <3>0. Bad \subseteq Nat
      BY <1>1
    <3>1. PICK x \in Bad : \A y \in Bad : x <= y
      BY Zenon, <2>2, <3>0, Smallest
    <3>2. x - n - 1 \in 0 .. L - n /\ P(x - n - 1)
      BY <1>1, <3>1
    <3> QED
      BY Zenon, <3>2
  <2> QED
    BY <2>1, <2>2
<1>3. Leading(r, n, S) = CHOOSE m \in 0 .. L - n : P(m)
  BY DEF Leading
<1> HIDE DEF P
<1>4. Leading(r, n, S) \in 0 .. L - n /\ P(Leading(r, n, S))
  BY <1>2, <1>3
<1> QED
  BY <1>4 DEF P

LEMMA HitsType ==
  ASSUME NEW r \in Reqs
  PROVE  /\ LocalHits(r) \in Nat /\ CpuHits(r) \in Nat
         /\ LocalHits(r) + CpuHits(r) <= Len(Prompt[r]) /\ LocalHits(r) <= Len(Prompt[r])
<1>1. Len(Prompt[r]) \in Nat
  BY SimpleAssumption, LenProperties
<1>2. LocalHits(r) \in 0 .. Len(Prompt[r]) - 0
  BY <1>1, LeadingExists DEF LocalHits
<1>3. CpuHits(r) \in 0 .. Len(Prompt[r]) - LocalHits(r)
  BY <1>1, <1>2, LeadingExists DEF CpuHits
<1> QED
  BY <1>1, <1>2, <1>3

LEMMA Extended ==
  ASSUME NEW s \in Seq(GpuBlocks), NEW n \in Nat, NEW t \in Lists(n, GpuBlocks)
  PROVE  /\ t \in Seq(GpuBlocks) /\ s \o t \in Seq(GpuBlocks)
         /\ Len(s \o t) = Len(s) + n /\ DOMAIN s = 1 .. Len(s) /\ Len(s) \in Nat
         /\ \A i \in 1 .. Len(s) : (s \o t)[i] = s[i]
         /\ \A i \in 1 .. n : (s \o t)[Len(s) + i] = t[i]
         /\ DOMAIN (s \o t) = 1 .. Len(s) + n
<1>1. t \in Seq(GpuBlocks) /\ Len(t) = n
  BY IsASeq, LenProperties DEF Lists
<1>2. Len(s) \in Nat /\ DOMAIN s = 1 .. Len(s)
  BY LenProperties
<1>3. /\ s \o t \in Seq(GpuBlocks) /\ Len(s \o t) = Len(s) + n
      /\ \A i \in 1 .. Len(s) + n :
            (s \o t)[i] = IF i <= Len(s) THEN s[i] ELSE t[i - Len(s)]
  BY Zenon, <1>1, ConcatProperties
<1>4. DOMAIN (s \o t) = 1 .. Len(s) + n
  BY <1>3, LenProperties
<1>5. ASSUME NEW i \in 1 .. n PROVE (s \o t)[Len(s) + i] = t[i]
  <2>1. Len(s) + i \in 1 .. Len(s) + n /\ ~(Len(s) + i <= Len(s)) /\ Len(s) + i - Len(s) = i
    BY <1>2
  <2> QED
    BY <1>3, <2>1
<1>6. ASSUME NEW i \in 1 .. Len(s) PROVE (s \o t)[i] = s[i]
  BY <1>2, <1>3
<1> QED
  BY <1>1, <1>2, <1>3, <1>4, <1>5, <1>6

LEMMA ExtendedRange ==
  ASSUME NEW s \in Seq(GpuBlocks), NEW n \in Nat, NEW t \in Lists(n, GpuBlocks)
  PROVE  /\ Range(s \o t) = Range(s) \cup Range(t)
         /\ IsInjective(s) /\ IsInjective(t) /\ Range(s) \cap Range(t) = {} => IsInjective(s \o t)
<1>1. /\ Len(s) \in Nat /\ DOMAIN s = 1 .. Len(s) /\ DOMAIN t = 1 .. n
      /\ \A i \in 1 .. Len(s) : (s \o t)[i] = s[i]
      /\ \A i \in 1 .. n : (s \o t)[Len(s) + i] = t[i]
      /\ DOMAIN (s \o t) = 1 .. Len(s) + n
  BY Extended DEF Lists
<1>2. \A i \in 1 .. Len(s) + n : i \in 1 .. Len(s) \/ \E j \in 1 .. n : i = Len(s) + j
  <2> SUFFICES ASSUME NEW i \in 1 .. Len(s) + n, ~(i \in 1 .. Len(s))
               PROVE  \E j \in 1 .. n : i = Len(s) + j
    BY Zenon
  <2>1. i - Len(s) \in 1 .. n /\ i = Len(s) + (i - Len(s))
    BY <1>1
  <2> QED
    BY <2>1
<1>3. \A j \in 1 .. n : Len(s) + j \in 1 .. Len(s) + n
  BY <1>1
<1>4. \A i \in 1 .. Len(s) : i \in 1 .. Len(s) + n
  BY <1>1
<1>5. Range(s \o t) = Range(s) \cup Range(t)
  <2>1. ASSUME NEW x \in Range(s \o t) PROVE x \in Range(s) \cup Range(t)
    BY <1>1, <1>2, <2>1 DEF Range
  <2>2. ASSUME NEW x \in Range(s) PROVE x \in Range(s \o t)
    BY <1>1, <1>4, <2>2 DEF Range
  <2>3. ASSUME NEW x \in Range(t) PROVE x \in Range(s \o t)
    <3>1. PICK j \in 1 .. n : x = t[j]
      BY <1>1, <2>3 DEF Range
    <3>2. Len(s) + j \in DOMAIN (s \o t) /\ (s \o t)[Len(s) + j] = x
      BY <1>1, <1>3, <3>1
    <3> QED
      BY <3>2 DEF Range
  <2> QED
    BY <2>1, <2>2, <2>3
<1>6. ASSUME IsInjective(s), IsInjective(t), Range(s) \cap Range(t) = {}
      PROVE  IsInjective(s \o t)
  <2> SUFFICES ASSUME NEW i \in 1 .. Len(s) + n, NEW j \in 1 .. Len(s) + n,
                      (s \o t)[i] = (s \o t)[j]
               PROVE  i = j
    BY <1>1 DEF IsInjective
  <2>1. CASE i \in 1 .. Len(s) /\ j \in 1 .. Len(s)
    BY <1>1, <1>6, <2>1 DEF IsInjective
  <2>2. CASE i \in 1 .. Len(s) /\ j \notin 1 .. Len(s)
    <3>1. PICK k \in 1 .. n : j = Len(s) + k
      BY Zenon, <1>2, <2>2
    <3>2. s[i] = t[k] /\ s[i] \in Range(s) /\ t[k] \in Range(t)
      BY <1>1, <2>2, <3>1 DEF Range
    <3> QED
      BY <1>6, <3>2
  <2>3. CASE i \notin 1 .. Len(s) /\ j \in 1 .. Len(s)
    <3>1. PICK k \in 1 .. n : i = Len(s) + k
      BY Zenon, <1>2, <2>3
    <3>2. s[j] = t[k] /\ s[j] \in Range(s) /\ t[k] \in Range(t)
      BY <1>1, <2>3, <3>1 DEF Range
    <3> QED
      BY <1>6, <3>2
  <2>4. CASE i \notin 1 .. Len(s) /\ j \notin 1 .. Len(s)
    <3>1. PICK k \in 1 .. n : i = Len(s) + k
      BY Zenon, <1>2, <2>4
    <3>2. PICK m \in 1 .. n : j = Len(s) + m
      BY Zenon, <1>2, <2>4
    <3>3. t[k] = t[m]
      BY <1>1, <3>1, <3>2
    <3> QED
      BY Zenon, <1>1, <1>6, <3>1, <3>2, <3>3 DEF IsInjective
  <2> QED
    BY <2>1, <2>2, <2>3, <2>4
<1> QED
  BY <1>5, <1>6

-----------------------------------------------------------------------------
(***************************************************************************)
(* The steps.                                                              *)
(***************************************************************************)
LEMMA TouchedAt ==
  ASSUME NEW D, NEW ref \in [D -> Int], NEW S
  PROVE  /\ Touched(ref, S) \in [D -> Int] /\ Freed(ref, S) \in [D -> Int]
         /\ \A b \in D : /\ Touched(ref, S)[b] = ref[b] + One(b, S)
                         /\ Freed(ref, S)[b] = ref[b] - One(b, S)
  BY DEF Touched, Freed, One

LEMMA PoolsTouched ==
  ASSUME RefInv, NEW S
  PROVE  /\ Touched(gpuRef, S) \in [GpuBlocks -> Int] /\ Touched(cpuRef, S) \in [CpuBlocks -> Int]
         /\ Freed(cpuRef, S) \in [CpuBlocks -> Int]
         /\ \A g \in GpuBlocks : Touched(gpuRef, S)[g] = gpuRef[g] + One(g, S)
         /\ \A c \in CpuBlocks : /\ Touched(cpuRef, S)[c] = cpuRef[c] + One(c, S)
                                 /\ Freed(cpuRef, S)[c] = cpuRef[c] - One(c, S)
<1>1. PICK g, c : g = gpuRef /\ c = cpuRef
  BY Zenon
<1>2. g \in [GpuBlocks -> Int] /\ c \in [CpuBlocks -> Int]
  BY Zenon, <1>1, RefTyped
<1> QED
  BY <1>1, <1>2, TouchedAt

LEMMA PoolsTwice ==
  ASSUME RefInv, NEW S, NEW U
  PROVE  /\ Touched(Freed(cpuRef, S), U) \in [CpuBlocks -> Int]
         /\ \A c \in CpuBlocks : Touched(Freed(cpuRef, S), U)[c] = cpuRef[c] - One(c, S) + One(c, U)
         /\ Touched(Touched(gpuRef, S), U) \in [GpuBlocks -> Int]
         /\ \A g \in GpuBlocks : Touched(Touched(gpuRef, S), U)[g] = gpuRef[g] + One(g, S) + One(g, U)
<1>1. PICK c, g : c = Freed(cpuRef, S) /\ g = Touched(gpuRef, S)
  BY Zenon
<1>2. c \in [CpuBlocks -> Int] /\ \A b \in CpuBlocks : c[b] = cpuRef[b] - One(b, S)
  BY Zenon, <1>1, PoolsTouched
<1>3. g \in [GpuBlocks -> Int] /\ \A b \in GpuBlocks : g[b] = gpuRef[b] + One(b, S)
  BY Zenon, <1>1, PoolsTouched
<1>4. /\ Touched(c, U) \in [CpuBlocks -> Int]
      /\ \A b \in CpuBlocks : Touched(c, U)[b] = c[b] + One(b, U)
  BY <1>2, TouchedAt
<1>5. /\ Touched(g, U) \in [GpuBlocks -> Int]
      /\ \A b \in GpuBlocks : Touched(g, U)[b] = g[b] + One(b, U)
  BY <1>3, TouchedAt
<1> QED
  BY Zenon, <1>1, <1>2, <1>3, <1>4, <1>5

\* Blocks from get_new_blocks.
LEMMA NewGpu ==
  ASSUME RefInv, NEW n \in Nat, NEW fresh, NEW S, NEW new \in NewBlocks(gpuRef, fresh, S, n)
  PROVE  /\ new \in [1 .. n -> GpuBlocks] /\ IsInjective(new) /\ Range(new) \cap S = {}
         /\ \A g \in Range(new) : Tables(g) = {} /\ GpuLoads(g) = {} /\ GpuStores(g) = {}
<1>1. new \in [1 .. n -> FreeOf(gpuRef) \ S] /\ IsInjective(new)
  BY DEF NewBlocks, Injection
<1>2. Range(new) \subseteq FreeOf(gpuRef) \ S
  BY <1>1 DEF Range
<1>3. FreeOf(gpuRef) \subseteq GpuBlocks
  BY DEF FreeOf, RefInv, RefTypes
<1> QED
  BY <1>1, <1>2, <1>3, FreeGpu

LEMMA NewCpu ==
  ASSUME RefInv, NEW n \in Nat, NEW fresh, NEW S, NEW new \in NewBlocks(cpuRef, fresh, S, n)
  PROVE  /\ new \in [1 .. n -> CpuBlocks] /\ IsInjective(new) /\ Range(new) \cap S = {}
         /\ \A c \in Range(new) : Pins(c) = {} /\ CpuLoads(c) = {} /\ CpuStores(c) = {}
<1>1. new \in [1 .. n -> FreeOf(cpuRef) \ S] /\ IsInjective(new)
  BY DEF NewBlocks, Injection
<1>2. Range(new) \subseteq FreeOf(cpuRef) \ S
  BY <1>1 DEF Range
<1>3. FreeOf(cpuRef) \subseteq CpuBlocks
  BY DEF FreeOf, RefInv, RefTypes
<1> QED
  BY <1>1, <1>2, <1>3, FreeCpu

LEMMA LocalsType ==
  ASSUME NEW r \in Reqs, NEW local \in Locals(r)
  PROVE  local \in Seq(GpuBlocks) /\ IsInjective(local) /\ Len(local) = LocalHits(r)
<1>1. /\ local \in [1 .. LocalHits(r) -> GpuBlocks]
      /\ \A i \in 1 .. LocalHits(r) : gpuHash[local[i]] = Prompt[r][i]
  BY DEF Locals
<1>2. LocalHits(r) \in Nat /\ LocalHits(r) <= Len(Prompt[r]) /\ Len(Prompt[r]) \in Nat
  BY HitsType, SimpleAssumption, LenProperties
<1>3. local \in Seq(GpuBlocks) /\ Len(local) = LocalHits(r)
  BY <1>1, <1>2, IsASeq, LenProperties
<1>4. DOMAIN Prompt[r] = 1 .. Len(Prompt[r]) /\ IsInjective(Prompt[r])
  BY SimpleAssumption, LenProperties
<1>5. \A i \in 1 .. LocalHits(r) : i \in DOMAIN Prompt[r]
  BY <1>2, <1>4
<1> QED
  BY <1>1, <1>3, <1>4, <1>5 DEF IsInjective

LEMMA MatchesType ==
  ASSUME NEW r \in Reqs, NEW match \in Matches(r), cached \subseteq CpuBlocks
  PROVE  match \in [1 .. CpuHits(r) -> cached] /\ Range(match) \subseteq CpuBlocks
  BY DEF Matches, Range

\* allocate_slots of a request whose table is a part of the new one.
LEMMA ComputeRefs ==
  ASSUME RefInv, NEW r \in Reqs, NEW table \in Seq(GpuBlocks), IsInjective(table),
         NEW n \in Nat, Range(blocks[r]) \subseteq Range(table),
         Compute(r, table, n), toLoad' = toLoad, inStore' = inStore
  PROVE  /\ GpuRefs' /\ gpuRef' \in [GpuBlocks -> Int]
         /\ blocks' \in [Reqs -> Seq(GpuBlocks)]
         /\ \A q \in Reqs : IsInjective(blocks'[q]) /\ (q # r => blocks'[q] = blocks[q])
         /\ status' = [status EXCEPT ![r] = "running"]
<1>1. PICK new \in NewBlocks(gpuRef, gpuFresh, Range(table), n) :
        /\ blocks' = [blocks EXCEPT ![r] = table \o new]
        /\ gpuRef' = Touched(gpuRef, Range(new) \cup (Range(table) \ Range(blocks[r])))
        /\ status' = [status EXCEPT ![r] = "running"]
  BY Zenon DEF Compute
<1>2. /\ new \in [1 .. n -> GpuBlocks] /\ IsInjective(new) /\ Range(new) \cap Range(table) = {}
      /\ \A g \in Range(new) : Tables(g) = {} 
  BY <1>1, NewGpu
<1>3. /\ table \o new \in Seq(GpuBlocks) /\ Range(table \o new) = Range(table) \cup Range(new)
      /\ IsInjective(table \o new)
  BY <1>2, Extended, ExtendedRange DEF Lists
<1>4. gpuRef \in [GpuBlocks -> Int] /\ blocks \in [Reqs -> Seq(GpuBlocks)]
      /\ toLoad \in [Reqs -> SUBSET (CpuBlocks \X GpuBlocks)]
  BY DEF RefInv, RefTypes
<1>5. /\ gpuRef' \in [GpuBlocks -> Int]
      /\ \A g \in GpuBlocks :
            gpuRef'[g] = gpuRef[g] + One(g, Range(new) \cup (Range(table) \ Range(blocks[r])))
  <2>1. PICK S : S = Range(new) \cup (Range(table) \ Range(blocks[r]))
    BY Zenon
  <2> QED
    BY <1>1, <1>4, <2>1 DEF Touched, One
<1>6. \A g \in Range(new) : g \notin Range(blocks[r])
  BY <1>2 DEF Tables
<1>7. toLoad' = [toLoad EXCEPT ![r] = toLoad[r]] /\ toLoad[r] \in SUBSET (CpuBlocks \X GpuBlocks)
  BY <1>4
<1>8. ASSUME NEW g \in GpuBlocks
      PROVE  gpuRef'[g] = gpuRef[g] - One(g, Range(blocks[r])) + One(g, Range(table \o new))
                            - One(g, {p[2] : p \in toLoad[r]}) + One(g, {p[2] : p \in toLoad[r]})
  <2>1. gpuRef[g] \in Int
    BY <1>4
  <2>2. One(g, Range(new) \cup (Range(table) \ Range(blocks[r])))
          = One(g, Range(table \o new)) - One(g, Range(blocks[r]))
    BY <1>3, <1>6 DEF One
  <2>3. \A x, S : One(x, S) \in Int
    BY DEF One
  <2> QED
    BY <1>5, <2>1, <2>2, <2>3
<1>9. GpuRefs'
  <2>1. GpuShift(r, table \o new, toLoad[r])
    BY <1>8 DEF GpuShift
  <2> QED
    BY Zenon, <1>1, <1>7, <2>1, GpuMoves
<1> QED
  BY Zenon, <1>1, <1>3, <1>4, <1>5, <1>9 DEF RefInv, TablesInv

refs == <<status, blocks, gpuRef, cpuRef, hits, toLoad, cached, inStore>>

LEMMA RefFrame ==
  ASSUME RefInv, UNCHANGED refs
  PROVE  RefInv'
<1>1. RefTypes' /\ TablesInv'
  BY DEF RefInv, refs, RefTypes, TablesInv
<1>2. CpuRefs' /\ GpuRefs'
  BY DEF RefInv, refs, CpuRefs, GpuRefs, Pins, CpuLoads, CpuStores, Tables, GpuLoads, GpuStores
<1> QED
  BY <1>1, <1>2 DEF RefInv

\* get_num_new_matched_tokens and request_finished: the pins of a request change.
LEMMA PinRefs ==
  ASSUME RefInv, NEW r \in Reqs, NEW H \in SUBSET CpuBlocks, hits' = [hits EXCEPT ![r] = H],
         cpuRef' = Touched(Freed(cpuRef, hits[r]), H), UNCHANGED <<toLoad, inStore>>
  PROVE  CpuRefs' /\ cpuRef' \in [CpuBlocks -> Int] /\ hits' \in [Reqs -> SUBSET CpuBlocks]
<1>1. /\ cpuRef \in [CpuBlocks -> Int] /\ hits \in [Reqs -> SUBSET CpuBlocks]
      /\ toLoad \in [Reqs -> SUBSET (CpuBlocks \X GpuBlocks)]
  BY DEF RefInv, RefTypes
<1>2. Freed(cpuRef, hits[r]) \in [CpuBlocks -> Int]
  BY <1>1, TouchedAt
<1>3. /\ cpuRef' \in [CpuBlocks -> Int]
      /\ \A c \in CpuBlocks : cpuRef'[c] = cpuRef[c] - One(c, hits[r]) + One(c, H)
  BY <1>1, <1>2, TouchedAt
<1>4. CpuShift(r, H, toLoad[r])
  <2>1. \A x, S : One(x, S) \in Int
    BY DEF One
  <2> QED
    BY <1>1, <1>3, <2>1 DEF CpuShift
<1>5. toLoad' = [toLoad EXCEPT ![r] = toLoad[r]] /\ toLoad[r] \in SUBSET (CpuBlocks \X GpuBlocks)
  BY <1>1
<1>6. CpuRefs'
  BY Zenon, <1>4, <1>5, CpuMoves
<1> QED
  BY <1>1, <1>3, <1>6

LEMMA LookUpOnlyRefs ==
  ASSUME RefInv, NEW r \in Reqs, LookUpOnly(r)
  PROVE  RefInv'
<1>1. PICK match \in Matches(r) : /\ hits' = [hits EXCEPT ![r] = Range(match)]
                                  /\ cpuRef' = Touched(Freed(cpuRef, hits[r]), Range(match))
  BY Zenon DEF LookUpOnly, Repinned
<1>2. UNCHANGED <<status, blocks, gpuRef, toLoad, cached, inStore>>
  BY DEF LookUpOnly, Visit, gpu, cpuMap, stores
<1>3. Range(match) \in SUBSET CpuBlocks
  BY Zenon, MatchesType DEF RefInv, RefTypes
<1>4. CpuRefs' /\ cpuRef' \in [CpuBlocks -> Int] /\ hits' \in [Reqs -> SUBSET CpuBlocks]
  BY Zenon, <1>1, <1>2, <1>3, PinRefs
<1>5. RefTypes' /\ TablesInv'
  BY <1>2, <1>4 DEF RefInv, RefTypes, TablesInv
<1>6. GpuRefs'
  BY <1>2 DEF RefInv, GpuRefs, Tables, GpuLoads, GpuStores
<1> QED
  BY <1>4, <1>5, <1>6 DEF RefInv

LEMMA StartFreshRefs ==
  ASSUME RefInv, NEW r \in Reqs, StartFresh(r)
  PROVE  RefInv'
<1>1. /\ status[r] = "waiting" /\ hits' = [hits EXCEPT ![r] = {}]
      /\ cpuRef' = Touched(Freed(cpuRef, hits[r]), {})
      /\ UNCHANGED <<toLoad, cached, inStore>>
  BY DEF StartFresh, Repinned, Visit, cpuMap, stores
<1>2. PICK local \in Locals(r) : Compute(r, local, Chunk(r, LocalHits(r)))
  BY DEF StartFresh
<1>3. PICK H \in SUBSET CpuBlocks : H = {}
  BY Zenon
<1>4. CpuRefs' /\ cpuRef' \in [CpuBlocks -> Int] /\ hits' \in [Reqs -> SUBSET CpuBlocks]
  BY Zenon, <1>1, <1>3, PinRefs
<1>5. Chunk(r, LocalHits(r)) \in Nat
  BY Zenon DEF Chunk
<1>6. blocks[r] = <<>> /\ toLoad[r] = {}
  BY Zenon, <1>1 DEF RefInv, TablesInv
<1>7. Range(blocks[r]) \subseteq Range(local)
  BY <1>6 DEF Range
<1>8. local \in Seq(GpuBlocks) /\ IsInjective(local)
  BY Zenon, LocalsType
<1>9. /\ GpuRefs' /\ gpuRef' \in [GpuBlocks -> Int] /\ blocks' \in [Reqs -> Seq(GpuBlocks)]
      /\ \A q \in Reqs : IsInjective(blocks'[q]) /\ (q # r => blocks'[q] = blocks[q])
      /\ status' = [status EXCEPT ![r] = "running"]
  BY Zenon, <1>1, <1>2, <1>5, <1>7, <1>8, ComputeRefs
<1>10. RefTypes'
  BY <1>1, <1>4, <1>9 DEF RefInv, RefTypes, Statuses
<1>11. TablesInv'
  BY <1>1, <1>6, <1>9 DEF RefInv, RefTypes, TablesInv
<1> QED
  BY Zenon, <1>4, <1>9, <1>10, <1>11 DEF RefInv

LEMMA ContinueRefs ==
  ASSUME RefInv, NEW r \in Reqs, Continue(r)
  PROVE  RefInv'
<1>1. /\ status[r] \in {"running", "ready"} /\ Compute(r, blocks[r], Chunk(r, Len(blocks[r])))
      /\ UNCHANGED <<cpuRef, hits, toLoad, cached, inStore>>
  BY Zenon DEF Continue, Visit, cpuMap, loads, stores
<1>2. Chunk(r, Len(blocks[r])) \in Nat
  BY DEF Chunk
<1>3. blocks[r] \in Seq(GpuBlocks) /\ IsInjective(blocks[r]) /\ toLoad[r] = {}
  BY Zenon, <1>1 DEF RefInv, RefTypes, TablesInv
<1>4. /\ GpuRefs' /\ gpuRef' \in [GpuBlocks -> Int] /\ blocks' \in [Reqs -> Seq(GpuBlocks)]
      /\ \A q \in Reqs : IsInjective(blocks'[q]) /\ (q # r => blocks'[q] = blocks[q])
      /\ status' = [status EXCEPT ![r] = "running"]
  BY Zenon, <1>1, <1>2, <1>3, ComputeRefs
<1>5. RefTypes'
  BY <1>1, <1>4 DEF RefInv, RefTypes, Statuses
<1>6. TablesInv'
  BY Zenon, <1>1, <1>3, <1>4 DEF RefInv, RefTypes, TablesInv
<1>7. CpuRefs'
  BY Zenon, <1>1 DEF RefInv, CpuRefs, Pins, CpuLoads, CpuStores
<1> QED
  BY Zenon, <1>4, <1>5, <1>6, <1>7 DEF RefInv

LEMMA StartLoadRefs ==
  ASSUME RefInv, NEW r \in Reqs, StartLoad(r)
  PROVE  RefInv'
<1>1. /\ status[r] = "waiting" /\ status' = [status EXCEPT ![r] = "loading"]
      /\ hits' = [hits EXCEPT ![r] = {}] /\ UNCHANGED <<cached, inStore>>
  BY ZenonT(30) DEF StartLoad, Visit, cpuMap, stores
<1>2. PICK local \in Locals(r) : \E match \in Matches(r),
           new \in NewBlocks(gpuRef, gpuFresh, Range(local), CpuHits(r)) :
        /\ blocks' = [blocks EXCEPT ![r] = local \o new]
        /\ gpuRef' = Touched(Touched(gpuRef, Range(new) \cup Range(local)), Range(new))
        /\ toLoad' = [toLoad EXCEPT ![r] = {<<match[i], new[i]>> : i \in DOMAIN new}]
        /\ cpuRef' = Touched(Freed(cpuRef, hits[r]), Range(match))
  BY ZenonT(30) DEF StartLoad, LoadRefs, Repinned
<1>2a. PICK match \in Matches(r),
           new \in NewBlocks(gpuRef, gpuFresh, Range(local), CpuHits(r)) :
        /\ blocks' = [blocks EXCEPT ![r] = local \o new]
        /\ gpuRef' = Touched(Touched(gpuRef, Range(new) \cup Range(local)), Range(new))
        /\ toLoad' = [toLoad EXCEPT ![r] = {<<match[i], new[i]>> : i \in DOMAIN new}]
        /\ cpuRef' = Touched(Freed(cpuRef, hits[r]), Range(match))
  BY Zenon, <1>2
<1>3. PICK n \in Nat : n = CpuHits(r)
  BY Zenon, HitsType
<1>4. /\ new \in [1 .. n -> GpuBlocks] /\ IsInjective(new) /\ Range(new) \cap Range(local) = {}
  BY Zenon, <1>2a, <1>3, NewGpu
<1>5. match \in [1 .. n -> cached] /\ match \in [1 .. n -> CpuBlocks] /\ Range(match) \subseteq CpuBlocks
  BY <1>3, MatchesType DEF RefInv, RefTypes
<1>6. local \in Seq(GpuBlocks) /\ IsInjective(local)
  BY Zenon, LocalsType
<1>7. PICK T \in SUBSET (CpuBlocks \X GpuBlocks) :
        /\ T = {<<match[i], new[i]>> : i \in 1 .. n}
        /\ {p[1] : p \in T} = Range(match) /\ {p[2] : p \in T} = Range(new)
  <2>1. match \in Lists(n, CpuBlocks) /\ new \in Lists(n, GpuBlocks)
    BY Zenon, <1>4, <1>5 DEF Lists
  <2>2. \E T \in SUBSET (CpuBlocks \X GpuBlocks) : ListPairs(T, n, match, new)
    BY Zenon, <2>1, Pairs
  <2> QED
    BY Zenon, <2>2 DEF ListPairs
<1>8. toLoad' = [toLoad EXCEPT ![r] = T]
  <2>1. DOMAIN new = 1 .. n
    BY Zenon, <1>4
  <2> QED
    BY Zenon, <1>2a, <1>7, <2>1
<1>9. blocks[r] = <<>> /\ toLoad[r] = {}
  BY Zenon, <1>1 DEF RefInv, TablesInv
<1>10. /\ cpuRef \in [CpuBlocks -> Int] /\ gpuRef \in [GpuBlocks -> Int]
       /\ hits \in [Reqs -> SUBSET CpuBlocks] /\ blocks \in [Reqs -> Seq(GpuBlocks)]
       /\ toLoad \in [Reqs -> SUBSET (CpuBlocks \X GpuBlocks)] /\ status \in [Reqs -> Statuses]
  BY Zenon, RefTyped
<1>11. /\ local \o new \in Seq(GpuBlocks) /\ IsInjective(local \o new)
       /\ Range(local \o new) = Range(local) \cup Range(new)
  <2>1. new \in Lists(n, GpuBlocks) /\ IsInjective(new) /\ Range(local) \cap Range(new) = {}
    BY Zenon, <1>4 DEF Lists
  <2> QED
    BY Zenon, <1>6, <2>1, Extended, ExtendedRange
<1>12. (\A c \in CpuBlocks : cpuRef[c] \in Int) /\ \A g \in GpuBlocks : gpuRef[g] \in Int
  BY Zenon, <1>10
<1>13. cpuRef' \in [CpuBlocks -> Int] /\ CpuRefs'
  <2>1. /\ cpuRef' \in [CpuBlocks -> Int]
        /\ \A c \in CpuBlocks : cpuRef'[c] = cpuRef[c] - One(c, hits[r]) + One(c, Range(match))
    BY Zenon, <1>2a, PoolsTwice
  <2>2. PICK H \in SUBSET CpuBlocks : H = {}
    BY Zenon
  <2>3. ASSUME NEW c \in CpuBlocks
        PROVE  cpuRef'[c] = cpuRef[c] - One(c, hits[r]) + One(c, H)
                              - One(c, {p[1] : p \in toLoad[r]}) + One(c, {p[1] : p \in T})
    <3>1. One(c, H) = 0 /\ One(c, {p[1] : p \in toLoad[r]}) = 0
      BY Zenon, <1>9, <2>2, OneValue
    <3>2. One(c, {p[1] : p \in T}) = One(c, Range(match))
      BY Zenon, <1>7
    <3>3. cpuRef[c] - One(c, hits[r]) + One(c, Range(match))
            = cpuRef[c] - One(c, hits[r]) + 0 - 0 + One(c, Range(match))
      BY <1>12, OneValue
    <3> QED
      BY Zenon, <2>1, <3>1, <3>2, <3>3
  <2>4. CpuShift(r, H, T)
    BY Zenon, <2>3 DEF CpuShift
  <2> QED
    BY Zenon, <1>1, <1>8, <2>1, <2>2, <2>4, CpuMoves
<1>14. gpuRef' \in [GpuBlocks -> Int] /\ GpuRefs'
  <2>1. PICK S : S = Range(new) \cup Range(local)
    BY Zenon
  <2>2. /\ gpuRef' \in [GpuBlocks -> Int]
        /\ \A g \in GpuBlocks : gpuRef'[g] = gpuRef[g] + One(g, S) + One(g, Range(new))
    BY Zenon, <1>2a, <2>1, PoolsTwice
  <2>3. ASSUME NEW g \in GpuBlocks
        PROVE  gpuRef'[g] = gpuRef[g] - One(g, Range(blocks[r])) + One(g, Range(local \o new))
                              - One(g, {p[2] : p \in toLoad[r]}) + One(g, {p[2] : p \in T})
    <3>1. One(g, Range(blocks[r])) = 0 /\ One(g, {p[2] : p \in toLoad[r]}) = 0
      BY Zenon, <1>9, NoBlocks, OneValue
    <3>2. One(g, {p[2] : p \in T}) = One(g, Range(new))
      BY Zenon, <1>7
    <3>3. S = Range(local \o new)
      BY Zenon, <1>11, <2>1
    <3>4. gpuRef[g] + One(g, S) + One(g, Range(new))
            = gpuRef[g] - 0 + One(g, S) - 0 + One(g, Range(new))
      BY <1>12, OneValue
    <3> QED
      BY Zenon, <2>2, <3>1, <3>2, <3>3, <3>4
  <2>4. GpuShift(r, local \o new, T)
    BY Zenon, <2>3 DEF GpuShift
  <2> QED
    BY Zenon, <1>1, <1>2a, <1>8, <1>11, <2>2, <2>4, GpuMoves
<1>15. RefTypes'
  BY ZenonT(30), <1>1, <1>2a, <1>8, <1>10, <1>11, <1>13, <1>14 DEF RefInv, RefTypes, Statuses
<1>16. TablesInv'
  BY Zenon, <1>1, <1>2a, <1>8, <1>10, <1>11 DEF RefInv, TablesInv
<1> QED
  BY Zenon, <1>13, <1>14, <1>15, <1>16 DEF RefInv

LEMMA PromoteRefs ==
  ASSUME RefInv, NEW r \in Reqs, Promote(r)
  PROVE  RefInv'
<1>1. /\ status[r] = "loaded" /\ status' = [status EXCEPT ![r] = "ready"]
      /\ UNCHANGED <<blocks, gpuRef, cpuRef, hits, toLoad, cached, inStore>>
  BY DEF Promote, cpuMap, loads, stores
<1>2. RefTypes' /\ TablesInv'
  BY <1>1 DEF RefInv, RefTypes, TablesInv, Statuses
<1>3. CpuRefs' /\ GpuRefs'
  BY <1>1 DEF RefInv, CpuRefs, GpuRefs, Pins, CpuLoads, CpuStores, Tables, GpuLoads, GpuStores
<1> QED
  BY <1>2, <1>3 DEF RefInv

\* A request gives its blocks back.
LEMMA ReleaseRefs ==
  ASSUME RefInv, NEW r \in Reqs, gpuRef' = Freed(gpuRef, Range(blocks[r])),
         blocks' = [blocks EXCEPT ![r] = <<>>], UNCHANGED <<toLoad, inStore>>
  PROVE  /\ GpuRefs' /\ gpuRef' \in [GpuBlocks -> Int] /\ blocks' \in [Reqs -> Seq(GpuBlocks)]
         /\ \A q \in Reqs : IsInjective(blocks'[q]) /\ (q # r => blocks'[q] = blocks[q])
         /\ blocks'[r] = <<>>
<1>1. /\ gpuRef \in [GpuBlocks -> Int] /\ blocks \in [Reqs -> Seq(GpuBlocks)]
      /\ toLoad \in [Reqs -> SUBSET (CpuBlocks \X GpuBlocks)]
      /\ \A q \in Reqs : IsInjective(blocks[q])
  BY DEF RefInv, RefTypes, TablesInv
<1>3. /\ gpuRef' \in [GpuBlocks -> Int]
      /\ \A g \in GpuBlocks : gpuRef'[g] = gpuRef[g] - One(g, Range(blocks[r]))
  BY <1>1 DEF Freed, One
<1>4. PICK B \in Seq(GpuBlocks) : B = <<>> /\ Range(B) = {} /\ IsInjective(B)
  <2>1. <<>> \in Seq(GpuBlocks) /\ DOMAIN <<>> = {}
    OBVIOUS
  <2>2. Range(<<>>) = {}
    BY <2>1 DEF Range
  <2>3. IsInjective(<<>>)
    BY <2>1 DEF IsInjective
  <2> QED
    BY Zenon, <2>1, <2>2, <2>3
<1>5. GpuShift(r, B, toLoad[r])
  <2>1. \A x, S1 : One(x, S1) \in Int
    BY DEF One
  <2>2. \A g : One(g, Range(B)) = 0
    BY <1>4 DEF One
  <2> QED
    BY <1>1, <1>3, <2>1, <2>2 DEF GpuShift
<1>6. toLoad' = [toLoad EXCEPT ![r] = toLoad[r]] /\ toLoad[r] \in SUBSET (CpuBlocks \X GpuBlocks)
  BY <1>1
<1>7. GpuRefs'
  BY Zenon, <1>4, <1>5, <1>6, GpuMoves
<1> QED
  BY <1>1, <1>3, <1>4, <1>7

LEMMA PreemptRefs ==
  ASSUME RefInv, NEW r \in Reqs, Preempt(r)
  PROVE  RefInv'
<1>1. /\ status[r] = "running" /\ status' = [status EXCEPT ![r] = "waiting"]
      /\ gpuRef' = Freed(gpuRef, Range(blocks[r])) /\ blocks' = [blocks EXCEPT ![r] = <<>>]
      /\ UNCHANGED <<cpuRef, hits, toLoad, cached, inStore>>
  BY DEF Preempt, cpuMap, loads
<1>2. /\ GpuRefs' /\ gpuRef' \in [GpuBlocks -> Int] /\ blocks' \in [Reqs -> Seq(GpuBlocks)]
      /\ \A q \in Reqs : IsInjective(blocks'[q]) /\ (q # r => blocks'[q] = blocks[q])
      /\ blocks'[r] = <<>>
  BY Zenon, <1>1, ReleaseRefs
<1>3. RefTypes'
  BY <1>1, <1>2 DEF RefInv, RefTypes, Statuses
<1>4. TablesInv'
  BY <1>1, <1>2 DEF RefInv, RefTypes, TablesInv
<1>5. CpuRefs'
  BY <1>1 DEF RefInv, CpuRefs, Pins, CpuLoads, CpuStores
<1> QED
  BY <1>2, <1>3, <1>4, <1>5 DEF RefInv

LEMMA FinishRefs ==
  ASSUME RefInv, NEW r \in Reqs, Finish(r)
  PROVE  RefInv'
<1>1. /\ status' = [status EXCEPT ![r] = "finished"] /\ hits' = [hits EXCEPT ![r] = {}]
      /\ cpuRef' = Freed(cpuRef, hits[r]) /\ UNCHANGED <<toLoad, cached, inStore>>
  BY DEF Finish, Unpinned, cpuMap
<1>2. CpuRefs' /\ cpuRef' \in [CpuBlocks -> Int] /\ hits' \in [Reqs -> SUBSET CpuBlocks]
  <2>1. PICK H \in SUBSET CpuBlocks : H = {}
    BY Zenon
  <2>2. cpuRef' = Touched(Freed(cpuRef, hits[r]), H)
    <3>1. cpuRef \in [CpuBlocks -> Int]
      BY DEF RefInv, RefTypes
    <3> QED
      BY <1>1, <2>1, <3>1 DEF Touched, Freed
  <2> QED
    BY Zenon, <1>1, <2>1, <2>2, PinRefs
<1>3. /\ GpuRefs' /\ gpuRef' \in [GpuBlocks -> Int] /\ blocks' \in [Reqs -> Seq(GpuBlocks)]
      /\ \A q \in Reqs : IsInjective(blocks'[q]) /\ (q # r => blocks'[q] = blocks[q])
  <2>1. CASE toLoad[r] # {}
    <3>1. UNCHANGED <<blocks, gpuRef>>
      BY Zenon, <2>1 DEF Finish
    <3>2. GpuRefs'
      BY <1>1, <3>1 DEF RefInv, GpuRefs, Tables, GpuLoads, GpuStores
    <3> QED
      BY Zenon, <3>1, <3>2 DEF RefInv, RefTypes, TablesInv
  <2>2. CASE toLoad[r] = {}
    <3>1. gpuRef' = Freed(gpuRef, Range(blocks[r])) /\ blocks' = [blocks EXCEPT ![r] = <<>>]
      BY <2>2 DEF Finish
    <3> QED
      BY Zenon, <1>1, <3>1, ReleaseRefs
  <2> QED
    BY <2>1, <2>2
<1>4. RefTypes'
  BY <1>1, <1>2, <1>3 DEF RefInv, RefTypes, Statuses
<1>5. TablesInv'
  BY Zenon, <1>1, <1>3 DEF RefInv, RefTypes, TablesInv
<1> QED
  BY Zenon, <1>2, <1>3, <1>4, <1>5 DEF RefInv

\* The triples a store adds to _store_event_to_blocks.
Triples(e, src, dst, n) == {<<e, src[i], dst[i]>> : i \in 1 .. n}
Paired(N, e, src, dst, n) ==
    /\ IsFiniteSet(N)
    /\ \A t \in N : \E i \in 1 .. n : t[1] = e /\ t[2] = src[i] /\ t[3] = dst[i]
    /\ \A i \in 1 .. n : \E t \in N :
          /\ t[1] = e /\ t[2] = src[i] /\ t[3] = dst[i]
          /\ \A u \in N : u[2] = src[i] \/ u[3] = dst[i] => u = t

LEMMA NewTriples ==
  ASSUME NEW n \in Nat, NEW src \in [1 .. n -> GpuBlocks], NEW dst \in [1 .. n -> CpuBlocks],
         IsInjective(src), IsInjective(dst), NEW e
  PROVE  Paired(Triples(e, src, dst, n), e, src, dst, n)
<1>0. PICK N : N = {<<e, src[i], dst[i]>> : i \in 1 .. n} /\ N = Triples(e, src, dst, n)
  BY Zenon DEF Triples
<1>1. PICK f : f = [i \in 1 .. n |-> <<e, src[i], dst[i]>>]
  BY Zenon
<1>2. IsFiniteSet(N)
  <2>1. f \in Surjection(1 .. n, N)
    BY Zenon, <1>0, <1>1 DEF Surjection
  <2>2. IsFiniteSet(1 .. n)
    <3>1. 1 \in Int /\ n \in Int
      OBVIOUS
    <3> QED
      BY <3>1, FS_Interval
  <2> QED
    BY <2>1, <2>2, FS_Surjection
<1>3. /\ \A t \in N : \E i \in 1 .. n : t = f[i]
      /\ \A i \in 1 .. n : f[i] \in N
  BY <1>0, <1>1
<1>4. \A i \in 1 .. n : f[i][1] = e /\ f[i][2] = src[i] /\ f[i][3] = dst[i]
  BY <1>1
<1>5. ASSUME NEW t \in N
      PROVE  \E i \in 1 .. n : t[1] = e /\ t[2] = src[i] /\ t[3] = dst[i]
  BY <1>3, <1>4
<1>6. ASSUME NEW i \in 1 .. n
      PROVE  \E t \in N : /\ t[1] = e /\ t[2] = src[i] /\ t[3] = dst[i]
                          /\ \A u \in N : u[2] = src[i] \/ u[3] = dst[i] => u = t
  <2>1. PICK t \in N : t = f[i]
    BY <1>3
  <2>2. ASSUME NEW u \in N, u[2] = src[i] \/ u[3] = dst[i]
        PROVE  u = t
    <3>1. PICK j \in 1 .. n : u = f[j]
      BY <1>3
    <3>2. src[j] = src[i] \/ dst[j] = dst[i]
      BY <1>4, <2>2, <3>1
    <3>3. i = j
      BY <3>2 DEF IsInjective
    <3> QED
      BY <2>1, <3>1, <3>3
  <2> QED
    BY <1>4, <2>1, <2>2
<1>7. Paired(N, e, src, dst, n)
  BY Zenon, <1>2, <1>5, <1>6 DEF Paired
<1> QED
  BY <1>0, <1>7

LEMMA StoreCounts ==
  ASSUME RefInv, NEW n \in Nat, NEW src \in [1 .. n -> GpuBlocks], IsInjective(src),
         Len(src) = n, Range(src) \cap InFlight = {}, Store(src),
         UNCHANGED <<status, blocks, hits, toLoad>>
  PROVE  RefInv'
<1>1. PICK dst \in NewBlocks(cpuRef, cpuFresh, {}, n) :
        /\ inStore' = inStore \cup {<<ctr["store"], src[i], dst[i]>> : i \in 1 .. n}
        /\ cpuRef' = Touched(cpuRef, Range(dst)) /\ cached' = cached \ Range(dst)
        /\ gpuRef' = Touched(gpuRef, Range(src))
  <2>1. DOMAIN src = 1 .. n
    OBVIOUS
  <2> QED
    BY <2>1 DEF Store, StoreRefs
<1>3. /\ dst \in [1 .. n -> CpuBlocks] /\ IsInjective(dst)
      /\ \A c \in Range(dst) : Pins(c) = {} /\ CpuLoads(c) = {} /\ CpuStores(c) = {}
  <2>1. PICK S : S = {}
    OBVIOUS
  <2> QED
    BY <2>1, NewCpu
<1>4. PICK e : e = ctr["store"]
  OBVIOUS
<1>2. PICK N : N = Triples(e, src, dst, n)
  OBVIOUS
<1>5. Paired(N, e, src, dst, n)
  BY Zenon, <1>2, <1>3, NewTriples
<1>6. inStore' = inStore \cup N
  BY <1>1, <1>2, <1>4 DEF Triples
<1>7. /\ Range(src) = {src[i] : i \in 1 .. n} /\ Range(dst) = {dst[i] : i \in 1 .. n}
      /\ Range(dst) \subseteq CpuBlocks
  BY <1>3 DEF Range
<1>8. /\ cpuRef \in [CpuBlocks -> Int] /\ gpuRef \in [GpuBlocks -> Int]
      /\ IsFiniteSet(inStore) /\ \A t \in inStore : t[2] \in GpuBlocks /\ t[3] \in CpuBlocks
      /\ cached \subseteq CpuBlocks
  BY Zenon, RefTyped, StoreTyped
<1>9. /\ cpuRef' \in [CpuBlocks -> Int] /\ gpuRef' \in [GpuBlocks -> Int]
      /\ \A c \in CpuBlocks : cpuRef'[c] = cpuRef[c] + One(c, Range(dst))
      /\ \A g \in GpuBlocks : gpuRef'[g] = gpuRef[g] + One(g, Range(src))
  BY Zenon, <1>1, PoolsTouched
<1>10. RefTypes'
  <2>1. IsFiniteSet(inStore')
    BY Zenon, <1>5, <1>6, <1>8, FS_Union DEF Paired
  <2>2. \A t \in inStore' : t[2] \in GpuBlocks /\ t[3] \in CpuBlocks
    <3>1. ASSUME NEW t \in N PROVE t[2] \in GpuBlocks /\ t[3] \in CpuBlocks
      <4>1. PICK i \in 1 .. n : t[2] = src[i] /\ t[3] = dst[i]
        BY ZenonT(30), <1>5 DEF Paired
      <4> QED
        BY Zenon, <1>3, <4>1
    <3> QED
      BY <1>6, <1>8, <3>1
  <2>3. cached' \subseteq CpuBlocks
    BY ZenonT(30), <1>1, <1>8
  <2> QED
    BY <1>9, <2>1, <2>2, <2>3 DEF RefInv, RefTypes
<1>11. TablesInv'
  BY Zenon DEF RefInv, TablesInv
<1>12. CpuRefs'
  <2> SUFFICES ASSUME NEW c \in CpuBlocks
               PROVE  cpuRef'[c] = Cardinality(Pins(c)') + Cardinality(CpuLoads(c)')
                                   + Cardinality(CpuStores(c)')
    BY DEF CpuRefs
  <2>1. Pins(c)' = Pins(c) /\ CpuLoads(c)' = CpuLoads(c)
    BY DEF Pins, CpuLoads
  <2>2. cpuRef[c] = Cardinality(Pins(c)) + Cardinality(CpuLoads(c)) + Cardinality(CpuStores(c))
    BY DEF RefInv, CpuRefs
  <2>3. CpuStores(c)' = CpuStores(c) \cup {t \in N : t[3] = c}
    BY Zenon, <1>6 DEF CpuStores
  <2>4. CASE c \in Range(dst)
    <3>1. PICK i \in 1 .. n : c = dst[i]
      BY <1>7, <2>4
    <3>2. PICK t : {u \in N : u[3] = c} = {t}
      <4>1. PICK t \in N : t[3] = dst[i] /\ \A u \in N : u[3] = dst[i] => u = t
        BY Zenon, <1>5 DEF Paired
      <4> QED
        BY Zenon, <3>1, <4>1
    <3>3. CpuStores(c)' = {t} /\ Pins(c) = {} /\ CpuLoads(c) = {} /\ CpuStores(c) = {}
      BY Zenon, <1>3, <2>3, <2>4, <3>2
    <3>4. cpuRef'[c] = cpuRef[c] + 1
      BY Zenon, <1>9, <2>4, OneValue
    <3>5. Cardinality({t}) = 1 /\ Cardinality({}) = 0
      BY Zenon, FS_Singleton, FS_EmptySet
    <3>6. /\ Cardinality(Pins(c)) = 0 /\ Cardinality(CpuLoads(c)) = 0
          /\ Cardinality(CpuStores(c)) = 0 /\ Cardinality(CpuStores(c)') = 1
      BY <3>3, <3>5
    <3>7. Cardinality(Pins(c)) \in Nat /\ Cardinality(CpuLoads(c)) \in Nat
      BY Zenon, CountsFinite DEF RefInv
    <3>8. Sum(cpuRef[c], Cardinality(Pins(c)), Cardinality(CpuLoads(c)), Cardinality(CpuStores(c)))
      BY Zenon, <2>2 DEF Sum
    <3>9. Sum(cpuRef'[c], Cardinality(Pins(c)), Cardinality(CpuLoads(c)), Cardinality(CpuStores(c)'))
      BY Zenon, <3>4, <3>6, <3>7, <3>8, SumMore
    <3> QED
      BY Zenon, <2>1, <3>9 DEF Sum
  <2>5. CASE c \notin Range(dst)
    <3>1. {u \in N : u[3] = c} = {}
      <4>1. ASSUME NEW u \in N PROVE u[3] # c
        <5>1. PICK i \in 1 .. n : u[3] = dst[i]
          BY Zenon, <1>5 DEF Paired
        <5> QED
          BY Zenon, <1>7, <2>5, <5>1
      <4> QED
        BY Zenon, <4>1
    <3>2. cpuRef'[c] = cpuRef[c]
      BY <1>8, <1>9, <2>5 DEF One
    <3> QED
      BY Zenon, <2>1, <2>2, <2>3, <3>1, <3>2
  <2> QED
    BY <2>4, <2>5
<1>13. GpuRefs'
  <2> SUFFICES ASSUME NEW g \in GpuBlocks
               PROVE  gpuRef'[g] = Cardinality(Tables(g)') + Cardinality(GpuLoads(g)')
                                   + Cardinality(GpuStores(g)')
    BY DEF GpuRefs
  <2>1. Tables(g)' = Tables(g) /\ GpuLoads(g)' = GpuLoads(g)
    BY DEF Tables, GpuLoads
  <2>2. gpuRef[g] = Cardinality(Tables(g)) + Cardinality(GpuLoads(g)) + Cardinality(GpuStores(g))
    BY DEF RefInv, GpuRefs
  <2>3. GpuStores(g)' = GpuStores(g) \cup {t \in N : t[2] = g}
    BY Zenon, <1>6 DEF GpuStores
  <2>4. CASE g \in Range(src)
    <3>1. PICK i \in 1 .. n : g = src[i]
      BY <1>7, <2>4
    <3>2. PICK t : {u \in N : u[2] = g} = {t}
      <4>1. PICK t \in N : t[2] = src[i] /\ \A u \in N : u[2] = src[i] => u = t
        BY Zenon, <1>5 DEF Paired
      <4> QED
        BY Zenon, <3>1, <4>1
    <3>3. GpuStores(g) = {}
      BY <2>4 DEF InFlight, GpuStores
    <3>4. GpuStores(g)' = {t}
      BY Zenon, <2>3, <3>2, <3>3
    <3>5. gpuRef'[g] = gpuRef[g] + 1
      BY Zenon, <1>9, <2>4, OneValue
    <3>6. Cardinality(GpuStores(g)') = 1 /\ Cardinality(GpuStores(g)) = 0
      BY Zenon, <3>3, <3>4, FS_Singleton, FS_EmptySet
    <3>7. Cardinality(Tables(g)) \in Nat /\ Cardinality(GpuLoads(g)) \in Nat
      BY CountsFinite DEF RefInv
    <3>8. Sum(gpuRef[g], Cardinality(Tables(g)), Cardinality(GpuLoads(g)), Cardinality(GpuStores(g)))
      BY Zenon, <2>2 DEF Sum
    <3>9. Sum(gpuRef'[g], Cardinality(Tables(g)), Cardinality(GpuLoads(g)), Cardinality(GpuStores(g)'))
      BY Zenon, <3>4, <3>5, <3>6, <3>7, <3>8, SumMore
    <3> QED
      BY Zenon, <2>1, <3>9 DEF Sum
  <2>5. CASE g \notin Range(src)
    <3>1. {u \in N : u[2] = g} = {}
      <4>1. ASSUME NEW u \in N PROVE u[2] # g
        <5>1. PICK i \in 1 .. n : u[2] = src[i]
          BY Zenon, <1>5 DEF Paired
        <5> QED
          BY Zenon, <1>7, <2>5, <5>1
      <4> QED
        BY Zenon, <4>1
    <3>2. gpuRef'[g] = gpuRef[g]
      BY <1>8, <1>9, <2>5 DEF One
    <3> QED
      BY Zenon, <2>1, <2>2, <2>3, <3>1, <3>2
  <2> QED
    BY <2>4, <2>5
<1> QED
  BY Zenon, <1>10, <1>11, <1>12, <1>13 DEF RefInv


\* What _prepare_eager_store_specs picks: blocks of the request's table, none twice and
\* none that a store holds.
LEMMA EagerSource ==
  ASSUME RefInv, NEW r \in Reqs, EagerStore(r)
  PROVE  \E n \in Nat : \E src \in [1 .. n -> GpuBlocks] :
            /\ IsInjective(src) /\ Len(src) = n /\ Store(src)
            /\ \A i \in 1 .. n : \E j \in DOMAIN blocks[r] :
                  src[i] = blocks[r][j] /\ src[i] \notin InFlight
<1>1. PICK W : W = Wanted(r, Advanced(r))
  BY Zenon
<1>2. PICK at \in Ascending(W) : Store([i \in DOMAIN at |-> blocks[r][at[i]]])
  BY Zenon, <1>1 DEF EagerStore
<1>3. PICK B : B = blocks[r]
  BY Zenon
<1>4. /\ \A i, j \in DOMAIN B : B[i] = B[j] => i = j
      /\ \A i \in DOMAIN B : B[i] \in GpuBlocks
      /\ Len(B) \in Nat /\ DOMAIN B = 1 .. Len(B)
  BY Zenon, <1>3, TableTyped DEF IsInjective
<1>5. W \subseteq DOMAIN B /\ \A i \in W : B[i] \notin InFlight
  BY Zenon, <1>1, <1>3 DEF Wanted
<1>6. PICK n \in Nat : n = Cardinality(W)
  <2>1. Len(B) \in Int /\ 1 \in Int
    BY <1>4
  <2>2. IsFiniteSet(1 .. Len(B))
    BY <2>1, FS_Interval
  <2> QED
    BY Zenon, <1>4, <1>5, <2>2, FS_Subset, FS_CardinalityType
<1>7. at \in [1 .. n -> W] /\ \A i, j \in 1 .. n : at[i] = at[j] => i = j
  BY Zenon, <1>6 DEF Ascending, Injection, IsInjective
<1>8. PICK src : src = [i \in 1 .. n |-> B[at[i]]]
  BY Zenon
<1>9. ASSUME NEW i \in 1 .. n
      PROVE  /\ src[i] = B[at[i]] /\ at[i] \in DOMAIN B /\ src[i] \in GpuBlocks
             /\ src[i] \notin InFlight
  BY Zenon, <1>4, <1>5, <1>7, <1>8
<1>10. src \in [1 .. n -> GpuBlocks] /\ Len(src) = n
  BY <1>8, <1>9
<1>11. IsInjective(src)
  <2>1. ASSUME NEW i \in 1 .. n, NEW j \in 1 .. n, src[i] = src[j] PROVE i = j
    BY Zenon, <1>4, <1>7, <1>9, <2>1
  <2> QED
    BY Zenon, <1>10, <2>1 DEF IsInjective
<1>12. Store(src)
  <2>1. DOMAIN at = 1 .. n
    BY Zenon, <1>7
  <2> QED
    BY Zenon, <1>2, <1>3, <1>8, <2>1
<1> QED
  BY Zenon, <1>3, <1>9, <1>10, <1>11, <1>12

LEMMA EagerStoreRefs ==
  ASSUME RefInv, NEW r \in Reqs, EagerStore(r)
  PROVE  RefInv'
<1>0. PICK n \in Nat : \E src \in [1 .. n -> GpuBlocks] :
         /\ IsInjective(src) /\ Len(src) = n /\ Store(src)
         /\ \A i \in 1 .. n : src[i] \notin InFlight
  BY Zenon, EagerSource
<1>1. PICK src \in [1 .. n -> GpuBlocks] :
         /\ IsInjective(src) /\ Len(src) = n /\ Store(src)
         /\ \A i \in 1 .. n : src[i] \notin InFlight
  BY Zenon, <1>0
<1>2. Range(src) \cap InFlight = {}
  BY Zenon, <1>1 DEF Range
<1>3. UNCHANGED <<status, blocks, hits, toLoad>>
  BY Zenon DEF EagerStore, loads
<1> QED
  BY Zenon, <1>1, <1>2, <1>3, StoreCounts

LEMMA LazyStoreRefs ==
  ASSUME RefInv, LazyStore
  PROVE  RefInv'
<1>1. PICK m \in 1 .. Cardinality(FreeOf(cpuRef)) :
        \E s \in Injection(1 .. m, FreeOf(gpuRef)) : Store(s)
  BY Zenon DEF LazyStore
<1>2. PICK src \in Injection(1 .. m, FreeOf(gpuRef)) : Store(src)
  BY <1>1
<1>3. PICK n \in Nat : n = m
  BY <1>1
<1>4. src \in [1 .. n -> FreeOf(gpuRef)] /\ IsInjective(src)
  BY <1>2, <1>3 DEF Injection
<1>5. FreeOf(gpuRef) \subseteq GpuBlocks /\ \A g \in FreeOf(gpuRef) : GpuStores(g) = {}
  BY FreeGpu
<1>6. src \in [1 .. n -> GpuBlocks]
  BY <1>4, <1>5
<1>7. Len(src) = n
  BY <1>4
<1>8. Range(src) \cap InFlight = {}
  BY Zenon, <1>4, <1>5 DEF Range, InFlight, GpuStores
<1>9. UNCHANGED <<status, blocks, hits, toLoad>>
  BY DEF LazyStore, loads, engine
<1> QED
  BY Zenon, <1>2, <1>4, <1>6, <1>7, <1>8, <1>9, StoreCounts

\* What is left of a finite set, and how many members it has lost.
LEMMA Lost ==
  ASSUME NEW S, IsFiniteSet(S), NEW T
  PROVE  /\ Cardinality(S \ T) = Cardinality(S) - Cardinality(S \cap T)
         /\ Cardinality(S \cap T) \in Nat
<1>1. IsFiniteSet(S \cap T)
  BY FS_Subset
<1> QED
  BY Zenon, <1>1, FS_Difference, FS_CardinalityType

LEMMA UpdateOutputRefs ==
  ASSUME RefInv, UpdateOutput
  PROVE  RefInv'
<1>1. PICK R, S, over :
        /\ R = {r \in Reqs : loadEvent[r] \in recving}
        /\ S = {t \in inStore : t[1] \in stored}
        /\ over = {r \in R : status[r] = "finished"}
  BY ZenonT(30)
<1>2. /\ toLoad' = [r \in Reqs |-> IF r \in R THEN {} ELSE toLoad[r]]
      /\ inStore' = inStore \ S
      /\ cached' = cached \cup {t[3] : t \in S}
      /\ cpuRef' = [c \in CpuBlocks |->
                       cpuRef[c] - Cardinality({t \in S : t[3] = c})
                         - Cardinality({r \in R : \E p \in toLoad[r] : p[1] = c})]
      /\ gpuRef' = [g \in GpuBlocks |->
                       gpuRef[g] - Cardinality({t \in S : t[2] = g})
                         - Cardinality({r \in R : \E p \in toLoad[r] : p[2] = g})
                         - Cardinality({r \in over : g \in Range(blocks[r])})]
      /\ status' = [r \in Reqs |-> IF r \in R \ over THEN "loaded" ELSE status[r]]
      /\ blocks' = [r \in Reqs |-> IF r \in over THEN <<>> ELSE blocks[r]]
      /\ hits' = hits
  BY Zenon, <1>1 DEF UpdateOutput
<1>3. R \subseteq Reqs /\ over \subseteq R /\ S \subseteq inStore
  BY <1>1
<1>4. /\ status \in [Reqs -> Statuses] /\ blocks \in [Reqs -> Seq(GpuBlocks)]
      /\ cpuRef \in [CpuBlocks -> Int] /\ gpuRef \in [GpuBlocks -> Int]
      /\ toLoad \in [Reqs -> SUBSET (CpuBlocks \X GpuBlocks)]
      /\ cached \subseteq CpuBlocks /\ IsFiniteSet(inStore)
      /\ \A t \in inStore : t[2] \in GpuBlocks /\ t[3] \in CpuBlocks
  BY DEF RefInv, RefTypes
<1>5. Range(<<>>) = {} /\ IsInjective(<<>>) /\ <<>> \in Seq(GpuBlocks)
  BY Zenon, NoBlocks
<1>6. ASSUME NEW c \in CpuBlocks
      PROVE  /\ cpuRef'[c] \in Int
             /\ cpuRef'[c] = Cardinality(Pins(c)') + Cardinality(CpuLoads(c)')
                                + Cardinality(CpuStores(c)')
  <2>1. PICK A, B : /\ A = {t \in S : t[3] = c}
                    /\ B = {r \in R : \E p \in toLoad[r] : p[1] = c}
    BY ZenonT(30)
  <2>2. cpuRef'[c] = cpuRef[c] - Cardinality(A) - Cardinality(B)
    BY <1>2, <2>1
  <2>3. A = CpuStores(c) \cap S /\ CpuStores(c)' = CpuStores(c) \ S
    BY <1>2, <1>3, <2>1 DEF CpuStores
  <2>4. B = CpuLoads(c) \cap R /\ CpuLoads(c)' = CpuLoads(c) \ R
    BY ZenonT(30), <1>2, <1>3, <2>1 DEF CpuLoads
  <2>5. Pins(c)' = Pins(c)
    BY <1>2 DEF Pins
  <2>6. /\ IsFiniteSet(CpuLoads(c)) /\ IsFiniteSet(CpuStores(c))
        /\ Cardinality(Pins(c)) \in Nat /\ Cardinality(CpuLoads(c)) \in Nat
        /\ Cardinality(CpuStores(c)) \in Nat
    BY CountsFinite DEF RefInv
  <2>7. /\ Cardinality(CpuStores(c)') = Cardinality(CpuStores(c)) - Cardinality(A)
        /\ Cardinality(A) \in Nat
    <3>1. /\ Cardinality(CpuStores(c) \ S) = Cardinality(CpuStores(c)) - Cardinality(CpuStores(c) \cap S)
          /\ Cardinality(CpuStores(c) \cap S) \in Nat
      BY Zenon, <2>6, Lost
    <3> QED
      BY <2>3, <3>1
  <2>8. /\ Cardinality(CpuLoads(c)') = Cardinality(CpuLoads(c)) - Cardinality(B)
        /\ Cardinality(B) \in Nat
    <3>1. /\ Cardinality(CpuLoads(c) \ R) = Cardinality(CpuLoads(c)) - Cardinality(CpuLoads(c) \cap R)
          /\ Cardinality(CpuLoads(c) \cap R) \in Nat
      BY Zenon, <2>6, Lost
    <3> QED
      BY <2>4, <3>1
  <2>9. cpuRef[c] = Cardinality(Pins(c)) + Cardinality(CpuLoads(c)) + Cardinality(CpuStores(c))
    BY Zenon DEF RefInv, CpuRefs
  <2>10. /\ cpuRef[c] - Cardinality(A) - Cardinality(B) \in Int
         /\ cpuRef[c] - Cardinality(A) - Cardinality(B)
              = Cardinality(Pins(c)) + (Cardinality(CpuLoads(c)) - Cardinality(B))
                  + (Cardinality(CpuStores(c)) - Cardinality(A))
    BY SMTT(30), <2>6, <2>7, <2>8, <2>9
  <2> QED
    BY Zenon, <2>2, <2>5, <2>7, <2>8, <2>10
<1>7. ASSUME NEW g \in GpuBlocks
      PROVE  /\ gpuRef'[g] \in Int
             /\ gpuRef'[g] = Cardinality(Tables(g)') + Cardinality(GpuLoads(g)')
                                + Cardinality(GpuStores(g)')
  <2>1. PICK A, B, C : /\ A = {t \in S : t[2] = g}
                       /\ B = {r \in R : \E p \in toLoad[r] : p[2] = g}
                       /\ C = {r \in over : g \in Range(blocks[r])}
    BY ZenonT(30)
  <2>2. gpuRef'[g] = gpuRef[g] - Cardinality(A) - Cardinality(B) - Cardinality(C)
    BY Zenon, <1>2, <2>1
  <2>3. A = GpuStores(g) \cap S /\ GpuStores(g)' = GpuStores(g) \ S
    BY Zenon, <1>2, <1>3, <2>1 DEF GpuStores
  <2>4. B = GpuLoads(g) \cap R /\ GpuLoads(g)' = GpuLoads(g) \ R
    BY Zenon, <1>2, <1>3, <2>1 DEF GpuLoads
  <2>5. C = Tables(g) \cap over /\ Tables(g)' = Tables(g) \ over
    BY Zenon, <1>2, <1>3, <1>5, <2>1 DEF Tables
  <2>6. /\ IsFiniteSet(Tables(g)) /\ IsFiniteSet(GpuLoads(g)) /\ IsFiniteSet(GpuStores(g))
        /\ Cardinality(Tables(g)) \in Nat /\ Cardinality(GpuLoads(g)) \in Nat
        /\ Cardinality(GpuStores(g)) \in Nat
    BY CountsFinite DEF RefInv
  <2>7. /\ Cardinality(GpuStores(g)') = Cardinality(GpuStores(g)) - Cardinality(A)
        /\ Cardinality(A) \in Nat
    <3>1. /\ Cardinality(GpuStores(g) \ S) = Cardinality(GpuStores(g)) - Cardinality(GpuStores(g) \cap S)
          /\ Cardinality(GpuStores(g) \cap S) \in Nat
      BY Zenon, <2>6, Lost
    <3> QED
      BY <2>3, <3>1
  <2>8. /\ Cardinality(GpuLoads(g)') = Cardinality(GpuLoads(g)) - Cardinality(B)
        /\ Cardinality(B) \in Nat
    <3>1. /\ Cardinality(GpuLoads(g) \ R) = Cardinality(GpuLoads(g)) - Cardinality(GpuLoads(g) \cap R)
          /\ Cardinality(GpuLoads(g) \cap R) \in Nat
      BY Zenon, <2>6, Lost
    <3> QED
      BY <2>4, <3>1
  <2>9. /\ Cardinality(Tables(g)') = Cardinality(Tables(g)) - Cardinality(C)
        /\ Cardinality(C) \in Nat
    <3>1. /\ Cardinality(Tables(g) \ over) = Cardinality(Tables(g)) - Cardinality(Tables(g) \cap over)
          /\ Cardinality(Tables(g) \cap over) \in Nat
      BY Zenon, <2>6, Lost
    <3> QED
      BY <2>5, <3>1
  <2>10. gpuRef[g] = Cardinality(Tables(g)) + Cardinality(GpuLoads(g)) + Cardinality(GpuStores(g))
    BY DEF RefInv, GpuRefs
  <2>11. /\ gpuRef[g] - Cardinality(A) - Cardinality(B) - Cardinality(C) \in Int
         /\ gpuRef[g] - Cardinality(A) - Cardinality(B) - Cardinality(C)
              = (Cardinality(Tables(g)) - Cardinality(C)) + (Cardinality(GpuLoads(g)) - Cardinality(B))
                  + (Cardinality(GpuStores(g)) - Cardinality(A))
    BY SMTT(30), <2>6, <2>7, <2>8, <2>9, <2>10
  <2> QED
    BY Zenon, <2>2, <2>7, <2>8, <2>9, <2>11
<1>8. CpuRefs' /\ GpuRefs'
  BY Zenon, <1>6, <1>7 DEF CpuRefs, GpuRefs
<1>9. RefTypes'
  <2>1. cpuRef' \in [CpuBlocks -> Int] /\ gpuRef' \in [GpuBlocks -> Int]
    <3>1. DOMAIN cpuRef' = CpuBlocks /\ DOMAIN gpuRef' = GpuBlocks
      BY Zenon, <1>2
    <3>2. \A c \in CpuBlocks : cpuRef'[c] \in Int
      BY <1>6
    <3>3. \A g \in GpuBlocks : gpuRef'[g] \in Int
      BY Zenon, <1>7
    <3>4. /\ cpuRef' = [c \in CpuBlocks |-> cpuRef'[c]]
          /\ gpuRef' = [g \in GpuBlocks |-> gpuRef'[g]]
      BY Zenon, <1>2, <3>1
    <3> QED
      BY <3>2, <3>3, <3>4
  <2>2. IsFiniteSet(inStore') /\ \A t \in inStore' : t[2] \in GpuBlocks /\ t[3] \in CpuBlocks
    <3>1. inStore' \subseteq inStore
      BY Zenon, <1>2
    <3> QED
      BY Zenon, <1>4, <3>1, FS_Subset
  <2>3. cached' \subseteq CpuBlocks
    BY ZenonT(30), <1>2, <1>3, <1>4
  <2>4. status' \in [Reqs -> Statuses]
    <3>1. \A r \in Reqs : (IF r \in R \ over THEN "loaded" ELSE status[r]) \in Statuses
      BY Zenon, <1>4 DEF Statuses
    <3> QED
      BY Zenon, <1>2, <3>1
  <2>5. blocks' \in [Reqs -> Seq(GpuBlocks)]
    <3>1. \A r \in Reqs : (IF r \in over THEN <<>> ELSE blocks[r]) \in Seq(GpuBlocks)
      BY Zenon, <1>4, <1>5
    <3> QED
      BY Zenon, <1>2, <3>1
  <2>6. toLoad' \in [Reqs -> SUBSET (CpuBlocks \X GpuBlocks)]
    <3>1. \A r \in Reqs : (IF r \in R THEN {} ELSE toLoad[r]) \in SUBSET (CpuBlocks \X GpuBlocks)
      BY Zenon, <1>4
    <3> QED
      BY Zenon, <1>2, <3>1
  <2> QED
    BY Zenon, <1>2, <2>1, <2>2, <2>3, <2>4, <2>5, <2>6 DEF RefInv, RefTypes
<1>10. TablesInv'
  BY Zenon, <1>2, <1>3, <1>5 DEF RefInv, TablesInv
<1> QED
  BY <1>8, <1>9, <1>10 DEF RefInv


LEMMA RefInit ==
  ASSUME Init
  PROVE  RefInv
<1>1. /\ status = [r \in Reqs |-> "waiting"] /\ blocks = [r \in Reqs |-> <<>>]
      /\ gpuRef = [g \in GpuBlocks |-> 0] /\ cpuRef = [c \in CpuBlocks |-> 0]
      /\ hits = [r \in Reqs |-> {}] /\ toLoad = [r \in Reqs |-> {}]
      /\ cached = {} /\ inStore = {}
  BY DEF Init
<1>2. Range(<<>>) = {} /\ IsInjective(<<>>) /\ <<>> \in Seq(GpuBlocks)
  BY Zenon, NoBlocks
<1>3. \A c : Pins(c) = {} /\ CpuLoads(c) = {} /\ CpuStores(c) = {}
  BY Zenon, <1>1 DEF Pins, CpuLoads, CpuStores
<1>4. \A g : Tables(g) = {} /\ GpuLoads(g) = {} /\ GpuStores(g) = {}
  BY <1>1, <1>2 DEF Tables, GpuLoads, GpuStores
<1>5. Cardinality({}) = 0 /\ IsFiniteSet({})
  BY FS_EmptySet
<1>6. CpuRefs /\ GpuRefs
  <2>1. ASSUME NEW c \in CpuBlocks
        PROVE  cpuRef[c] = Cardinality(Pins(c)) + Cardinality(CpuLoads(c))
                             + Cardinality(CpuStores(c))
    <3>1. cpuRef[c] = 0
      BY <1>1
    <3>2. /\ Cardinality(Pins(c)) = 0 /\ Cardinality(CpuLoads(c)) = 0
          /\ Cardinality(CpuStores(c)) = 0
      BY <1>3, <1>5
    <3> QED
      BY <3>1, <3>2
  <2>2. ASSUME NEW g \in GpuBlocks
        PROVE  gpuRef[g] = Cardinality(Tables(g)) + Cardinality(GpuLoads(g))
                             + Cardinality(GpuStores(g))
    <3>1. gpuRef[g] = 0
      BY <1>1
    <3>2. /\ Cardinality(Tables(g)) = 0 /\ Cardinality(GpuLoads(g)) = 0
          /\ Cardinality(GpuStores(g)) = 0
      BY Zenon, <1>4, <1>5
    <3> QED
      BY <3>1, <3>2
  <2> QED
    BY <2>1, <2>2 DEF CpuRefs, GpuRefs
<1>7. RefTypes
  BY SMTT(30), <1>1, <1>2, <1>5 DEF RefTypes, Statuses
<1>8. TablesInv
  BY <1>1, <1>2 DEF TablesInv
<1> QED
  BY Zenon, <1>6, <1>7, <1>8 DEF RefInv

LEMMA RefNext ==
  ASSUME RefInv, [Next]_vars
  PROVE  RefInv'
<1>1. ASSUME Advance PROVE RefInv'
  <2>1. CASE BeginStep
    BY Zenon, <2>1, RefFrame DEF BeginStep, refs, gpu, cpuMap, loads, stores
  <2>2. CASE EndLoop
    BY Zenon, <2>2, RefFrame DEF EndLoop, refs, engine, gpu, cpuMap, loads, stores
  <2>3. CASE BuildMeta
    BY Zenon, <2>3, RefFrame DEF BuildMeta, refs, gpu, cpuMap, stores
  <2>4. CASE ExecuteModel
    BY Zenon, <2>4, RefFrame DEF ExecuteModel, refs, gpu, cpuMap, loads, stores
  <2>5. CASE Poll
    BY Zenon, <2>5, RefFrame DEF Poll, refs, engine, gpu, cpuMap, loads, stores
  <2>6. CASE UpdateOutput
    BY <2>6, UpdateOutputRefs
  <2>7. ASSUME NEW r \in Reqs, EagerStore(r) PROVE RefInv'
    BY Zenon, <2>7, EagerStoreRefs
  <2>8. ASSUME NEW d \in Dirs, Sync(d) PROVE RefInv'
    BY Zenon, <2>8, RefFrame DEF Sync, refs, engine, gpu, cpuMap, loads, stores
  <2>9. ASSUME NEW d \in Dirs, Clear(d) PROVE RefInv'
    BY Zenon, <2>9, RefFrame DEF Clear, refs, engine, gpu, cpuMap, loads, stores
  <2> QED
    BY Zenon, <1>1, <2>1, <2>2, <2>3, <2>4, <2>5, <2>6, <2>7, <2>8, <2>9 DEF Advance
<1>2. ASSUME Choices PROVE RefInv'
  <2>1. ASSUME NEW r \in Reqs, LookUpOnly(r) PROVE RefInv'
    BY <2>1, LookUpOnlyRefs
  <2>2. ASSUME NEW r \in Reqs, StartFresh(r) PROVE RefInv'
    BY <2>2, StartFreshRefs
  <2>3. ASSUME NEW r \in Reqs, StartLoad(r) PROVE RefInv'
    BY <2>3, StartLoadRefs
  <2>4. ASSUME NEW r \in Reqs, Promote(r) PROVE RefInv'
    BY <2>4, PromoteRefs
  <2>5. ASSUME NEW r \in Reqs, Continue(r) PROVE RefInv'
    BY <2>5, ContinueRefs
  <2>6. ASSUME NEW r \in Reqs, Preempt(r) PROVE RefInv'
    BY <2>6, PreemptRefs
  <2>7. ASSUME NEW r \in Reqs, Finish(r) PROVE RefInv'
    BY <2>7, FinishRefs
  <2>8. CASE LazyStore
    BY <2>8, LazyStoreRefs
  <2> QED
    BY Zenon, <1>2, <2>1, <2>2, <2>3, <2>4, <2>5, <2>6, <2>7, <2>8 DEF Choices
<1>3. ASSUME Device PROVE RefInv'
  <2>1. CASE ThreadIssue
    BY Zenon, <2>1, RefFrame DEF ThreadIssue, refs, engine, gpu, cpuMap, loads, stores
  <2>2. CASE ThreadRecord
    BY Zenon, <2>2, RefFrame DEF ThreadRecord, refs, engine, gpu, cpuMap, loads, stores
  <2>3. CASE StreamCompute
    BY Zenon, <2>3, RefFrame DEF StreamCompute, refs, engine, gpu, cpuMap, loads, stores
  <2>4. ASSUME NEW d \in Dirs, StreamCopy(d) PROVE RefInv'
    BY Zenon, <2>4, RefFrame DEF StreamCopy, refs, engine, gpu, cpuMap, loads, stores
  <2> QED
    BY Zenon, <1>3, <2>1, <2>2, <2>3, <2>4 DEF Device
<1>4. CASE UNCHANGED vars
  BY <1>4, RefFrame DEF vars, refs, engine, gpu, cpuMap, loads, stores
<1> QED
  BY Zenon, <1>1, <1>2, <1>3, <1>4 DEF Next

\* The reference counts of both pools are exact in every state: each pin of
\* get_num_new_matched_tokens, each load and each store holds its CPU blocks once, each
\* block table, load and store its GPU blocks, and nothing else does.
THEOREM RefCountsExact == Spec => []RefsExact
<1>1. Init => RefInv
  BY RefInit
<1>2. RefInv /\ [Next]_vars => RefInv'
  BY Zenon, RefNext
<1>3. RefInv => RefsExact
  BY Zenon DEF RefInv, CpuRefs, GpuRefs, RefsExact, Pins, CpuLoads, CpuStores, Tables, GpuLoads, GpuStores
<1> QED
  BY <1>1, <1>2, <1>3, PTL DEF Spec


-----------------------------------------------------------------------------
(***************************************************************************)
(* Copies.  A copy is registered under its event until the worker reports  *)
(* the event, and an event is reported only when the high-water mark has   *)
(* passed it, which no copy that is still to run allows.                   *)
(***************************************************************************)
Items == [dir : Dirs, idx : Nat,
          pairs : SUBSET ((CpuBlocks \X GpuBlocks) \cup (GpuBlocks \X CpuBlocks))]
CopyTypes ==
    /\ queue \in Seq(Items) /\ meta \in Seq(Items) /\ stream \in [Dirs -> Seq(Items)]
    /\ events \in [Dirs -> Seq(Nat)] /\ thread \in Items \cup {None}
    /\ ctr \in [Dirs -> Nat] /\ hwm \in [Dirs -> Int] /\ pend \in [Dirs -> SUBSET Nat]
    /\ \A d \in Dirs : \A x \in Range(stream[d]) : x.dir = d

\* A load writes blocks without a hash, of its request's table, from published blocks.
LoadsInv ==
    \A r \in Reqs : \A p \in toLoad[r] :
        p[1] \in cached /\ gpuHash[p[2]] = None /\ p[2] \in Range(blocks[r])

\* A store reads a hashed block into a block of its own that is stamped and not published.
StoresInv ==
    /\ inStore \subseteq Nat \X GpuBlocks \X CpuBlocks
    /\ \A t \in inStore :
        /\ gpuHash[t[2]] = cpuHash[t[3]] /\ gpuHash[t[2]] # None /\ t[3] \notin cached
        /\ \A u \in inStore : t[3] = u[3] => t = u

\* The blocks of a table carry its request's hashes, or none as long as a load writes them.
Row(r, B) ==
    \A i \in DOMAIN B :
        /\ i <= Len(Prompt[r]) /\ gpuHash[B[i]] \in {None, Prompt[r][i]}
        /\ status[r] \in {"running", "ready"} => gpuHash[B[i]] = Prompt[r][i]
HashesInv ==
    /\ \A r \in Reqs : Row(r, blocks[r])
    /\ \A r, q \in Reqs : \A g \in Range(blocks[r]) :
        g \in Range(blocks[q]) /\ gpuHash[g] = None => r = q

BlocksInv == LoadsInv /\ StoresInv /\ HashesInv

Registered(x) ==
    \A p \in x.pairs :
        IF x.dir = "store" THEN <<x.idx, p[1], p[2]>> \in inStore
        ELSE \E r \in Reqs : p \in toLoad[r] /\ loadEvent[r] = x.idx
Registrations == \A x \in Copies : Registered(x)

\* The events of one direction: behind the mark, recorded, issued, queued, built.
Waiting == Range(queue) \cup Range(meta)
MarksInv ==
    /\ \A d \in Dirs : hwm[d] < ctr[d] /\ \A j \in Range(events[d]) : j < ctr[d]
    /\ \A x \in Copies : hwm[x.dir] < x.idx /\ x.idx < ctr[x.dir]
    /\ thread # None => thread.idx < ctr[thread.dir]
OrderInv ==
    /\ \A x \in Waiting : \A j \in Range(events[x.dir]) : j < x.idx
    /\ \A x \in Waiting : thread # None /\ x.dir = thread.dir => thread.idx < x.idx
    /\ \A i, j \in DOMAIN queue :
        i < j /\ queue[i].dir = queue[j].dir => queue[i].idx < queue[j].idx
    /\ \A x \in Range(queue), y \in Range(meta) : x.dir = y.dir => x.idx < y.idx
    /\ \A i, j \in DOMAIN meta : meta[i].dir = meta[j].dir => i = j
ReportsInv ==
    /\ \A j \in recving : j \in Int /\ j <= hwm["load"]
    /\ \A j \in stored : j \in Int /\ j <= hwm["store"]
    /\ phase # "update" => recving = {} /\ stored = {}
EventsInv == CopyTypes /\ MarksInv /\ OrderInv /\ ReportsInv

CopyInv == RefInv /\ BlocksInv /\ Registrations /\ EventsInv

LEMMA CopiesKept ==
  ASSUME CopyInv
  PROVE  CopiesKeepTheirBlocks
<1> SUFFICES ASSUME NEW x \in Copies, NEW p \in x.pairs
             PROVE  IF x.dir = "store"
                    THEN gpuHash[p[1]] = cpuHash[p[2]] /\ p[2] \notin cached
                    ELSE p[1] \in cached /\ gpuHash[p[2]] = None
  BY DEF CopiesKeepTheirBlocks
<1>1. Registered(x) /\ StoresInv /\ LoadsInv
  BY Zenon DEF CopyInv, BlocksInv, Registrations
<1>2. CASE x.dir = "store"
  <2>1. PICK t \in inStore : t = <<x.idx, p[1], p[2]>>
    BY ZenonT(30), <1>1, <1>2 DEF Registered
  <2>2. t[2] = p[1] /\ t[3] = p[2]
    BY <2>1
  <2> QED
    BY Zenon, <1>1, <1>2, <2>2 DEF StoresInv
<1>3. CASE x.dir # "store"
  BY <1>1, <1>3 DEF Registered, LoadsInv
<1> QED
  BY <1>2, <1>3

-----------------------------------------------------------------------------
(***************************************************************************)
(* Hashes: what a step does to the blocks at the ends of loads and stores. *)
(***************************************************************************)
LEMMA BlocksFrame ==
  ASSUME BlocksInv, UNCHANGED <<status, blocks, gpuHash, cpuHash, cached, toLoad, inStore>>
  PROVE  BlocksInv'
<1>1. LoadsInv'
  BY Zenon DEF BlocksInv, LoadsInv
<1>2. StoresInv'
  BY Zenon DEF BlocksInv, StoresInv
<1>3. HashesInv'
  BY Zenon DEF BlocksInv, HashesInv, Row
<1> QED
  BY Zenon, <1>1, <1>2, <1>3 DEF BlocksInv

Unheld(N) == \A g \in N : Tables(g) = {} /\ GpuLoads(g) = {} /\ GpuStores(g) = {}
HashKept(N) == \A g \in GpuBlocks \ N : gpuHash'[g] = gpuHash[g]
\* A table whose blocks without a hash are all new.
NewRow(r, B, N) ==
    \A i \in DOMAIN B :
        /\ B[i] \in GpuBlocks /\ i <= Len(Prompt[r]) /\ gpuHash'[B[i]] \in {None, Prompt[r][i]}
        /\ status'[r] \in {"running", "ready"} => gpuHash'[B[i]] = Prompt[r][i]
        /\ gpuHash'[B[i]] = None => B[i] \in N

LEMMA StoresKept ==
  ASSUME RefInv, BlocksInv, NEW N \in SUBSET GpuBlocks, Unheld(N), HashKept(N),
         UNCHANGED <<cpuHash, cached, inStore>>
  PROVE  StoresInv'
<1>1. \A t \in inStore : t[2] \in GpuBlocks /\ t[2] \notin N
  BY ZenonT(30) DEF RefInv, RefTypes, Unheld, GpuStores
<1>2. \A t \in inStore : gpuHash'[t[2]] = gpuHash[t[2]]
  BY ZenonT(30), <1>1 DEF HashKept
<1> QED
  BY <1>2 DEF BlocksInv, StoresInv

\* The table of one request is replaced, new blocks get their hashes.
LEMMA HashesKept ==
  ASSUME RefInv, BlocksInv, NEW r \in Reqs, NEW B, NEW N \in SUBSET GpuBlocks,
         Unheld(N), HashKept(N), NewRow(r, B, N), blocks' = [blocks EXCEPT ![r] = B],
         \A q \in Reqs \ {r} : status'[q] = status[q]
  PROVE  HashesInv'
<1>1. blocks'[r] = B /\ \A q \in Reqs \ {r} : blocks'[q] = blocks[q]
  BY Zenon, RefTyped, Replaced
<1>2. ASSUME NEW q \in Reqs \ {r}, NEW i \in DOMAIN blocks[q]
      PROVE  /\ blocks[q][i] \in GpuBlocks /\ blocks[q][i] \notin N
             /\ gpuHash'[blocks[q][i]] = gpuHash[blocks[q][i]]
  <2>1. blocks[q][i] \in GpuBlocks
    BY Zenon, TableTyped
  <2>2. blocks[q][i] \in Range(blocks[q])
    BY Zenon, TableTyped
  <2>3. blocks[q][i] \notin N
    BY ZenonT(30), <2>2 DEF Unheld, Tables
  <2> QED
    BY ZenonT(30), <2>1, <2>3 DEF HashKept
<1>3. ASSUME NEW q \in Reqs PROVE Row(q, blocks[q])'
  <2> SUFFICES ASSUME NEW i \in DOMAIN blocks'[q]
               PROVE  /\ i <= Len(Prompt[q]) /\ gpuHash'[blocks'[q][i]] \in {None, Prompt[q][i]}
                      /\ status'[q] \in {"running", "ready"} =>
                            gpuHash'[blocks'[q][i]] = Prompt[q][i]
    BY Zenon DEF Row
  <2>1. CASE q = r
    <3>1. i \in DOMAIN B
      BY Zenon, <1>1, <2>1
    <3>2. /\ i <= Len(Prompt[r]) /\ gpuHash'[B[i]] \in {None, Prompt[r][i]}
          /\ status'[r] \in {"running", "ready"} => gpuHash'[B[i]] = Prompt[r][i]
      BY Zenon, <3>1 DEF NewRow
    <3> QED
      BY Zenon, <1>1, <2>1, <3>2
  <2>2. CASE q # r
    <3>1. Row(q, blocks[q])
      BY Zenon DEF BlocksInv, HashesInv
    <3>2. blocks'[q] = blocks[q] /\ status'[q] = status[q] /\ i \in DOMAIN blocks[q]
      BY Zenon, <1>1, <2>2
    <3>3. gpuHash'[blocks[q][i]] = gpuHash[blocks[q][i]]
      BY Zenon, <1>2, <2>2, <3>2
    <3>4. /\ i <= Len(Prompt[q]) /\ gpuHash[blocks[q][i]] \in {None, Prompt[q][i]}
          /\ status[q] \in {"running", "ready"} => gpuHash[blocks[q][i]] = Prompt[q][i]
      BY Zenon, <3>1, <3>2 DEF Row
    <3> QED
      BY Zenon, <3>2, <3>3, <3>4
  <2> QED
    BY ZenonT(30), <2>1, <2>2
<1>4. ASSUME NEW q \in Reqs \ {r}, NEW g \in Range(blocks[q])
      PROVE  g \notin N /\ gpuHash'[g] = gpuHash[g]
  BY ZenonT(30), <1>2 DEF Range
<1>5. ASSUME NEW g \in Range(B), gpuHash'[g] = None
      PROVE  g \in N
  BY Zenon, <1>5 DEF NewRow, Range
<1>6. ASSUME NEW p \in Reqs, NEW q \in Reqs, NEW g \in Range(blocks'[p]),
             g \in Range(blocks'[q]), gpuHash'[g] = None
      PROVE  p = q
  <2>1. CASE p # r /\ q # r
    <3>1. g \in Range(blocks[p]) /\ g \in Range(blocks[q]) /\ gpuHash[g] = None
      BY ZenonT(30), <1>1, <1>4, <1>6, <2>1
    <3> QED
      BY ZenonT(30), <3>1 DEF BlocksInv, HashesInv
  <2>2. CASE p = r /\ q # r
    BY ZenonT(30), <1>1, <1>4, <1>5, <1>6, <2>2
  <2>3. CASE p # r /\ q = r
    BY ZenonT(30), <1>1, <1>4, <1>5, <1>6, <2>3
  <2> QED
    BY ZenonT(30), <2>1, <2>2, <2>3
<1> QED
  BY Zenon, <1>3, <1>6 DEF HashesInv

LEMMA LoadsKept ==
  ASSUME RefInv, BlocksInv, NEW r \in Reqs, NEW B, NEW N \in SUBSET GpuBlocks,
         Unheld(N), HashKept(N), blocks' = [blocks EXCEPT ![r] = B], toLoad[r] = {},
         UNCHANGED <<cached, toLoad>>
  PROVE  LoadsInv'
<1> SUFFICES ASSUME NEW q \in Reqs, NEW p \in toLoad[q]
             PROVE  p[1] \in cached /\ gpuHash'[p[2]] = None /\ p[2] \in Range(blocks'[q])
  BY DEF LoadsInv
<1>1. q # r /\ blocks'[q] = blocks[q] /\ p[2] \in GpuBlocks
  BY Zenon, RefTyped, Replaced, LoadTyped
<1>2. p[2] \notin N
  BY Zenon DEF Unheld, GpuLoads
<1> QED
  BY Zenon, <1>1, <1>2 DEF HashKept, BlocksInv, LoadsInv


\* Blocks from get_new_blocks are nobody's.
LEMMA NewUnheld ==
  ASSUME RefInv, NEW n \in Nat, NEW fresh, NEW S, NEW new \in NewBlocks(gpuRef, fresh, S, n)
  PROVE  /\ new \in [1 .. n -> GpuBlocks] /\ IsInjective(new) /\ Range(new) \cap S = {}
         /\ Range(new) \in SUBSET GpuBlocks /\ Unheld(Range(new))
<1>1. /\ new \in [1 .. n -> GpuBlocks] /\ IsInjective(new) /\ Range(new) \cap S = {}
      /\ \A g \in Range(new) : Tables(g) = {} /\ GpuLoads(g) = {} /\ GpuStores(g) = {}
  BY NewGpu
<1>2. Range(new) \in SUBSET GpuBlocks
  BY <1>1 DEF Range
<1> QED
  BY <1>1, <1>2 DEF Unheld

LEMMA HashType ==
  ASSUME NEW r \in Reqs
  PROVE  /\ Len(Prompt[r]) \in Nat
         /\ \A i \in 1 .. Len(Prompt[r]) : Prompt[r][i] # None
<1>1. Prompt[r] \in Seq(Range(Prompt[r])) /\ None \notin Range(Prompt[r])
  BY SimpleAssumption
<1>2. Len(Prompt[r]) \in Nat /\ DOMAIN Prompt[r] = 1 .. Len(Prompt[r])
  BY Zenon, <1>1, LenProperties
<1> QED
  BY <1>1, <1>2 DEF Range

\* The hashes of a request that are left to compute.
LEMMA ChunkFits ==
  ASSUME NEW r \in Reqs, NEW k \in Nat, k <= Len(Prompt[r])
  PROVE  Chunk(r, k) \in Nat /\ k + Chunk(r, k) <= Len(Prompt[r])
  BY HashType DEF Chunk

\* allocate_slots: the new blocks are cached under the hashes that follow the table's.
LEMMA ComputeBlocks ==
  ASSUME RefInv, BlocksInv, NEW r \in Reqs, NEW table \in Seq(GpuBlocks), NEW n \in Nat,
         Len(table) + n <= Len(Prompt[r]),
         \A i \in DOMAIN table : gpuHash[table[i]] = Prompt[r][i],
         Compute(r, table, n), toLoad[r] = {},
         UNCHANGED <<cpuHash, cached, toLoad, inStore>>
  PROVE  BlocksInv'
<1>1. PICK new \in NewBlocks(gpuRef, gpuFresh, Range(table), n) :
        /\ blocks' = [blocks EXCEPT ![r] = table \o new]
        /\ gpuHash' = [g \in GpuBlocks |->
                          IF g \in Range(new)
                          THEN Prompt[r][Len(table) + (CHOOSE i \in 1 .. n : new[i] = g)]
                          ELSE gpuHash[g]]
        /\ status' = [status EXCEPT ![r] = "running"]
  BY ZenonT(30) DEF Compute
<1>2. /\ new \in [1 .. n -> GpuBlocks] /\ IsInjective(new) /\ Range(new) \cap Range(table) = {}
      /\ Range(new) \in SUBSET GpuBlocks /\ Unheld(Range(new))
  BY ZenonT(30), NewUnheld
<1>3. HashKept(Range(new))
  BY ZenonT(30), <1>1 DEF HashKept
<1>4. ASSUME NEW i \in 1 .. n
      PROVE  gpuHash'[new[i]] = Prompt[r][Len(table) + i] /\ new[i] \in GpuBlocks
  <2>1. new[i] \in Range(new) /\ new[i] \in GpuBlocks
    BY Zenon, <1>2 DEF Range
  <2>2. (CHOOSE j \in 1 .. n : new[j] = new[i]) = i
    BY ZenonT(30), <1>2 DEF IsInjective
  <2> QED
    BY Zenon, <1>1, <2>1, <2>2
<1>5. /\ Len(table) \in Nat /\ DOMAIN table = 1 .. Len(table)
      /\ \A i \in 1 .. Len(table) : (table \o new)[i] = table[i]
      /\ \A i \in 1 .. n : (table \o new)[Len(table) + i] = new[i]
      /\ DOMAIN (table \o new) = 1 .. Len(table) + n
  <2>1. new \in Lists(n, GpuBlocks)
    BY Zenon, <1>2 DEF Lists
  <2> QED
    BY Zenon, <2>1, Extended
<1>6. ASSUME NEW i \in 1 .. Len(table)
      PROVE  gpuHash'[table[i]] = Prompt[r][i] /\ table[i] \in GpuBlocks
  <2>1. table[i] \in GpuBlocks /\ table[i] \in Range(table)
    BY Zenon, <1>5, ElementOfSeq DEF Range
  <2>2. gpuHash'[table[i]] = gpuHash[table[i]]
    BY Zenon, <1>2, <1>3, <2>1 DEF HashKept
  <2> QED
    BY Zenon, <1>5, <2>1, <2>2
<1>7. ASSUME NEW i \in 1 .. Len(table) + n
      PROVE  /\ gpuHash'[(table \o new)[i]] = Prompt[r][i] /\ (table \o new)[i] \in GpuBlocks
             /\ i <= Len(Prompt[r]) /\ Prompt[r][i] # None
  <2>1. i <= Len(Prompt[r]) /\ Prompt[r][i] # None
    <3>1. i \in 1 .. Len(Prompt[r]) /\ i <= Len(Prompt[r])
      BY Zenon, <1>5, HashType, Within
    <3> QED
      BY Zenon, <3>1, HashType
  <2>2. CASE i \in 1 .. Len(table)
    BY Zenon, <1>5, <1>6, <2>1, <2>2
  <2>3. CASE i \notin 1 .. Len(table)
    <3>1. PICK j \in 1 .. n : i = Len(table) + j
      BY Zenon, <1>5, <2>3, Beyond
    <3> QED
      BY ZenonT(30), <1>4, <1>5, <2>1, <3>1
  <2> QED
    BY ZenonT(30), <2>2, <2>3
<1>8. NewRow(r, table \o new, Range(new))
  BY Zenon, <1>5, <1>7 DEF NewRow
<1>9. \A q \in Reqs \ {r} : status'[q] = status[q]
  BY Zenon, <1>1, RefTyped, Replaced
<1>10. HashesInv'
  BY ZenonT(30), <1>1, <1>2, <1>3, <1>8, <1>9, HashesKept
<1>11. StoresInv' /\ LoadsInv'
  BY ZenonT(30), <1>1, <1>2, <1>3, StoresKept, LoadsKept
<1> QED
  BY Zenon, <1>10, <1>11 DEF BlocksInv

LEMMA StartFreshBlocks ==
  ASSUME RefInv, BlocksInv, NEW r \in Reqs, StartFresh(r)
  PROVE  BlocksInv'
<1>1. status[r] = "waiting" /\ UNCHANGED <<cpuHash, cached, toLoad, inStore>>
  BY Zenon DEF StartFresh, Visit, cpuMap, stores
<1>2. toLoad[r] = {}
  BY Zenon, <1>1 DEF RefInv, TablesInv
<1>3. PICK n \in Nat : n = Chunk(r, LocalHits(r)) /\ LocalHits(r) + n <= Len(Prompt[r])
  BY Zenon, HitsType, ChunkFits
<1>4. PICK local \in Locals(r) : Compute(r, local, n)
  BY <1>3 DEF StartFresh
<1>5. local \in Seq(GpuBlocks) /\ Len(local) = LocalHits(r)
  BY Zenon, LocalsType
<1>6. \A i \in DOMAIN local : gpuHash[local[i]] = Prompt[r][i]
  BY Zenon DEF Locals
<1> QED
  BY Zenon, <1>1, <1>2, <1>3, <1>4, <1>5, <1>6, ComputeBlocks

LEMMA ContinueBlocks ==
  ASSUME RefInv, BlocksInv, NEW r \in Reqs, Continue(r)
  PROVE  BlocksInv'
<1>1. /\ status[r] \in {"running", "ready"} /\ UNCHANGED <<cpuHash, cached, toLoad, inStore>>
      /\ Compute(r, blocks[r], Chunk(r, Len(blocks[r])))
  BY ZenonT(30) DEF Continue, Visit, cpuMap, stores, loads
<1>2. toLoad[r] = {}
  BY Zenon, <1>1 DEF RefInv, TablesInv
<1>3. blocks[r] \in Seq(GpuBlocks) /\ Len(blocks[r]) \in Nat
      /\ DOMAIN blocks[r] = 1 .. Len(blocks[r])
  BY DEF RefInv, RefTypes
<1>4. Row(r, blocks[r])
  BY Zenon DEF BlocksInv, HashesInv
<1>5. \A i \in DOMAIN blocks[r] : gpuHash[blocks[r][i]] = Prompt[r][i]
  BY ZenonT(30), <1>1, <1>4 DEF Row
<1>6. Len(blocks[r]) <= Len(Prompt[r])
  BY SMTT(30), <1>3, <1>4, HashType DEF Row
<1>7. PICK n \in Nat : n = Chunk(r, Len(blocks[r])) /\ Len(blocks[r]) + n <= Len(Prompt[r])
  BY Zenon, <1>3, <1>6, ChunkFits
<1>8. PICK table \in Seq(GpuBlocks) : table = blocks[r]
  BY <1>3
<1> QED
  BY Zenon, <1>1, <1>2, <1>5, <1>7, <1>8, ComputeBlocks


LEMMA StartLoadBlocks ==
  ASSUME RefInv, BlocksInv, NEW r \in Reqs, StartLoad(r)
  PROVE  BlocksInv'
<1>1. /\ status[r] = "waiting" /\ status' = [status EXCEPT ![r] = "loading"]
      /\ UNCHANGED <<cpuHash, cached, inStore>>
  BY Zenon DEF StartLoad, Visit, cpuMap, stores
<1>2. PICK n \in Nat : n = CpuHits(r) /\ LocalHits(r) + n <= Len(Prompt[r])
  BY Zenon, HitsType
<1>3. PICK local \in Locals(r) : \E match \in Matches(r),
           new \in NewBlocks(gpuRef, gpuFresh, Range(local), CpuHits(r)) :
        /\ blocks' = [blocks EXCEPT ![r] = local \o new]
        /\ gpuHash' = [g \in GpuBlocks |-> IF g \in Range(new) THEN None ELSE gpuHash[g]]
        /\ toLoad' = [toLoad EXCEPT ![r] = {<<match[i], new[i]>> : i \in DOMAIN new}]
  BY ZenonT(30) DEF StartLoad
<1>4. PICK match \in Matches(r),
           new \in NewBlocks(gpuRef, gpuFresh, Range(local), CpuHits(r)) :
        /\ blocks' = [blocks EXCEPT ![r] = local \o new]
        /\ gpuHash' = [g \in GpuBlocks |-> IF g \in Range(new) THEN None ELSE gpuHash[g]]
        /\ toLoad' = [toLoad EXCEPT ![r] = {<<match[i], new[i]>> : i \in DOMAIN new}]
  BY ZenonT(30), <1>3
<1>5. /\ new \in [1 .. n -> GpuBlocks] /\ Range(new) \cap Range(local) = {}
      /\ Range(new) \in SUBSET GpuBlocks /\ Unheld(Range(new))
  BY ZenonT(30), <1>2, <1>4, NewUnheld
<1>6. HashKept(Range(new)) /\ \A g \in Range(new) : gpuHash'[g] = None
  BY ZenonT(30), <1>4, <1>5 DEF HashKept
<1>7. /\ local \in Seq(GpuBlocks) /\ Len(local) = LocalHits(r)
      /\ \A i \in DOMAIN local : gpuHash[local[i]] = Prompt[r][i]
  BY ZenonT(30), LocalsType DEF Locals
<1>8. /\ Len(local) \in Nat /\ DOMAIN local = 1 .. Len(local)
      /\ \A i \in 1 .. Len(local) : (local \o new)[i] = local[i]
      /\ \A i \in 1 .. n : (local \o new)[Len(local) + i] = new[i]
      /\ DOMAIN (local \o new) = 1 .. Len(local) + n
  <2>1. new \in Lists(n, GpuBlocks)
    BY Zenon, <1>5 DEF Lists
  <2> QED
    BY Zenon, <1>7, <2>1, Extended
<1>9. ASSUME NEW i \in 1 .. Len(local)
      PROVE  gpuHash'[local[i]] = Prompt[r][i] /\ local[i] \in GpuBlocks
  <2>1. local[i] \in GpuBlocks /\ local[i] \in Range(local)
    BY Zenon, <1>7, <1>8, ElementOfSeq DEF Range
  <2>2. gpuHash'[local[i]] = gpuHash[local[i]]
    BY ZenonT(30), <1>5, <1>6, <2>1 DEF HashKept
  <2> QED
    BY ZenonT(30), <1>7, <1>8, <2>1, <2>2
<1>10. ASSUME NEW i \in 1 .. Len(local) + n
       PROVE  /\ (local \o new)[i] \in GpuBlocks /\ i <= Len(Prompt[r])
              /\ gpuHash'[(local \o new)[i]] \in {None, Prompt[r][i]}
              /\ gpuHash'[(local \o new)[i]] = None => (local \o new)[i] \in Range(new)
  <2>1. i <= Len(Prompt[r]) /\ Prompt[r][i] # None
    <3>1. i \in 1 .. Len(Prompt[r]) /\ i <= Len(Prompt[r])
      BY Zenon, <1>2, <1>7, <1>8, HashType, Within
    <3> QED
      BY Zenon, <3>1, HashType
  <2>2. CASE i \in 1 .. Len(local)
    BY Zenon, <1>8, <1>9, <2>1, <2>2
  <2>3. CASE i \notin 1 .. Len(local)
    <3>1. PICK j \in 1 .. n : i = Len(local) + j
      BY Zenon, <1>8, <2>3, Beyond
    <3>2. new[j] \in Range(new) /\ new[j] \in GpuBlocks
      BY Zenon, <1>5 DEF Range
    <3> QED
      BY Zenon, <1>6, <1>8, <2>1, <3>1, <3>2
  <2> QED
    BY ZenonT(30), <2>2, <2>3
<1>11. status'[r] = "loading" /\ \A q \in Reqs \ {r} : status'[q] = status[q]
  BY Zenon, <1>1, RefTyped, Replaced
<1>12. NewRow(r, local \o new, Range(new))
  BY ZenonT(30), <1>8, <1>10, <1>11 DEF NewRow
<1>13. HashesInv'
  BY Zenon, <1>4, <1>5, <1>6, <1>11, <1>12, HashesKept
<1>14. StoresInv'
  BY Zenon, <1>1, <1>5, <1>6, StoresKept
<1>15. LoadsInv'
  <2> SUFFICES ASSUME NEW q \in Reqs, NEW p \in toLoad'[q]
               PROVE  p[1] \in cached' /\ gpuHash'[p[2]] = None /\ p[2] \in Range(blocks'[q])
    BY ZenonT(30) DEF LoadsInv
  <2>1. CASE q = r
    <3>1. p \in {<<match[i], new[i]>> : i \in 1 .. n}
      BY Zenon, <1>4, <1>5, <2>1, RefTyped, Replaced
    <3>2. PICK i \in 1 .. n : p = <<match[i], new[i]>>
      BY Zenon, <3>1
    <3>3. p[1] = match[i] /\ p[2] = new[i] /\ new[i] \in Range(new)
      <4>1. new[i] \in Range(new)
        BY Zenon, <1>5 DEF Range
      <4> QED
        BY <3>2, <4>1
    <3>4. match[i] \in cached
      BY ZenonT(30), <1>2 DEF Matches
    <3>5. Range(blocks'[r]) = Range(local) \cup Range(new)
      <4>1. Range(local \o new) = Range(local) \cup Range(new)
        <5>1. new \in Lists(n, GpuBlocks)
          BY Zenon, <1>5 DEF Lists
        <5> QED
          BY Zenon, <1>7, <5>1, ExtendedRange
      <4> QED
        BY Zenon, <1>4, <4>1, RefTyped, Replaced
    <3> QED
      BY Zenon, <1>1, <1>6, <2>1, <3>3, <3>4, <3>5
  <2>2. CASE q # r
    <3>1. p \in toLoad[q] /\ blocks'[q] = blocks[q] /\ p[2] \in GpuBlocks
      <4>1. p \in toLoad[q] /\ blocks'[q] = blocks[q]
        BY Zenon, <1>4, <2>2, RefTyped, Replaced
      <4> QED
        BY Zenon, <4>1, LoadTyped
    <3>2. p[2] \notin Range(new)
      BY Zenon, <1>5, <3>1 DEF Unheld, GpuLoads
    <3> QED
      BY ZenonT(30), <1>1, <1>6, <3>1, <3>2 DEF HashKept, BlocksInv, LoadsInv
  <2> QED
    BY ZenonT(30), <2>1, <2>2
<1> QED
  BY Zenon, <1>13, <1>14, <1>15 DEF BlocksInv
===============================================================================
