-------------------------- MODULE QuestCopyProofs --------------------------
(***************************************************************************)
(* The copies of a block, in the arena and on the host, and what each of   *)
(* the manager's operations does to them: staging a block, reloading one,  *)
(* establishing a working set, freeing requests.  Nothing is assumed of    *)
(* the batch here.  Last, that a prefetch with protection keeps the blocks *)
(* it loads.                                                               *)
(***************************************************************************)
EXTENDS QuestArenaProofs

\* The copies of a block: in the arena, and on the host (Source).  Write-back uses
\* _cpu_slots only and keeps a block in one place; write-through uses _host_slots only.
PlacesInv ==
    \A k \in Key :
        /\ (IF WriteThrough THEN cpuSlots[k] ELSE hostSlots[k]) = None
        /\ k \in Resident => WriteThrough \/ Source(k) = None

\* No host slot is lost or given out twice.
SourceInv ==
    /\ \A j, k \in Key : Source(j) # None /\ Source(j) = Source(k) => j = k
    /\ cpuFree = CpuSlots \ {Source(k) : k \in Key}

OnHost == {k \in Key : keyToSlot[k] = None /\ Source(k) # None}

\* A full block that was handed over is in the arena or on the host, and every copy of it
\* is the whole block; under write-through it is on the host.
Intact(k) ==
    /\ k \in Resident \/ Source(k) # None
    /\ k \in Resident => gpuKV[keyToSlot[k]] = FullBlock(k[1], k[2])
    /\ Source(k) # None => cpuKV[Source(k)] = FullBlock(k[1], k[2])
    /\ WriteThrough => Source(k) # None

\* A step that leaves the copies of block j alone.
Same(j) ==
    /\ keyToSlot'[j] = keyToSlot[j]
    /\ Source(j)' = Source(j)
    /\ keyToSlot[j] # None => gpuKV'[keyToSlot[j]] = gpuKV[keyToSlot[j]]
    /\ Source(j) # None => cpuKV'[Source(j)] = cpuKV[Source(j)]

\* BlockResidency knows the blocks that are on the host only.
OnCpuInv == onCpu = {k[2] : k \in OnHost}

StoreInv == PlacesInv /\ SourceInv /\ OnCpuInv

\* All that is held belongs to s.
OwnedBy(s) == \A k \in Held : k[1] = s

\* The blocks of s when f full blocks and p further rows of it were handed over.  The full
\* ones are intact; the next one, the live block, was never spilled, and with "live" it is
\* in the arena with its p rows; no other block is held.
ContentOf(s, f, p, live) ==
    /\ \A b \in Blocks : b < f => Intact(<<s, b>>)
    /\ f \in Blocks /\ Source(<<s, f>>) # None =>
            WriteThrough /\ cpuKV[Source(<<s, f>>)] = FullBlock(s, f)
    /\ live /\ p > 0 => Holds(<<s, f>>, p)
    /\ \A b \in Blocks : <<s, b>> \in Held => b < f \/ (b = f /\ p > 0)

LEMMA SourceType ==
  ASSUME PoolType
  PROVE  \A k \in Key : Source(k) \in CpuSlots \cup {None}
  BY DEF Source, PoolType

LEMMA PoolFromSource ==
  ASSUME PoolType, PlacesInv, SourceInv
  PROVE  PoolAccounting
<1> DEFINE tag == IF WriteThrough THEN "mirror" ELSE "spilled"
           S == {k \in Key : Source(k) # None}
<1>1. Backing = S \X {tag}
  <2>1. CASE WriteThrough
    <3>1. {k \in Key : cpuSlots[k] # None} = {}
      BY <2>1 DEF PlacesInv
    <3>2. {k \in Key : hostSlots[k] # None} = S
      BY <2>1 DEF Source
    <3> QED
      BY <2>1, <3>1, <3>2 DEF Backing
  <2>2. CASE ~WriteThrough
    <3>1. {k \in Key : hostSlots[k] # None} = {}
      BY <2>2 DEF PlacesInv
    <3>2. {k \in Key : cpuSlots[k] # None} = S
      BY <2>2 DEF Source
    <3> QED
      BY <2>2, <3>1, <3>2 DEF Backing
  <2> QED
    BY <2>1, <2>2
<1>2. \A k \in S : BackingSlot(<<k, tag>>) = Source(k)
  BY DEF BackingSlot, Source
<1>3. \A x \in Backing : x[1] \in S /\ x = <<x[1], tag>> /\ BackingSlot(x) = Source(x[1])
  <2> HIDE DEF S, tag
  <2> QED
    BY <1>1, <1>2
<1>4. \A k \in S : <<k, tag>> \in Backing
  BY <1>1
<1>5. \A x, y \in Backing : BackingSlot(x) = BackingSlot(y) => x = y
  <2> TAKE x, y \in Backing
  <2> HAVE BackingSlot(x) = BackingSlot(y)
  <2>1. x[1] \in Key /\ y[1] \in Key /\ Source(x[1]) # None /\ Source(x[1]) = Source(y[1])
    BY <1>3
  <2>2. x[1] = y[1]
    BY <2>1 DEF SourceInv
  <2> HIDE DEF tag
  <2> QED
    BY <1>3, <2>2
<1>6. CpuSlots \cap {Source(k) : k \in Key} = CpuSlots \cap {BackingSlot(x) : x \in Backing}
  <2>1. ASSUME NEW c \in CpuSlots, NEW k \in Key, c = Source(k)
        PROVE  \E x \in Backing : c = BackingSlot(x)
    <3>1. k \in S
      BY <2>1, NoneAssumption
    <3> HIDE DEF S, tag
    <3> QED
      BY Zenon, <1>2, <1>4, <2>1, <3>1
  <2>2. ASSUME NEW x \in Backing PROVE \E k \in Key : BackingSlot(x) = Source(k)
    BY <1>3, <2>2
  <2> HIDE DEF S, tag
  <2> QED
    BY <2>1, <2>2
<1> QED
  BY <1>5, <1>6 DEF PoolAccounting, SourceInv

\* The host gives a fresh slot to block x, and copies v into it.
LEMMA TakeSlot ==
  ASSUME PoolType, SourceInv, NEW x \in Key, NEW c \in cpuFree, NEW v,
         Source(x) = None, Source(x)' = c,
         \A j \in Key \ {x} : Source(j)' = Source(j),
         cpuFree' = cpuFree \ {c}, cpuKV' = [cpuKV EXCEPT ![c] = v]
  PROVE  /\ SourceInv'
         /\ cpuKV'[Source(x)'] = v
         /\ \A j \in Key : Source(j) # None => cpuKV'[Source(j)] = cpuKV[Source(j)]
<1>1. c \in CpuSlots /\ \A j \in Key : Source(j) # c
  BY DEF SourceInv
<1>2. c # None
  BY <1>1, NoneAssumption
<1>3. \A j, k \in Key : Source(j)' # None /\ Source(j)' = Source(k)' => j = k
  BY <1>1, <1>2 DEF SourceInv
<1>4. {Source(k)' : k \in Key} \cap CpuSlots = ({Source(k) : k \in Key} \cup {c}) \cap CpuSlots
  <2>1. ASSUME NEW k \in Key PROVE Source(k)' \in {Source(j) : j \in Key} \cup {c}
    BY <2>1
  <2>2. ASSUME NEW k \in Key, Source(k) \in CpuSlots PROVE Source(k) \in {Source(j)' : j \in Key}
    BY <2>2, NoneAssumption
  <2>3. c \in {Source(j)' : j \in Key}
    OBVIOUS
  <2> QED
    BY <2>1, <2>2, <2>3
<1>5. cpuFree' = CpuSlots \ {Source(k)' : k \in Key}
  BY <1>4 DEF SourceInv
<1>6. \A j \in Key : Source(j) # None => Source(j) \in CpuSlots
  BY SourceType
<1> QED
  BY <1>1, <1>3, <1>5, <1>6 DEF SourceInv, PoolType

LEMMA PoolUnchanged ==
  ASSUME UNCHANGED pool
  PROVE  /\ \A j : Source(j)' = Source(j)
         /\ cpuFree' = cpuFree /\ cpuKV' = cpuKV
         /\ SourceInv => SourceInv'
  BY Zenon DEF pool, Source, SourceInv

\* What Stage does to the host's copies.
LEMMA StageSources ==
  ASSUME PoolType, SourceInv, NEW k \in Key, NEW e \in Key \cup {None},
         NEW isFull \in BOOLEAN, NEW old, NEW new, e # k,
         WriteThrough \/ Source(k) = None,
         e # None => (IF WriteThrough THEN Source(e) # None ELSE Source(e) = None),
         StagePool(k, e, isFull, old, new)
  PROVE  /\ SourceInv'
         /\ UNCHANGED (IF WriteThrough THEN cpuSlots ELSE hostSlots)
         /\ \A j \in Key \ {k, e} : Source(j)' = Source(j)
         /\ \A j \in Key : Source(j) # None =>
                Source(j)' = Source(j) /\ cpuKV'[Source(j)] = cpuKV[Source(j)]
         /\ e # None => Source(e)' # None /\ (WriteThrough \/ cpuKV'[Source(e)'] = old)
         /\ IF WriteThrough /\ isFull
            THEN Source(k)' # None /\ (Source(k) = None => cpuKV'[Source(k)'] = new)
            ELSE Source(k)' = Source(k)
<1>0. None \notin CpuSlots /\ None \notin Key /\ cpuFree \subseteq CpuSlots
  BY NoneAssumption DEF PoolType
<1>1. CASE WriteThrough /\ isFull /\ hostSlots[k] = None
  <2>1. PICK c \in cpuFree : /\ cpuFree' = cpuFree \ {c}
                             /\ hostSlots' = [hostSlots EXCEPT ![k] = c]
                             /\ cpuKV' = [cpuKV EXCEPT ![c] = new]
                             /\ cpuSlots' = cpuSlots
    BY <1>1 DEF StagePool, MirrorToHost
  <2>2. Source(k) = None /\ Source(k)' = c /\ \A j \in Key \ {k} : Source(j)' = Source(j)
    BY <1>1, <2>1 DEF Source, PoolType
  <2>3. /\ SourceInv' /\ cpuKV'[Source(k)'] = new
        /\ \A j \in Key : Source(j) # None => cpuKV'[Source(j)] = cpuKV[Source(j)]
    BY Zenon, <2>1, <2>2, TakeSlot
  <2> QED
    BY Zenon, <1>0, <1>1, <2>1, <2>2, <2>3
<1>2. CASE ~WriteThrough /\ e # None
  <2>1. PICK c \in cpuFree : /\ cpuFree' = cpuFree \ {c}
                             /\ cpuSlots' = [cpuSlots EXCEPT ![e] = c]
                             /\ cpuKV' = [cpuKV EXCEPT ![c] = old]
                             /\ hostSlots' = hostSlots
    BY <1>2 DEF StagePool, SpillToCpu
  <2>2. /\ e \in Key /\ Source(e) = None /\ Source(e)' = c
        /\ \A j \in Key \ {e} : Source(j)' = Source(j)
    BY <1>2, <2>1 DEF Source, PoolType
  <2>3. /\ SourceInv' /\ cpuKV'[Source(e)'] = old
        /\ \A j \in Key : Source(j) # None => cpuKV'[Source(j)] = cpuKV[Source(j)]
    BY Zenon, <2>1, <2>2, TakeSlot
  <2> QED
    BY <1>0, <1>2, <2>1, <2>2, <2>3
<1>3. CASE UNCHANGED pool /\ (WriteThrough /\ isFull => Source(k) # None)
           /\ (e # None => WriteThrough)
  BY Zenon, <1>3, PoolUnchanged DEF pool
<1> QED
  BY <1>1, <1>2, <1>3 DEF StagePool, MirrorToHost, Source

\* Stage(k, ...): k is in the arena, the block e that made room for it is on the host, and
\* the copies of all others are as they were.
LEMMA StageStep ==
  ASSUME ArenaType, PoolType, ArenaAccounting, PlacesInv, SourceInv,
         NEW k \in Key, NEW C, NEW W, NEW isFull \in BOOLEAN,
         WriteThrough \/ Source(k) = None, Stage(k, C, W, isFull)
  PROVE  /\ PlacesInv' /\ SourceInv'
         /\ k \in Resident'
         /\ \E old \in Content : gpuKV'[keyToSlot'[k]] = CopyRows(old, k, C, W)
         /\ k \in Resident =>
                gpuKV'[keyToSlot'[k]] = CopyRows(gpuKV[keyToSlot[k]], k, C, W)
         /\ Source(k) # None => Source(k)' = Source(k) /\ cpuKV'[Source(k)] = cpuKV[Source(k)]
         /\ IF WriteThrough /\ isFull
            THEN /\ Source(k)' # None
                 /\ Source(k) = None => cpuKV'[Source(k)'] = gpuKV'[keyToSlot'[k]]
            ELSE Source(k)' = Source(k)
         /\ \E e \in Key \cup {None} :
                /\ \A j \in Key \ {k, e} : Same(j)
                /\ onCpu' = (onCpu \cup BlockOf(e)) \ {k[2]}
                /\ e # None =>
                    /\ e \in Resident /\ e # k /\ k \notin Resident
                    /\ e \in OnHost'
                    /\ Intact(e) => Intact(e)'
<1>1. PICK g \in Slots, e \in Key \cup {None} :
        /\ AddReturns(k, {}, g, e)
        /\ StageError(k, e, isFull) = "none"
        /\ Add(k, g, e, TRUE)
        /\ gpuKV' = [gpuKV EXCEPT ![g] = CopyRows(gpuKV[g], k, C, W)]
        /\ onCpu' = (onCpu \cup BlockOf(e)) \ {k[2]}
        /\ StagePool(k, e, isFull, gpuKV[g], CopyRows(gpuKV[g], k, C, W))
  BY Zenon DEF Stage
<1> DEFINE new == CopyRows(gpuKV[g], k, C, W)
<1>0. None \notin Slots /\ None \notin CpuSlots /\ None \notin Key
  BY NoneAssumption
<1>2. Resident' = (Resident \ {e}) \cup {k} /\ (e # None => e \in Resident /\ e # k)
  BY Zenon, <1>1, AddAccounting
<1>3. /\ keyToSlot'[k] = g /\ gpuKV[g] \in Content /\ gpuKV'[g] = new
      /\ k \in Resident => g = keyToSlot[k] /\ e = None
      /\ e # None => g = keyToSlot[e] /\ keyToSlot'[e] = None /\ k \notin Resident
  BY Zenon, <1>0, <1>1, <1>2 DEF Add, AddReturns, ArenaType, Resident
<1>4. e # None => (IF WriteThrough THEN Source(e) # None ELSE Source(e) = None)
  <2>1. e # None => SpillError(e) = "none"
    BY Zenon, <1>1 DEF StageError
  <2> QED
    BY <1>2, <2>1 DEF SpillError, Source, PlacesInv
<1> HIDE DEF new
<1>5. /\ SourceInv'
      /\ UNCHANGED (IF WriteThrough THEN cpuSlots ELSE hostSlots)
      /\ \A j \in Key \ {k, e} : Source(j)' = Source(j)
      /\ \A j \in Key : Source(j) # None =>
             Source(j)' = Source(j) /\ cpuKV'[Source(j)] = cpuKV[Source(j)]
      /\ e # None => Source(e)' # None /\ (WriteThrough \/ cpuKV'[Source(e)'] = gpuKV[g])
      /\ IF WriteThrough /\ isFull
         THEN Source(k)' # None /\ (Source(k) = None => cpuKV'[Source(k)'] = new)
         ELSE Source(k)' = Source(k)
  <2>1. e # k
    BY <1>0, <1>2
  <2>2. StagePool(k, e, isFull, gpuKV[g], new)
    BY <1>1 DEF new
  <2> QED
    BY <1>4, <2>1, <2>2, StageSources
<1>6. PlacesInv'
  <2>1. \A j \in Key : (IF WriteThrough THEN cpuSlots'[j] ELSE hostSlots'[j]) = None
    BY <1>5 DEF PlacesInv
  <2>2. \A j \in Key : j \in Resident' => WriteThrough \/ Source(j)' = None
    BY <1>2, <1>5 DEF PlacesInv
  <2> QED
    BY <2>1, <2>2 DEF PlacesInv
<1>7. \A j \in Key \ {k, e} : Same(j)
  <2> TAKE j \in Key \ {k, e}
  <2>1. keyToSlot'[j] = keyToSlot[j]
    BY <1>1 DEF Add
  <2>2. keyToSlot[j] # None => keyToSlot[j] # g
    <3>1. g \in freeSlots \/ (k \in Resident /\ g = keyToSlot[k])
                          \/ (e \in Resident /\ g = keyToSlot[e])
      BY Zenon, <1>1, <1>2, <1>3, VictimResident DEF AddReturns, Resident
    <3>2. \A i \in Resident : keyToSlot[i] \notin freeSlots
      BY DEF ArenaAccounting
    <3>3. keyToSlot[j] # None => j \in Resident
      BY DEF Resident
    <3> QED
      BY Zenon, <3>1, <3>2, <3>3 DEF ArenaAccounting
  <2>3. keyToSlot[j] # None => gpuKV'[keyToSlot[j]] = gpuKV[keyToSlot[j]]
    BY Zenon, <1>1, <2>2 DEF ArenaType
  <2> QED
    BY <1>5, <2>1, <2>3 DEF Same
<1>8. ASSUME e # None PROVE e \in OnHost' /\ (Intact(e) => Intact(e)')
  <2>1. e \in Key /\ keyToSlot[e] = g /\ keyToSlot'[e] = None /\ e \in Resident
    BY <1>2, <1>3, <1>8
  <2>2. e \notin Resident'
    BY <2>1 DEF Resident
  <2>3. Source(e)' # None /\ e \in OnHost'
    BY Zenon, <1>5, <1>8, <2>1 DEF OnHost
  <2>4. ASSUME Intact(e) PROVE cpuKV'[Source(e)'] = FullBlock(e[1], e[2])
    BY Zenon, <1>4, <1>5, <1>8, <2>1, <2>4 DEF Intact
  <2> QED
    BY Zenon, <2>2, <2>3, <2>4 DEF Intact, FullBlock
<1> QED
  <2>1. \E old \in Content : gpuKV'[keyToSlot'[k]] = CopyRows(old, k, C, W)
    BY <1>3 DEF new
  <2>2. k \in Resident => gpuKV'[keyToSlot'[k]] = CopyRows(gpuKV[keyToSlot[k]], k, C, W)
    BY <1>3 DEF new
  <2>3. k \in Resident'
    BY <1>2
  <2>4. \E x \in Key \cup {None} :
                /\ \A j \in Key \ {k, x} : Same(j)
                /\ onCpu' = (onCpu \cup BlockOf(x)) \ {k[2]}
                /\ x # None =>
                    /\ x \in Resident /\ x # k /\ k \notin Resident
                    /\ x \in OnHost'
                    /\ Intact(x) => Intact(x)'
    BY <1>1, <1>2, <1>3, <1>7, <1>8
  <2> QED
    BY Zenon, <1>3, <1>5, <1>6, <2>1, <2>2, <2>3, <2>4

\* A reload of k brings its host copy into the arena; the block e that made room for it is
\* on the host, and the copies of all others are as they were.
LEMMA ReloadSources ==
  ASSUME PoolType, SourceInv, NEW k \in Key, NEW e \in Key \cup {None}, NEW g, e # k,
         Source(k) # None,
         e # None => (IF WriteThrough THEN Source(e) # None ELSE Source(e) = None),
         ReloadPool(k, e, g)
  PROVE  /\ SourceInv'
         /\ UNCHANGED (IF WriteThrough THEN cpuSlots ELSE hostSlots)
         /\ \A j \in Key \ {k, e} : /\ Source(j)' = Source(j)
                                    /\ Source(j) # None => cpuKV'[Source(j)] = cpuKV[Source(j)]
         /\ e # None => Source(e)' # None
                        /\ cpuKV'[Source(e)'] = IF WriteThrough THEN cpuKV[Source(e)] ELSE gpuKV[g]
         /\ IF WriteThrough THEN Source(k)' = Source(k) /\ cpuKV' = cpuKV
                            ELSE Source(k)' = None
<1>0. None \notin CpuSlots /\ None \notin Key /\ cpuFree \subseteq CpuSlots
  BY NoneAssumption DEF PoolType
<1>1. CASE WriteThrough
  BY Zenon, <1>1, PoolUnchanged DEF ReloadPool, pool
<1>2. CASE ~WriteThrough
  <2> DEFINE s == cpuSlots[k]
  <2>1. Source(k) = s /\ s \in CpuSlots /\ hostSlots' = hostSlots
    BY <1>2, SourceType DEF Source, ReloadPool
  <2>2. /\ \A j \in Key : Source(j) # None /\ j # k => Source(j) # s
        /\ \A j \in Key : Source(j) # None => Source(j) \in CpuSlots
        /\ \A j \in Key, c \in cpuFree : Source(j) # c
    BY <2>1, SourceType DEF SourceInv
  <2>3. CASE e = None
    <3>1. cpuSlots' = [cpuSlots EXCEPT ![k] = None] /\ cpuFree' = cpuFree \cup {s} /\ cpuKV' = cpuKV
      BY <1>2, <2>3 DEF ReloadPool
    <3>2. Source(k)' = None /\ \A j \in Key \ {k} : Source(j)' = Source(j)
      BY <1>2, <3>1 DEF Source, PoolType
    <3> HIDE DEF s
    <3>3. \A c \in CpuSlots : (\E j \in Key : c = Source(j)') <=> (\E j \in Key : c = Source(j)) /\ c # s
      BY Zenon, <1>0, <2>1, <2>2, <3>2
    <3>4. cpuFree' = CpuSlots \ {Source(j)' : j \in Key}
      BY <2>1, <3>1, <3>3 DEF SourceInv
    <3>5. SourceInv'
      BY Zenon, <3>2, <3>4 DEF SourceInv
    <3> QED
      BY Zenon, <1>2, <2>1, <2>3, <3>1, <3>2, <3>5
  <2>4. CASE e # None
    <3>1. PICK c \in cpuFree :
             /\ cpuSlots' = [cpuSlots EXCEPT ![k] = None, ![e] = c]
             /\ cpuFree' = (cpuFree \ {c}) \cup {s}
             /\ cpuKV' = [cpuKV EXCEPT ![c] = gpuKV[g]]
      BY Zenon, <1>2, <2>4 DEF ReloadPool
    <3>2. /\ e \in Key /\ Source(e) = None /\ Source(e)' = c /\ Source(k)' = None
          /\ \A j \in Key \ {k, e} : Source(j)' = Source(j)
      BY Zenon, <1>2, <2>4, <3>1 DEF Source, PoolType
    <3> HIDE DEF s
    <3>3. c \in CpuSlots /\ c # s /\ \A j \in Key : Source(j) # c
      BY Zenon, <1>0, <2>1, <2>2
    <3>4. \A x \in CpuSlots : (\E j \in Key : x = Source(j)') <=>
                                  x = c \/ ((\E j \in Key : x = Source(j)) /\ x # s)
      BY Zenon, <1>0, <2>1, <2>2, <3>2, <3>3
    <3>5. cpuFree' = CpuSlots \ {Source(j)' : j \in Key}
      BY Zenon, <2>1, <3>1, <3>3, <3>4 DEF SourceInv
    <3>6. \A i, j \in Key : Source(i)' # None /\ Source(i)' = Source(j)' => i = j
      BY <3>2, <3>3 DEF SourceInv
    <3>7. SourceInv'
      BY Zenon, <3>5, <3>6 DEF SourceInv
    <3>8. cpuKV'[c] = gpuKV[g] /\ \A j \in Key : Source(j) # None => cpuKV'[Source(j)] = cpuKV[Source(j)]
      BY <2>2, <3>1, <3>3 DEF PoolType
    <3> QED
      BY Zenon, <1>0, <1>2, <2>1, <2>4, <3>2, <3>3, <3>7, <3>8
  <2> QED
    BY <2>3, <2>4
<1> QED
  BY <1>1, <1>2

LEMMA ReloadStep ==
  ASSUME ArenaType, PoolType, ArenaAccounting, PlacesInv, SourceInv,
         NEW k \in Key, k \notin Resident, NEW mru \in BOOLEAN, EnsureOne(k, mru)
  PROVE  /\ PlacesInv' /\ SourceInv'
         /\ k \in Resident' /\ (Intact(k) => Intact(k)')
         /\ \E e \in Key \cup {None} :
                /\ e # None => e = Victim(ProtectedKeys(k[1])) /\ freeSlots = {}
                /\ \A j \in Key \ {k, e} : Same(j)
                /\ onCpu' = (onCpu \cup BlockOf(e)) \ {k[2]}
                /\ e # None =>
                    /\ e \in Resident /\ e # k
                    /\ e \in OnHost'
                    /\ Intact(e) => Intact(e)'
<1>1. PICK g \in Slots, e \in Key \cup {None} :
        /\ AddReturns(k, ProtectedKeys(k[1]), g, e)
        /\ EnsureError(k, e) = "none"
        /\ Add(k, g, e, mru)
        /\ gpuKV' = [gpuKV EXCEPT ![g] = cpuKV[Source(k)]]
        /\ ReloadPool(k, e, g)
        /\ onCpu' = (onCpu \cup BlockOf(e)) \ {k[2]}
        /\ Source(k) # None
  BY Zenon DEF EnsureOne, Resident
<1>0. None \notin Slots /\ None \notin CpuSlots /\ None \notin Key
  BY Zenon, NoneAssumption
<1>2. Resident' = (Resident \ {e}) \cup {k} /\ (e # None => e \in Resident /\ e # k)
  BY <1>1, AddAccounting
<1>3. /\ keyToSlot'[k] = g /\ gpuKV'[g] = cpuKV[Source(k)] /\ e # k
      /\ e # None => /\ g = keyToSlot[e] /\ keyToSlot'[e] = None
                     /\ freeSlots = {} /\ e = Victim(ProtectedKeys(k[1]))
  BY Zenon, <1>0, <1>1, <1>2 DEF Add, AddReturns, ArenaType, Resident
<1>4. e # None => (IF WriteThrough THEN Source(e) # None ELSE Source(e) = None)
  <2>1. e # None => SpillError(e) = "none"
    BY <1>1 DEF EnsureError
  <2> QED
    BY Zenon, <1>2, <2>1 DEF SpillError, Source, PlacesInv
<1>5. /\ SourceInv'
      /\ UNCHANGED (IF WriteThrough THEN cpuSlots ELSE hostSlots)
      /\ \A j \in Key \ {k, e} : /\ Source(j)' = Source(j)
                                 /\ Source(j) # None => cpuKV'[Source(j)] = cpuKV[Source(j)]
      /\ e # None => Source(e)' # None
                     /\ cpuKV'[Source(e)'] = IF WriteThrough THEN cpuKV[Source(e)] ELSE gpuKV[g]
      /\ IF WriteThrough THEN Source(k)' = Source(k) /\ cpuKV' = cpuKV
                         ELSE Source(k)' = None
  BY Zenon, <1>1, <1>3, <1>4, ReloadSources
<1>6. PlacesInv'
  <2>1. \A j \in Key : (IF WriteThrough THEN cpuSlots'[j] ELSE hostSlots'[j]) = None
    BY <1>5 DEF PlacesInv
  <2>2. \A j \in Key : j \in Resident' => WriteThrough \/ Source(j)' = None
    BY Zenon, <1>2, <1>5 DEF PlacesInv
  <2> QED
    BY Zenon, <2>1, <2>2 DEF PlacesInv
<1>7. \A j \in Key \ {k, e} : Same(j)
  <2> TAKE j \in Key \ {k, e}
  <2>1. keyToSlot'[j] = keyToSlot[j]
    BY <1>1 DEF Add
  <2>2. keyToSlot[j] # None => keyToSlot[j] # g
    <3>1. g \in freeSlots \/ (e \in Resident /\ g = keyToSlot[e])
      BY Zenon, <1>1, <1>2, <1>3, VictimResident DEF AddReturns, Resident
    <3>2. \A i \in Resident : keyToSlot[i] \notin freeSlots
      BY DEF ArenaAccounting
    <3>3. keyToSlot[j] # None => j \in Resident
      BY Zenon DEF Resident
    <3> QED
      BY Zenon, <3>1, <3>2, <3>3 DEF ArenaAccounting
  <2>3. keyToSlot[j] # None => gpuKV'[keyToSlot[j]] = gpuKV[keyToSlot[j]]
    BY Zenon, <1>1, <2>2 DEF ArenaType
  <2> QED
    BY <1>5, <2>1, <2>3 DEF Same
<1>8. ASSUME e # None PROVE e \in OnHost' /\ (Intact(e) => Intact(e)')
  <2>1. e \in Key /\ keyToSlot[e] = g /\ keyToSlot'[e] = None /\ e \in Resident
    BY <1>2, <1>3, <1>8
  <2>2. e \notin Resident'
    BY <2>1 DEF Resident
  <2>3. Source(e)' # None /\ e \in OnHost'
    BY Zenon, <1>5, <1>8, <2>1 DEF OnHost
  <2>4. ASSUME Intact(e) PROVE cpuKV'[Source(e)'] = FullBlock(e[1], e[2])
    BY Zenon, <1>4, <1>5, <1>8, <2>1, <2>4 DEF Intact
  <2> QED
    BY Zenon, <2>2, <2>3, <2>4 DEF Intact, FullBlock
<1>9. k \in Resident' /\ (Intact(k) => Intact(k)')
  <2>1. k \in Resident'
    BY <1>2
  <2>2. ASSUME Intact(k) PROVE gpuKV'[keyToSlot'[k]] = FullBlock(k[1], k[2])
    BY Zenon, <1>1, <1>3, <2>2 DEF Intact
  <2>3. ASSUME Intact(k), WriteThrough
        PROVE  Source(k)' # None /\ cpuKV'[Source(k)'] = FullBlock(k[1], k[2])
    BY Zenon, <1>1, <1>5, <2>3 DEF Intact
  <2>4. ~WriteThrough => Source(k)' = None
    BY <1>5
  <2> QED
    BY Zenon, <2>1, <2>2, <2>3, <2>4 DEF Intact, FullBlock
<1> QED
  BY Zenon, <1>1, <1>2, <1>3, <1>5, <1>6, <1>7, <1>8, <1>9

\* Copying blocks into slots of their own.
LEMMA CopyBlocksAt ==
  ASSUME NEW kv, NEW s, NEW f, NEW b \in DOMAIN f, f[b] \in DOMAIN kv,
         \A a \in DOMAIN f : f[a] = f[b] => a = b
  PROVE  CopyBlocks(kv, s, f)[f[b]] = FullBlock(s, b)
<1>1. (CHOOSE a \in DOMAIN f : f[a] = f[b]) = b
  OBVIOUS
<1> QED
  BY <1>1 DEF CopyBlocks

LEMMA CopyBlocksElsewhere ==
  ASSUME NEW kv, NEW s, NEW f, NEW g \in DOMAIN kv, \A b \in DOMAIN f : f[b] # g
  PROVE  CopyBlocks(kv, s, f)[g] = kv[g]
  BY DEF CopyBlocks

\* The working set of a request of which nothing is held: every block of it has its copies,
\* the newest ones in the arena.
LEMMA EstablishStep ==
  ASSUME ArenaType, PoolType, ArenaAccounting, PlacesInv, SourceInv,
         NEW s \in Seqs, NEW n \in Nat, \A k \in Held : k[1] # s, EstablishWorkingSet(s, n)
  PROVE  /\ PlacesInv' /\ SourceInv'
         /\ \A b \in Blocks : b < n => Intact(<<s, b>>)'
         /\ \A b \in Kept(n) : <<s, b>> \in Resident'
         /\ \A b \in Spilled(n) : <<s, b>> \in OnHost'
         /\ \A k \in Key : k[1] # s \/ ~(k[2] < n) => Same(k)
<1> None \notin Slots /\ None \notin CpuSlots /\ None \notin Key
  BY NoneAssumption
<1>1. PICK f \in Injection(Kept(n), freeSlots), h \in Injection(Backed(n), cpuFree) :
        /\ keyToSlot' = EnterSlots(keyToSlot, s, f)
        /\ gpuKV' = CopyBlocks(gpuKV, s, f)
        /\ cpuSlots' = IF WriteThrough THEN cpuSlots ELSE EnterSlots(cpuSlots, s, h)
        /\ hostSlots' = IF WriteThrough THEN EnterSlots(hostSlots, s, h) ELSE hostSlots
        /\ cpuFree' = cpuFree \ {h[b] : b \in Backed(n)}
        /\ cpuKV' = CopyBlocks(cpuKV, s, h)
  BY Zenon DEF EstablishWorkingSet
<1>2. /\ Kept(n) \subseteq Blocks /\ Spilled(n) \subseteq Backed(n) /\ Backed(n) \subseteq Blocks
      /\ \A b \in Kept(n) \cup Backed(n) : b < n
      /\ \A b \in Blocks : b < n => b \in Kept(n) \/ b \in Spilled(n)
      /\ \A b \in Kept(n) : ~WriteThrough => b \notin Backed(n)
      /\ \A b \in Blocks : b < n /\ WriteThrough => b \in Backed(n)
      /\ Kept(n) \cap Spilled(n) = {}
  <2>1. Cap \in Int /\ n \in Int /\ \A b \in Blocks : b \in Int
    BY ArenaAssumption, FS_CardinalityType DEF Cap, Blocks
  <2> QED
    BY <2>1 DEF Kept, Spilled, Backed
<1>3. /\ f \in [Kept(n) -> freeSlots]
      /\ \A b \in Kept(n) : gpuKV'[f[b]] = FullBlock(s, b)
      /\ \A g \in Slots \ freeSlots : gpuKV'[g] = gpuKV[g]
  <2>1. /\ DOMAIN gpuKV = Slots /\ freeSlots \subseteq Slots /\ DOMAIN f = Kept(n)
        /\ f \in [Kept(n) -> freeSlots] /\ \A a, b \in Kept(n) : f[a] = f[b] => a = b
    BY Zenon DEF ArenaType, Injection, IsInjective
  <2>2. \A b \in Kept(n) : CopyBlocks(gpuKV, s, f)[f[b]] = FullBlock(s, b)
    BY <2>1, CopyBlocksAt
  <2>3. \A g \in Slots \ freeSlots : CopyBlocks(gpuKV, s, f)[g] = gpuKV[g]
    BY <2>1, CopyBlocksElsewhere
  <2> QED
    BY Zenon, <1>1, <2>1, <2>2, <2>3
<1>4. /\ h \in [Backed(n) -> cpuFree] /\ \A a, b \in Backed(n) : h[a] = h[b] => a = b
      /\ \A b \in Backed(n) : cpuKV'[h[b]] = FullBlock(s, b)
      /\ \A g \in CpuSlots \ cpuFree : cpuKV'[g] = cpuKV[g]
  <2>1. /\ DOMAIN cpuKV = CpuSlots /\ cpuFree \subseteq CpuSlots /\ DOMAIN h = Backed(n)
        /\ h \in [Backed(n) -> cpuFree] /\ \A a, b \in Backed(n) : h[a] = h[b] => a = b
    BY Zenon DEF PoolType, Injection, IsInjective
  <2>2. \A b \in Backed(n) : CopyBlocks(cpuKV, s, h)[h[b]] = FullBlock(s, b)
    BY <2>1, CopyBlocksAt
  <2>3. \A g \in CpuSlots \ cpuFree : CopyBlocks(cpuKV, s, h)[g] = cpuKV[g]
    BY <2>1, CopyBlocksElsewhere
  <2> QED
    BY Zenon, <1>1, <2>1, <2>2, <2>3
<1> DEFINE back == {s} \X Backed(n)
<1>5. \A k \in Key : Source(k)' = IF k \in back THEN h[k[2]] ELSE Source(k)
  <2>1. \A k \in Key : k \in back <=> k[1] = s /\ k[2] \in Backed(n)
    BY DEF Key
  <2>2. DOMAIN h = Backed(n)
    BY Zenon, <1>4
  <2> HIDE DEF back
  <2> QED
    BY Zenon, <1>1, <2>1, <2>2 DEF EnterSlots, Source
<1>6. \A k \in Key : keyToSlot'[k] = IF k[1] = s /\ k[2] \in Kept(n) THEN f[k[2]] ELSE keyToSlot[k]
  BY Zenon, <1>1, <1>3 DEF EnterSlots
<1>7. /\ back \subseteq Key
      /\ \A k \in back : k[1] = s /\ k[2] \in Backed(n) /\ h[k[2]] \in cpuFree /\ h[k[2]] \in CpuSlots
      /\ \A b \in Backed(n) : <<s, b>> \in back
      /\ \A j, k \in back : h[j[2]] = h[k[2]] => j = k
  BY <1>2, <1>4 DEF Key, PoolType
<1>8. \A k \in Key : k[1] = s => keyToSlot[k] = None /\ Source(k) = None
  BY DEF Held, Source
<1>9. \A k \in Key : Source(k) \notin cpuFree /\ Source(k) \in CpuSlots \cup {None}
  BY SourceType DEF SourceInv, PoolType
<1> HIDE DEF back
<1>10. SourceInv'
  <2>1. \A j, k \in Key : Source(j)' # None /\ Source(j)' = Source(k)' => j = k
    BY <1>5, <1>7, <1>9 DEF SourceInv
  <2>2. \A c \in CpuSlots : (\E k \in Key : c = Source(k)') <=>
                (\E k \in Key : c = Source(k)) \/ c \in {h[b] : b \in Backed(n)}
    <3>1. ASSUME NEW c \in CpuSlots, NEW k \in Key, c = Source(k)'
          PROVE  (\E j \in Key : c = Source(j)) \/ c \in {h[b] : b \in Backed(n)}
      BY Zenon, <1>5, <1>7, <3>1
    <3>2. ASSUME NEW c \in CpuSlots, NEW k \in Key, c = Source(k)
          PROVE  \E j \in Key : c = Source(j)'
      BY Zenon, <1>5, <1>7, <1>8, <3>2
    <3>3. ASSUME NEW b \in Backed(n) PROVE \E j \in Key : h[b] = Source(j)'
      <4>1. <<s, b>> \in back /\ <<s, b>> \in Key /\ <<s, b>>[2] = b
        BY <1>7
      <4> QED
        BY Zenon, <1>5, <4>1
    <3> QED
      BY Zenon, <3>1, <3>2, <3>3
  <2>3. cpuFree' = CpuSlots \ {Source(k)' : k \in Key}
    BY Zenon, <1>1, <2>2 DEF SourceInv
  <2> QED
    BY Zenon, <2>1, <2>3 DEF SourceInv
<1>11. \A b \in Kept(n) : keyToSlot'[<<s, b>>] = f[b] /\ f[b] # None /\ <<s, b>> \in Resident'
  <2> TAKE b \in Kept(n)
  <2>1. <<s, b>> \in Key /\ f[b] \in Slots
    BY Zenon, <1>2, <1>3, KeyType DEF ArenaType
  <2> QED
    BY Zenon, <1>6, <2>1 DEF Resident
<1>12. \A b \in Backed(n) : Source(<<s, b>>)' = h[b] /\ h[b] # None
  <2> TAKE b \in Backed(n)
  <2>1. <<s, b>> \in Key /\ <<s, b>> \in back /\ h[b] \in CpuSlots
    BY Zenon, <1>2, <1>4, <1>7, KeyType DEF PoolType
  <2> QED
    BY Zenon, <1>5, <2>1
<1>13. \A b \in Blocks : b \notin Kept(n) => keyToSlot'[<<s, b>>] = None
  BY Zenon, <1>6, <1>8, KeyType
<1>14. \A b \in Blocks : b \notin Backed(n) => Source(<<s, b>>)' = None
  BY Zenon, <1>5, <1>7, <1>8, KeyType
<1>15. PlacesInv'
  <2>1. \A j \in Key : (IF WriteThrough THEN cpuSlots'[j] ELSE hostSlots'[j]) = None
    BY Zenon, <1>1 DEF PlacesInv
  <2>2. ASSUME NEW j \in Key, j \in Resident', ~WriteThrough PROVE Source(j)' = None
    <3>1. CASE j[1] = s /\ j[2] \in Kept(n)
      <4>1. j \notin back /\ Source(j) = None
        BY Zenon, <1>2, <1>7, <1>8, <2>2, <3>1
      <4> QED
        BY Zenon, <1>5, <4>1
    <3>2. CASE ~(j[1] = s /\ j[2] \in Kept(n))
      <4>1. j \in Resident
        BY Zenon, <1>6, <2>2, <3>2 DEF Resident
      <4>2. j[1] # s
        BY Zenon, <1>8, <4>1 DEF Resident
      <4> QED
        BY Zenon, <1>5, <1>7, <2>2, <4>1, <4>2 DEF PlacesInv
    <3> QED
      BY Zenon, <3>1, <3>2
  <2> QED
    BY Zenon, <2>1, <2>2 DEF PlacesInv
<1>16. ASSUME NEW b \in Blocks, b < n PROVE Intact(<<s, b>>)'
  <2>1. <<s, b>> \in Key /\ <<s, b>>[1] = s /\ <<s, b>>[2] = b
    BY Zenon, KeyType
  <2>2. <<s, b>> \in Resident' => gpuKV'[keyToSlot'[<<s, b>>]] = FullBlock(s, b)
    BY Zenon, <1>3, <1>11, <1>13 DEF Resident
  <2>3. Source(<<s, b>>)' # None => cpuKV'[Source(<<s, b>>)'] = FullBlock(s, b)
    BY Zenon, <1>4, <1>12, <1>14
  <2>4. <<s, b>> \in Resident' \/ Source(<<s, b>>)' # None
    BY Zenon, <1>2, <1>11, <1>12, <1>16
  <2>5. WriteThrough => Source(<<s, b>>)' # None
    BY Zenon, <1>2, <1>12, <1>16
  <2> QED
    BY Zenon, <2>1, <2>2, <2>3, <2>4, <2>5 DEF Intact, FullBlock
<1>17. \A b \in Spilled(n) : <<s, b>> \in OnHost'
  <2> TAKE b \in Spilled(n)
  <2>1. b \in Blocks /\ b \in Backed(n) /\ b \notin Kept(n)
    BY Zenon, <1>2
  <2> QED
    BY Zenon, <1>12, <1>13, <2>1, KeyType DEF OnHost
<1>18. ASSUME NEW k \in Key, k[1] # s \/ ~(k[2] < n) PROVE Same(k)
  <2>1. keyToSlot'[k] = keyToSlot[k] /\ Source(k)' = Source(k)
    BY Zenon, <1>2, <1>5, <1>6, <1>7, <1>18
  <2>2. keyToSlot[k] # None => keyToSlot[k] \in Slots \ freeSlots
    BY DEF ArenaType, ArenaAccounting, Resident
  <2>3. Source(k) # None => Source(k) \in CpuSlots \ cpuFree
    BY Zenon, <1>9
  <2> QED
    BY Zenon, <1>3, <1>4, <2>1, <2>2, <2>3 DEF Same
<1> QED
  BY Zenon, <1>10, <1>11, <1>15, <1>16, <1>17, <1>18

\* free_request: the copies of the requests of G are gone, the others as they were.
LEMMA FreeStep ==
  ASSUME ArenaType, PoolType, PlacesInv, SourceInv, NEW G \in SUBSET Seqs, FreeRequests(G)
  PROVE  /\ PlacesInv' /\ SourceInv'
         /\ \A k \in Key : k[1] \notin G => Same(k)
         /\ \A k \in Key : k[1] \in G => keyToSlot'[k] = None /\ Source(k)' = None
<1> DEFINE gone == G \X Blocks
<1>1. /\ keyToSlot' = [k \in Key |-> IF k \in gone THEN None ELSE keyToSlot[k]]
      /\ cpuSlots' = [k \in Key |-> IF k \in gone THEN None ELSE cpuSlots[k]]
      /\ hostSlots' = [k \in Key |-> IF k \in gone THEN None ELSE hostSlots[k]]
      /\ cpuFree' = cpuFree \cup (({cpuSlots[k] : k \in gone}
                                       \cup {hostSlots[k] : k \in gone}) \ {None})
      /\ UNCHANGED <<gpuKV, cpuKV>>
  BY Zenon DEF FreeRequests
<1>2. gone \subseteq Key /\ \A k \in Key : k \in gone <=> k[1] \in G
  BY DEF Key
<1> HIDE DEF gone
<1>3. \A k \in Key : /\ keyToSlot'[k] = IF k \in gone THEN None ELSE keyToSlot[k]
                     /\ Source(k)' = IF k \in gone THEN None ELSE Source(k)
  BY Zenon, <1>1 DEF Source
<1>4. PlacesInv'
  BY Zenon, <1>1, <1>3 DEF PlacesInv, Resident
<1>5. ({cpuSlots[k] : k \in gone} \cup {hostSlots[k] : k \in gone}) \ {None}
          = {Source(k) : k \in gone} \ {None}
  <2>1. CASE WriteThrough
    BY <1>2, <2>1 DEF PlacesInv, Source
  <2>2. CASE ~WriteThrough
    BY <1>2, <2>2 DEF PlacesInv, Source
  <2> QED
    BY <2>1, <2>2
<1>6. \A c \in CpuSlots : (\E k \in Key : c = Source(k)') <=>
            (\E k \in Key : c = Source(k)) /\ ~(\E k \in gone : c = Source(k))
  BY <1>2, <1>3, NoneAssumption DEF SourceInv
<1>7. cpuFree' = CpuSlots \ {Source(k)' : k \in Key}
  <2>1. \A k \in gone : Source(k) # None => Source(k) \in CpuSlots
    BY Zenon, <1>2, SourceType
  <2>2. cpuFree' = cpuFree \cup ({Source(k) : k \in gone} \ {None})
    BY Zenon, <1>1, <1>5
  <2> QED
    BY <1>6, <2>1, <2>2, NoneAssumption DEF SourceInv
<1>8. SourceInv'
  BY <1>3, <1>7 DEF SourceInv
<1> QED
  BY <1>1, <1>2, <1>3, <1>4, <1>8 DEF Same

-----------------------------------------------------------------------------
(***************************************************************************)
(* A prefetch with protection.                                             *)
(***************************************************************************)
\* Between passes no request is visited.  While the previous layer's blocks of a request
\* are loaded, the protected blocks are those, there are too few of them to fill the arena,
\* and what was loaded is there.
PrefetchInv ==
    /\ pc = "idle" => cur = None
    /\ pc = "prefetch" /\ cur # None =>
        /\ IsFiniteSet(sel) /\ Cardinality(sel) < Cap
        /\ left \subseteq sel
        /\ prevSelected[cur] = sel
        /\ \A b \in sel \ left : keyToSlot[<<cur, b>>] # None

\* add() on a full map evicts no protected key if they do not fill it.
LEMMA VictimUnprotected ==
  ASSUME ArenaType, ArenaAccounting, freeSlots = {}, NEW P, IsFiniteSet(P), Cardinality(P) < Cap
  PROVE  Victim(P) \notin P
<1>1. IsFiniteSet(Resident) /\ Cardinality(Resident) = Cap
  BY ResidentFinite
<1>2. Cardinality(P) \in Nat /\ Cardinality(Resident) \in Nat
  BY <1>1, FS_CardinalityType
<1>3. ~(Resident \subseteq P)
  <2> SUFFICES ASSUME Resident \subseteq P PROVE FALSE
    OBVIOUS
  <2>1. Cardinality(Resident) <= Cardinality(P)
    BY Zenon, FS_Subset
  <2> QED
    BY <1>1, <1>2, <2>1
<1>4. Resident \ P # {} /\ Resident \ P \in SUBSET Resident
  BY <1>3
<1>5. IsFiniteSet(Resident \ P)
  BY Zenon, <1>1, <1>4, FS_Subset
<1>6. older \in Orders(Resident)
  BY Zenon DEF ArenaAccounting
<1>7. Oldest(Resident \ P) \in Resident \ P
  BY Zenon, <1>4, <1>5, <1>6, OldestExists
<1> QED
  BY Zenon, <1>3, <1>7 DEF Victim

\* Loading one block of a prefetch leaves the others of it in the arena.
LEMMA PrefetchOneKeeps ==
  ASSUME Ordering = "mixture", ArenaInv, PrefetchInv, NEW b \in Blocks, PrefetchOne(b)
  PROVE  \A x \in sel : x \notin left \/ x = b => keyToSlot'[<<cur, x>>] # None
<1>1. /\ pc = "prefetch" /\ cur # None /\ b \in left
      /\ EnsureOne(<<cur, b>>, PrefetchTouch)
  BY Zenon DEF PrefetchOne
<1>2. /\ IsFiniteSet(sel) /\ Cardinality(sel) < Cap /\ prevSelected[cur] = sel
      /\ \A x \in sel \ left : keyToSlot[<<cur, x>>] # None
      /\ b \in sel
  BY Zenon, <1>1 DEF PrefetchInv
<1>3. cur \in Seqs /\ sel \subseteq Blocks
  BY Zenon, <1>1 DEF ArenaInv, TypeOK, LoopType
<1>4. \A x \in sel : <<cur, x>> \in Key
  BY Zenon, <1>3, KeyType
<1>5. CASE keyToSlot[<<cur, b>>] # None /\ Get(<<cur, b>>, PrefetchTouch)
  <2>1. keyToSlot' = keyToSlot
    BY Zenon, <1>5 DEF Get
  <2> QED
    BY Zenon, <1>2, <1>5, <2>1
<1>6. ASSUME keyToSlot[<<cur, b>>] = None, NEW g \in Slots, NEW e \in Key \cup {None},
             AddReturns(<<cur, b>>, ProtectedKeys(<<cur, b>>[1]), g, e),
             Add(<<cur, b>>, g, e, PrefetchTouch)
      PROVE  \A x \in sel : x \notin left \/ x = b => keyToSlot'[<<cur, x>>] # None
  <2> DEFINE P == {<<cur, x>> : x \in sel}
             f == [x \in sel |-> <<cur, x>>]
  <2>1. ProtectedKeys(<<cur, b>>[1]) = P
    BY <1>2 DEF ProtectedKeys
  <2>2. f \in Surjection(sel, P)
    BY Zenon DEF Surjection
  <2>3. \A x \in sel : <<cur, x>> \in P
    OBVIOUS
  <2> HIDE DEF f, P
  <2>4. IsFiniteSet(P) /\ Cardinality(P) <= Cardinality(sel)
    BY Zenon, <1>2, <2>2, FS_Surjection
  <2>5. Cardinality(P) \in Nat /\ Cardinality(sel) \in Nat /\ Cap \in Nat
    BY <1>2, <2>4, ArenaAssumption, FS_CardinalityType DEF Cap
  <2>6. Cardinality(P) < Cap
    BY <1>2, <2>4, <2>5
  <2>7. e # None => freeSlots = {} /\ e = Victim(P)
    BY Zenon, <1>6, <2>1 DEF AddReturns
  <2>8. ASSUME e # None PROVE e \notin P
    BY Zenon, <2>4, <2>6, <2>7, <2>8, VictimUnprotected DEF ArenaInv, TypeOK
  <2>9. g # None
    BY NoneAssumption
  <2>10. ASSUME NEW x \in sel, x \notin left \/ x = b PROVE keyToSlot'[<<cur, x>>] # None
    <3> DEFINE k == <<cur, b>>
               j == <<cur, x>>
    <3>1. j \in Key /\ j \in P /\ (j # k => keyToSlot[j] # None)
      BY Zenon, <1>2, <1>4, <2>3, <2>10
    <3>2. keyToSlot'[j] = IF j = k THEN g ELSE IF j = e THEN None ELSE keyToSlot[j]
      BY Zenon, <1>6, <3>1 DEF Add
    <3>3. j # None
      BY Zenon, <3>1, NoneAssumption
    <3> HIDE DEF k, j
    <3>4. keyToSlot'[j] # None
      BY Zenon, <2>8, <2>9, <3>1, <3>2, <3>3
    <3> QED
      BY Zenon, <3>4 DEF j
  <2> QED
    BY Zenon, <2>10
<1> QED
  BY Zenon, <1>1, <1>5, <1>6 DEF EnsureOne

\* What a prefetch protects fits beside the block it loads.
LEMMA WindowFits ==
  ASSUME Ordering = "mixture", TypeOK, NEW s \in Seqs, NEW W \in Selections(s, MinOf(Window, TopK))
  PROVE  W \subseteq Blocks /\ IsFiniteSet(W) /\ Cardinality(W) < Cap
<1>1. W \subseteq Blocks /\ Cardinality(W) = MinOf(MinOf(Window, TopK), full[s])
  BY DEF Selections
<1>2. IsFiniteSet(Blocks)
  BY SizeAssumption, FS_Interval DEF Blocks
<1>3. full[s] \in Nat /\ Cap \in Nat /\ Window < Cap
  BY SizeAssumption, ArenaAssumption, ConfigAssumption, FS_CardinalityType
     DEF TypeOK, EngineType, Cap, ValidConfig
<1>4. MinOf(MinOf(Window, TopK), full[s]) < Cap
  BY <1>3, SizeAssumption DEF MinOf
<1> QED
  BY Zenon, <1>1, <1>2, <1>4, FS_Subset

LEMMA PrefetchNext ==
  ASSUME Ordering = "mixture", ArenaInv, PrefetchInv, [Next]_vars
  PROVE  PrefetchInv'
<1>1. CASE pc' = "idle"
  <2>1. \A e : ~Raise(e)
    BY <1>1 DEF Raise
  <2>2. ~Failure
    BY Zenon, <2>1 DEF Failure, StageRaises, EnsureOneRaises
  <2>3. ASSUME NEW s, EndIngest(s) PROVE cur' = None
    BY Zenon, <1>1, <2>3 DEF EndIngest
  <2>4. ASSUME Gc \/ IngestPrompt \/ StagePartial \/ OnBlockFilled \/ WriteLiveBlock \/ Attend
        PROVE  cur' = None
    BY Zenon, <1>1, <2>3, <2>4
       DEF Gc, IngestPrompt, StagePartial, OnBlockFilled, WriteLiveBlock, EndTurn, Attend
  <2>5. ASSUME NEW s \in Seqs,
               BeginPrefetch(s) \/ BeginNotify(s) \/ AppendToken(s) \/ SkipIngest(s)
                 \/ IngestToken(s) \/ Select(s) \/ Finish(s)
        PROVE  cur' = None
    BY Zenon, <1>1, <2>3, <2>5
       DEF BeginPrefetch, BeginNotify, AppendToken, EndTurn, SkipIngest, IngestToken, Select,
           Finish, loop, PrefetchInv
  <2>6. ASSUME (\E b \in Blocks : PrefetchOne(b) \/ EnsureResident(b)) \/ EndPrefetch \/ Decode
        PROVE  cur' = None
    BY Zenon, <1>1, <2>6 DEF PrefetchOne, EnsureResident, EndPrefetch, Decode, PrefetchInv
  <2>7. ASSUME PrefillWhole \/ PrefillChunk PROVE cur' = None
    BY Zenon, <1>1, <2>7 DEF PrefillWhole, PrefillChunk, Prefill, PrefetchInv
  <2>8. ASSUME UNCHANGED vars PROVE cur' = None
    BY Zenon, <1>1, <2>8 DEF vars, loop, PrefetchInv
  <2>9. cur' = None
    BY Zenon, <2>2, <2>4, <2>5, <2>6, <2>7, <2>8 DEF Next, Step
  <2>10. "idle" # "prefetch"
    OBVIOUS
  <2> QED
    BY Zenon, <1>1, <2>9, <2>10 DEF PrefetchInv
<1>2. CASE pc' = "prefetch" /\ cur' # None
  <2>1. \/ \E s \in Seqs : BeginPrefetch(s)
        \/ \E b \in Blocks : PrefetchOne(b)
        \/ UNCHANGED vars
    <3>1. \A e : ~Raise(e)
      BY <1>2 DEF Raise
    <3>2. ~Failure
      BY Zenon, <3>1 DEF Failure, StageRaises, EnsureOneRaises
    <3>3. ~Gc /\ ~IngestPrompt /\ ~StagePartial /\ ~OnBlockFilled /\ ~WriteLiveBlock /\ ~Attend
      BY Zenon, <1>2 DEF Gc, IngestPrompt, EndIngest, StagePartial, OnBlockFilled, WriteLiveBlock,
                  EndTurn, Attend
    <3>4. \A s \in Seqs : /\ ~BeginNotify(s) /\ ~AppendToken(s) /\ ~Finish(s)
                          /\ ~SkipIngest(s) /\ ~IngestToken(s) /\ ~Select(s)
      BY Zenon, <1>2 DEF BeginNotify, AppendToken, EndTurn, Finish, SkipIngest, IngestToken,
                  EndIngest, Select
    <3>5. (\A b \in Blocks : ~EnsureResident(b)) /\ ~EndPrefetch /\ ~Decode
      BY Zenon, <1>2 DEF EnsureResident, EndPrefetch, Decode, PrefetchInv
    <3>6. ~PrefillWhole /\ ~PrefillChunk
      BY Zenon, <1>2 DEF PrefillWhole, PrefillChunk, Prefill
    <3> QED
      BY Zenon, <3>2, <3>3, <3>4, <3>5, <3>6 DEF Next, Step
  <2>2. ASSUME NEW s \in Seqs, BeginPrefetch(s) PROVE PrefetchInv'
    <3> PICK W \in Selections(s, MinOf(Window, TopK)) :
                sel' = W /\ left' = W /\ prevSelected' = [prevSelected EXCEPT ![s] = W]
      BY Zenon, <2>2 DEF BeginPrefetch
    <3>1. cur' = s
      BY Zenon, <2>2 DEF BeginPrefetch
    <3>2. prevSelected'[s] = W
      BY DEF ArenaInv, TypeOK, BookType
    <3>3. IsFiniteSet(W) /\ Cardinality(W) < Cap
      BY Zenon, WindowFits DEF ArenaInv
    <3>4. Cap' = Cap
      BY Zenon DEF Cap
    <3>5. "idle" # "prefetch"
      OBVIOUS
    <3> QED
      BY Zenon, <1>2, <3>1, <3>2, <3>3, <3>4, <3>5 DEF PrefetchInv
  <2>3. ASSUME NEW b \in Blocks, PrefetchOne(b) PROVE PrefetchInv'
    <3>1. /\ pc = "prefetch" /\ cur # None /\ left' = left \ {b} /\ prevSelected' = prevSelected
          /\ cur' = cur /\ sel' = sel
      BY <1>2, <2>3 DEF PrefetchOne, book
    <3>2. \A x \in sel : x \notin left \/ x = b => keyToSlot'[<<cur, x>>] # None
      BY Zenon, <2>3, PrefetchOneKeeps
    <3>3. "idle" # "prefetch"
      OBVIOUS
    <3> QED
      BY Zenon, <1>2, <3>1, <3>2, <3>3 DEF PrefetchInv, Cap
  <2>4. ASSUME UNCHANGED vars PROVE PrefetchInv'
    <3>1. UNCHANGED <<pc, cur, sel, left, prevSelected, keyToSlot>>
      BY <2>4 DEF vars, loop, arena, book
    <3> QED
      BY Zenon, <3>1 DEF PrefetchInv, Cap
  <2> QED
    BY Zenon, <2>1, <2>2, <2>3, <2>4
<1> QED
  BY Zenon, <1>1, <1>2 DEF PrefetchInv

\* "mixture" protects what a prefetch brings in: whatever the prefetch of a request evicts,
\* it is no block the same prefetch has loaded, for every arena and any window that
\* QuestConfig.validate accepts, any batch and with or without touching.
THEOREM PrefetchedStay ==
  ASSUME Ordering = "mixture"
  PROVE  Spec => PrefetchKeepsItsBlocks
<1> DEFINE Keeps == pc = "prefetch" /\ cur # None =>
                        \A b \in sel \ left : keyToSlot'[<<cur, b>>] # None
<1>1. Init => ArenaInv /\ PrefetchInv
  BY ArenaInvInit DEF Init, PrefetchInv
<1>2. ArenaInv /\ PrefetchInv /\ [Next]_vars => (ArenaInv /\ PrefetchInv)'
  BY ArenaInvNext, PrefetchNext
<1>3. ArenaInv /\ PrefetchInv /\ [Next]_vars => [Keeps]_vars
  <2> SUFFICES ASSUME ArenaInv, PrefetchInv, Next, pc = "prefetch", cur # None
               PROVE  \A b \in sel \ left : keyToSlot'[<<cur, b>>] # None
    OBVIOUS
  <2>1. ASSUME NEW e, Raise(e) PROVE keyToSlot' = keyToSlot
    BY Zenon, <2>1 DEF Raise, arena
  <2>2. (\E b \in Blocks : PrefetchOne(b)) \/ keyToSlot' = keyToSlot
    <3>1. ASSUME Failure PROVE keyToSlot' = keyToSlot
      BY Zenon, <2>1, <3>1 DEF Failure, StageRaises, EnsureOneRaises
    <3>2. ~Gc /\ ~IngestPrompt /\ ~StagePartial /\ ~OnBlockFilled /\ ~WriteLiveBlock /\ ~Attend
      BY Zenon DEF Gc, IngestPrompt, StagePartial, OnBlockFilled, WriteLiveBlock, Attend
    <3>3. \A s \in Seqs : /\ ~BeginPrefetch(s) /\ ~BeginNotify(s) /\ ~AppendToken(s)
                          /\ ~Finish(s) /\ ~SkipIngest(s) /\ ~IngestToken(s) /\ ~Select(s)
      BY Zenon DEF BeginPrefetch, BeginNotify, AppendToken, Finish, SkipIngest, IngestToken, Select
    <3>4. (\A b \in Blocks : ~EnsureResident(b)) /\ ~Decode /\ ~PrefillWhole /\ ~PrefillChunk
      BY Zenon DEF EnsureResident, Decode, PrefillWhole, PrefillChunk, Prefill
    <3>5. ASSUME EndPrefetch PROVE keyToSlot' = keyToSlot
      BY Zenon, <3>5 DEF EndPrefetch, arena
    <3> QED
      BY Zenon, <3>1, <3>2, <3>3, <3>4, <3>5 DEF Next, Step
  <2>3. ASSUME keyToSlot' = keyToSlot
        PROVE  \A b \in sel \ left : keyToSlot'[<<cur, b>>] # None
    BY Zenon, <2>3 DEF PrefetchInv
  <2>4. ASSUME NEW b \in Blocks, PrefetchOne(b)
        PROVE  \A x \in sel \ left : keyToSlot'[<<cur, x>>] # None
    BY Zenon, <2>4, PrefetchOneKeeps
  <2> QED
    BY Zenon, <2>2, <2>3, <2>4
<1> QED
  BY <1>1, <1>2, <1>3, PTL DEF Spec, PrefetchKeepsItsBlocks
=============================================================================
