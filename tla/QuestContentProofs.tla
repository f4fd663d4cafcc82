------------------------- MODULE QuestContentProofs -------------------------
(***************************************************************************)
(* What the copies of the blocks hold.  First what each operation of the   *)
(* manager does to the contents of the arena and of the host pool when all *)
(* that is held belongs to one request.  Then the invariant of an engine   *)
(* that serves one request at a time (Good), and the steps that keep it up *)
(* to the notification of a decode pass.                                   *)
(***************************************************************************)
EXTENDS QuestCopyProofs

LEMMA HeldPlaces ==
  ASSUME PlacesInv
  PROVE  \A k \in Key : k \in Held <=> k \in Resident \/ Source(k) # None
  BY DEF PlacesInv, Held, Resident, Source

LEMMA HeldPlacesNext ==
  ASSUME PlacesInv'
  PROVE  \A k \in Key : k \in Held' <=> k \in Resident' \/ Source(k)' # None
  BY DEF PlacesInv, Held, Resident, Source

LEMMA SameCopies ==
  ASSUME NEW j \in Key, Same(j)
  PROVE  /\ j \in Resident' <=> j \in Resident
         /\ Intact(j) => Intact(j)'
         /\ \A n : Holds(j, n) => Holds(j, n)'
<1>1. j \in Resident' <=> j \in Resident
  BY DEF Same, Resident
<1>2. j \in Resident => gpuKV'[keyToSlot'[j]] = gpuKV[keyToSlot[j]]
  BY DEF Same, Resident
<1>3. Source(j) # None => cpuKV'[Source(j)'] = cpuKV[Source(j)]
  BY DEF Same
<1>4. Intact(j) => Intact(j)'
  BY <1>1, <1>2, <1>3 DEF Intact, FullBlock, Same
<1>5. \A n : Holds(j, n) => Holds(j, n)'
  BY <1>1, <1>2 DEF Holds
<1> QED
  BY <1>1, <1>4, <1>5

\* A request all of whose copies stay as they are.
LEMMA ContentSame ==
  ASSUME PlacesInv, PlacesInv', NEW s \in Seqs, NEW f, NEW p \in Int,
         NEW live \in BOOLEAN, NEW l \in BOOLEAN, l => live,
         p > 0 => f \in Blocks,
         \A k \in Key : k[1] = s => Same(k), ContentOf(s, f, p, live)
  PROVE  ContentOf(s, f, p, l)'
<1>1. \A b \in Blocks : <<s, b>> \in Key /\ Same(<<s, b>>)
  BY KeyType
<1>2. \A b \in Blocks : b < f => Intact(<<s, b>>)'
  BY <1>1, SameCopies DEF ContentOf
<1>3. f \in Blocks /\ Source(<<s, f>>)' # None =>
            WriteThrough /\ cpuKV'[Source(<<s, f>>)'] = FullBlock(s, f)
  BY <1>1 DEF ContentOf, Same
<1>4. l /\ p > 0 => Holds(<<s, f>>, p)'
  BY <1>1, SameCopies DEF ContentOf
<1>5. \A b \in Blocks : <<s, b>> \in Held' => b < f \/ (b = f /\ p > 0)
  <2>1. \A b \in Blocks : <<s, b>> \in Held' => <<s, b>> \in Held
    BY Zenon, <1>1, SameCopies, HeldPlaces, HeldPlacesNext DEF Same
  <2> QED
    BY <2>1 DEF ContentOf
<1> QED
  BY <1>2, <1>3, <1>4, <1>5 DEF ContentOf, FullBlock

\* Every block e that is held and is not the live block k survives as an intact one.
LEMMA StageContent ==
  ASSUME ArenaType, PoolType, ArenaAccounting, StoreInv, NEW s \in Seqs, NEW f \in Blocks,
         NEW p \in Int, NEW live \in BOOLEAN, NEW C, NEW W, NEW isFull \in BOOLEAN,
         OwnedBy(s), ContentOf(s, f, p, live), Stage(<<s, f>>, C, W, isFull)
  PROVE  /\ StoreInv'
         /\ Held' \subseteq Held \cup {<<s, f>>}
         /\ \A b \in Blocks : b < f => Intact(<<s, b>>)'
         /\ <<s, f>> \in Resident'
         /\ \E old \in Content : gpuKV'[keyToSlot'[<<s, f>>]] = CopyRows(old, <<s, f>>, C, W)
         /\ <<s, f>> \in Resident =>
               gpuKV'[keyToSlot'[<<s, f>>]] = CopyRows(gpuKV[keyToSlot[<<s, f>>]], <<s, f>>, C, W)
         /\ ~isFull /\ Source(<<s, f>>)' # None =>
                WriteThrough /\ cpuKV'[Source(<<s, f>>)'] = FullBlock(s, f)
         /\ isFull /\ gpuKV'[keyToSlot'[<<s, f>>]] = FullBlock(s, f) => Intact(<<s, f>>)'
<1> DEFINE k == <<s, f>>
<1>1. k \in Key /\ k[1] = s /\ k[2] = f /\ PlacesInv /\ SourceInv /\ OnCpuInv
  BY KeyType DEF StoreInv
<1>2. Source(k) # None => WriteThrough /\ cpuKV[Source(k)] = FullBlock(s, f)
  BY DEF ContentOf
<1> HIDE DEF k
<1>3. Stage(k, C, W, isFull)
  BY DEF k
<1>4. /\ PlacesInv' /\ SourceInv'
      /\ k \in Resident'
      /\ \E old \in Content : gpuKV'[keyToSlot'[k]] = CopyRows(old, k, C, W)
      /\ k \in Resident =>
             gpuKV'[keyToSlot'[k]] = CopyRows(gpuKV[keyToSlot[k]], k, C, W)
      /\ Source(k) # None => Source(k)' = Source(k) /\ cpuKV'[Source(k)] = cpuKV[Source(k)]
      /\ IF WriteThrough /\ isFull
         THEN /\ Source(k)' # None
              /\ Source(k) = None => cpuKV'[Source(k)'] = gpuKV'[keyToSlot'[k]]
         ELSE Source(k)' = Source(k)
  BY <1>1, <1>2, <1>3, StageStep
<1>5. PICK e \in Key \cup {None} :
                /\ \A j \in Key \ {k, e} : Same(j)
                /\ onCpu' = (onCpu \cup BlockOf(e)) \ {k[2]}
                /\ e # None =>
                    /\ e \in Resident /\ e # k /\ k \notin Resident
                    /\ e \in OnHost'
                    /\ Intact(e) => Intact(e)'
  BY <1>1, <1>2, <1>3, StageStep
<1>6. Held' \subseteq Held \cup {k}
  BY <1>1, <1>3, StageHeld
<1>8. e # None => e \in Key /\ e[1] = s /\ Intact(e)'
  <2> SUFFICES ASSUME e # None PROVE e[1] = s /\ Intact(e)'
    OBVIOUS
  <2>1. e \in Held /\ e[1] = s /\ e \in Key /\ e # k
    BY <1>5 DEF Held, Resident, OwnedBy
  <2>2. PICK b \in Blocks : e = <<s, b>>
    BY <2>1 DEF Key
  <2>3. b < f
    BY <2>1, <2>2 DEF ContentOf, k
  <2>4. Intact(e)
    BY <2>2, <2>3 DEF ContentOf
  <2> QED
    BY <1>5, <2>1, <2>4
<1>9. ASSUME NEW b \in Blocks, b < f PROVE Intact(<<s, b>>)'
  <2>1. <<s, b>> \in Key /\ <<s, b>> # k /\ Intact(<<s, b>>)
    BY <1>9, KeyType DEF ContentOf, k, Blocks
  <2>2. CASE <<s, b>> = e
    BY <1>8, <2>1, <2>2, NoneAssumption
  <2>3. CASE <<s, b>> # e
    BY Zenon, <1>5, <2>1, <2>3, SameCopies
  <2> QED
    BY <2>2, <2>3
<1>10. OnCpuInv'
  <2>1. OnHost' = (OnHost \cup (IF e = None THEN {} ELSE {e})) \ {k}
    <3>1. k \notin OnHost'
      BY <1>4 DEF OnHost, Resident
    <3>2. \A j \in Key \ {k, e} : j \in OnHost' <=> j \in OnHost
      BY <1>5 DEF Same, OnHost
    <3>3. e # None => e \in OnHost' /\ e # k
      BY <1>5
    <3>4. OnHost \subseteq Key /\ OnHost' \subseteq Key /\ None \notin Key
      BY NoneAssumption DEF OnHost
    <3> QED
      BY Zenon, <3>1, <3>2, <3>3, <3>4
  <2>2. \A j \in OnHost : j \in Key /\ j[1] = s
    BY <1>1, HeldPlaces DEF OnHost, OwnedBy
  <2>3. \A i, j \in Key : i[1] = s /\ j[1] = s /\ i[2] = j[2] => i = j
    BY DEF Key
  <2>4. {j[2] : j \in OnHost'} = ({j[2] : j \in OnHost} \cup BlockOf(e)) \ {k[2]}
    <3>1. CASE e = None
      <4>1. \A j \in OnHost : j[2] = k[2] => j = k
        BY Zenon, <1>1, <2>2, <2>3
      <4> QED
        BY <2>1, <3>1, <4>1 DEF BlockOf
    <3>2. CASE e # None
      <4>1. \A j \in OnHost \cup {e} : j[2] = k[2] => j = k
        BY Zenon, <1>1, <1>8, <2>2, <2>3, <3>2
      <4> QED
        BY <2>1, <3>2, <4>1 DEF BlockOf
    <3> QED
      BY Zenon, <3>1, <3>2
  <2> QED
    BY Zenon, <1>1, <1>5, <2>4 DEF OnCpuInv
<1>11. ~isFull /\ Source(k)' # None => WriteThrough /\ cpuKV'[Source(k)'] = FullBlock(s, f)
  BY Zenon, <1>2, <1>4
<1>12. ASSUME isFull, gpuKV'[keyToSlot'[k]] = FullBlock(s, f) PROVE Intact(k)'
  <2>1. WriteThrough => Source(k)' # None
    BY Zenon, <1>4, <1>12
  <2>2. Source(k)' # None => cpuKV'[Source(k)'] = FullBlock(s, f)
    BY Zenon, <1>2, <1>4, <1>12
  <2> QED
    BY Zenon, <1>1, <1>4, <1>12, <2>1, <2>2 DEF Intact, FullBlock
<1> QED
  BY Zenon, <1>4, <1>6, <1>9, <1>10, <1>11, <1>12 DEF StoreInv, k

\* What the slot of the block holds then.
Staged(s, f, C, W) ==
    /\ <<s, f>> \in Resident'
    /\ \E old \in Content : gpuKV'[keyToSlot'[<<s, f>>]] = CopyRows(old, <<s, f>>, C, W)
    /\ <<s, f>> \in Resident =>
          gpuKV'[keyToSlot'[<<s, f>>]] = CopyRows(gpuKV[keyToSlot[<<s, f>>]], <<s, f>>, C, W)

LEMMA StageWrites ==
  ASSUME ArenaType, PoolType, ArenaAccounting, StoreInv, NEW s \in Seqs, NEW f \in Blocks,
         NEW p \in Int, NEW live \in BOOLEAN, NEW C, NEW W, NEW isFull \in BOOLEAN,
         OwnedBy(s), ContentOf(s, f, p, live), Stage(<<s, f>>, C, W, isFull)
  PROVE  Staged(s, f, C, W)
  BY StageContent DEF Staged

\* on_block_filled, append_decode_token_kvshare with the last row: one more full block.
LEMMA StageFull ==
  ASSUME ArenaType, PoolType, ArenaAccounting, StoreInv, NEW s \in Seqs, NEW f \in Blocks,
         NEW p \in Int, NEW live \in BOOLEAN, NEW C, NEW W,
         NEW isFull \in BOOLEAN, isFull,
         OwnedBy(s), ContentOf(s, f, p, live), Stage(<<s, f>>, C, W, isFull),
         gpuKV'[keyToSlot'[<<s, f>>]] = FullBlock(s, f)
  PROVE  StoreInv' /\ Held' \subseteq Held \cup {<<s, f>>} /\ ContentOf(s, f + 1, 0, TRUE)'
<1>1. /\ StoreInv' /\ Held' \subseteq Held \cup {<<s, f>>}
      /\ \A b \in Blocks : b < f => Intact(<<s, b>>)'
      /\ Intact(<<s, f>>)'
  BY Zenon, StageContent
<1>2. /\ f \in Int
      /\ \A b \in Blocks : b \in Int /\ (b < f + 1 <=> b < f \/ b = f)
  BY SizeAssumption DEF Blocks
<1>3. \A b \in Blocks : <<s, b>> \in Held' => b < f + 1
  <2>1. \A b \in Blocks : <<s, b>> \in Held' => b < f \/ b = f
    BY <1>1 DEF ContentOf
  <2> QED
    BY <1>2, <2>1
<1>4. f + 1 \in Blocks => Source(<<s, f + 1>>)' = None
  <2>1. f + 1 \in Blocks => <<s, f + 1>> \in Key /\ <<s, f + 1>> \notin Held'
    BY <1>2, <1>3, KeyType
  <2> QED
    BY <1>1, <2>1, HeldPlacesNext DEF StoreInv
<1>5. \A b \in Blocks : b < f + 1 => Intact(<<s, b>>)'
  BY Zenon, <1>1, <1>2
<1> QED
  BY <1>3, <1>4, <1>5, <1>1 DEF ContentOf

\* Of the first q rows of a block each is copied (C) and gets its token (W), or was there.
Covers(C, W, q, p, live) ==
    \A r \in Rows : r < q => \/ r \in C /\ r \in W
                             \/ r \notin C /\ live /\ p > 0 /\ r < p

\* write_live_block, append_decode_token_kvshare and the tail of prefill_ingest_kvshare:
\* the live block has q rows.
LEMMA StageLive ==
  ASSUME ArenaType, PoolType, ArenaAccounting, StoreInv, NEW s \in Seqs, NEW f \in Blocks,
         NEW p \in Int, NEW q \in Int, q > 0, NEW live \in BOOLEAN, NEW C, NEW W,
         NEW isFull \in BOOLEAN, ~isFull,
         OwnedBy(s), ContentOf(s, f, p, live), Stage(<<s, f>>, C, W, isFull),
         Covers(C, W, q, p, live)
  PROVE  StoreInv' /\ Held' \subseteq Held \cup {<<s, f>>} /\ ContentOf(s, f, q, TRUE)'
<1> DEFINE k == <<s, f>>
<1>1. /\ StoreInv' /\ Held' \subseteq Held \cup {k}
      /\ \A b \in Blocks : b < f => Intact(<<s, b>>)'
      /\ k \in Resident'
      /\ \E old \in Content : gpuKV'[keyToSlot'[k]] = CopyRows(old, k, C, W)
      /\ k \in Resident => gpuKV'[keyToSlot'[k]] = CopyRows(gpuKV[keyToSlot[k]], k, C, W)
      /\ Source(k)' # None => WriteThrough /\ cpuKV'[Source(k)'] = FullBlock(s, f)
  BY StageContent
<1>2. \A b \in Blocks : <<s, b>> \in Held' => b < f \/ (b = f /\ q > 0)
  BY <1>1 DEF ContentOf
<1>3. live /\ p > 0 => Holds(k, p)
  BY DEF ContentOf
<1> HIDE DEF k
<1>4. ASSUME NEW r \in Rows, r < q PROVE gpuKV'[keyToSlot'[k]][r] = k
  <2>1. CASE r \in C /\ r \in W
    BY Zenon, <1>1, <2>1 DEF CopyRows
  <2>2. CASE r \notin C /\ live /\ p > 0 /\ r < p
    <3>1. k \in Resident /\ gpuKV[keyToSlot[k]][r] = k
      BY Zenon, <1>3, <2>2 DEF Holds
    <3> QED
      BY Zenon, <1>1, <2>2, <3>1 DEF CopyRows
  <2> QED
    BY Zenon, <1>4, <2>1, <2>2 DEF Covers
<1>5. Holds(k, q)'
  BY <1>1, <1>4 DEF Holds
<1> QED
  BY Zenon, <1>1, <1>2, <1>5 DEF ContentOf, k

\* A reload in pass 2 of ensure_resident.
LEMMA ReloadContent ==
  ASSUME ArenaType, PoolType, ArenaAccounting, StoreInv, NEW s \in Seqs, NEW f \in Int,
         NEW p \in Int, NEW b \in Blocks, b < f, <<s, b>> \notin Resident,
         NEW mru \in BOOLEAN, EnsureOne(<<s, b>>, mru),
         OwnedBy(s), ContentOf(s, f, p, TRUE),
         p > 0 /\ freeSlots = {} => Victim(ProtectedKeys(s)) # <<s, f>>
  PROVE  /\ StoreInv' /\ Held' \subseteq Held /\ ContentOf(s, f, p, TRUE)'
         /\ <<s, b>> \in Resident'
         /\ \A j \in Resident : (freeSlots = {} /\ j = Victim(ProtectedKeys(s))) \/ j \in Resident'
<1> DEFINE k == <<s, b>>
<1>1. k \in Key /\ k[1] = s /\ k[2] = b /\ PlacesInv /\ SourceInv /\ OnCpuInv
  BY KeyType DEF StoreInv
<1>2. Intact(k) /\ EnsureOne(k, mru) /\ k \notin Resident
  BY DEF ContentOf
<1>3. \A a \in Blocks : <<s, a>> \in Key
  BY KeyType
<1>4. f \in Blocks => k # <<s, f>>
  OBVIOUS
<1> HIDE DEF k
<1>5. PlacesInv' /\ SourceInv' /\ k \in Resident' /\ Intact(k)'
  BY Zenon, <1>1, <1>2, ReloadStep
<1>6. PICK e \in Key \cup {None} :
                /\ e # None => e = Victim(ProtectedKeys(k[1])) /\ freeSlots = {}
                /\ \A j \in Key \ {k, e} : Same(j)
                /\ onCpu' = (onCpu \cup BlockOf(e)) \ {k[2]}
                /\ e # None =>
                    /\ e \in Resident /\ e # k
                    /\ e \in OnHost'
                    /\ Intact(e) => Intact(e)'
  BY <1>1, <1>2, ReloadStep
<1>7. Held' \subseteq Held
  BY Zenon, <1>1, <1>2, EnsureOneHeld
<1>8. e # None => e \in Key /\ e[1] = s /\ Intact(e)' /\ (p > 0 => e # <<s, f>>)
  <2> SUFFICES ASSUME e # None PROVE e[1] = s /\ Intact(e)' /\ (p > 0 => e # <<s, f>>)
    BY Zenon
  <2>1. e \in Held /\ e[1] = s /\ e \in Key /\ e # k
    BY <1>6 DEF Held, Resident, OwnedBy
  <2>2. PICK a \in Blocks : e = <<s, a>>
    BY <2>1 DEF Key
  <2>3. p > 0 => e # <<s, f>>
    BY Zenon, <1>1, <1>6
  <2>4. a < f
    BY Zenon, <2>1, <2>2, <2>3 DEF ContentOf
  <2>5. Intact(e)
    BY <2>2, <2>4 DEF ContentOf
  <2> QED
    BY Zenon, <1>6, <2>1, <2>3, <2>5
<1>9. ASSUME NEW a \in Blocks, a < f PROVE Intact(<<s, a>>)'
  <2>1. <<s, a>> \in Key /\ Intact(<<s, a>>)
    BY <1>3, <1>9 DEF ContentOf
  <2>2. CASE <<s, a>> = e
    BY Zenon, <1>8, <2>1, <2>2, NoneAssumption
  <2>3. CASE <<s, a>> # e /\ <<s, a>> # k
    BY Zenon, <1>6, <2>1, <2>3, SameCopies
  <2>4. CASE <<s, a>> = k
    BY Zenon, <1>5, <2>4
  <2> QED
    BY Zenon, <2>2, <2>3, <2>4
<1>10. OnCpuInv'
  <2>1. OnHost' = (OnHost \cup (IF e = None THEN {} ELSE {e})) \ {k}
    <3>1. k \notin OnHost'
      BY Zenon, <1>5 DEF OnHost, Resident
    <3>2. \A j \in Key \ {k, e} : j \in OnHost' <=> j \in OnHost
      BY <1>6 DEF Same, OnHost
    <3>3. e # None => e \in OnHost' /\ e # k
      BY <1>6
    <3>4. OnHost \subseteq Key /\ OnHost' \subseteq Key /\ None \notin Key
      BY Zenon, NoneAssumption DEF OnHost
    <3> QED
      BY Zenon, <3>1, <3>2, <3>3, <3>4
  <2>2. \A j \in OnHost : j \in Key /\ j[1] = s
    BY <1>1, HeldPlaces DEF OnHost, OwnedBy
  <2>3. \A i, j \in Key : i[1] = s /\ j[1] = s /\ i[2] = j[2] => i = j
    BY DEF Key
  <2>4. {j[2] : j \in OnHost'} = ({j[2] : j \in OnHost} \cup BlockOf(e)) \ {k[2]}
    <3>1. CASE e = None
      <4>1. \A j \in OnHost : j[2] = k[2] => j = k
        BY Zenon, <1>1, <2>2, <2>3
      <4> QED
        BY Zenon, <2>1, <3>1, <4>1 DEF BlockOf
    <3>2. CASE e # None
      <4>1. \A j \in OnHost \cup {e} : j[2] = k[2] => j = k
        BY Zenon, <1>1, <1>8, <2>2, <2>3, <3>2
      <4> QED
        BY Zenon, <2>1, <3>2, <4>1 DEF BlockOf
    <3> QED
      BY Zenon, <3>1, <3>2
  <2> QED
    BY Zenon, <1>1, <1>6, <2>4 DEF OnCpuInv
<1>11. f \in Blocks /\ Source(<<s, f>>)' # None =>
            WriteThrough /\ cpuKV'[Source(<<s, f>>)'] = FullBlock(s, f)
  <2> SUFFICES ASSUME f \in Blocks, Source(<<s, f>>)' # None
               PROVE  WriteThrough /\ cpuKV'[Source(<<s, f>>)'] = FullBlock(s, f)
    OBVIOUS
  <2>1. <<s, f>> # e
    <3>1. CASE p > 0
      BY Zenon, <1>3, <1>8, <3>1, NoneAssumption
    <3>2. CASE ~(p > 0)
      <4>1. <<s, f>> \notin Held
        BY <3>2 DEF ContentOf
      <4> QED
        BY Zenon, <1>3, <1>6, <4>1, NoneAssumption DEF Held, Resident
    <3> QED
      BY Zenon, <3>1, <3>2
  <2>2. Same(<<s, f>>)
    BY Zenon, <1>3, <1>4, <1>6, <2>1
  <2> QED
    BY <2>2 DEF Same, ContentOf
<1>12. p > 0 => Holds(<<s, f>>, p)'
  <2> SUFFICES ASSUME p > 0 PROVE Holds(<<s, f>>, p)'
    OBVIOUS
  <2>1. Holds(<<s, f>>, p) /\ <<s, f>> \in Key
    BY DEF ContentOf, Holds, Resident
  <2>2. <<s, f>> # k /\ <<s, f>> # e
    BY Zenon, <1>4, <1>8, <2>1, NoneAssumption DEF Key
  <2> QED
    BY Zenon, <1>6, <2>1, <2>2, SameCopies
<1>13. ContentOf(s, f, p, TRUE)'
  BY Zenon, <1>7, <1>9, <1>11, <1>12 DEF ContentOf, FullBlock
<1>14. \A j \in Resident : (freeSlots = {} /\ j = Victim(ProtectedKeys(s))) \/ j \in Resident'
  <2> TAKE j \in Resident
  <2>1. j \in Key /\ j # k
    BY <1>2 DEF Resident
  <2>2. CASE j = e
    BY Zenon, <1>1, <1>6, <2>1, <2>2, NoneAssumption
  <2>3. CASE j # e
    BY Zenon, <1>6, <2>1, <2>3, SameCopies
  <2> QED
    BY <2>2, <2>3
<1> QED
  BY Zenon, <1>5, <1>7, <1>10, <1>13, <1>14 DEF StoreInv, k

\* trim_to_working_set, prefill_ingest_kvshare, when nothing else is held.
LEMMA EstablishContent ==
  ASSUME ArenaType, PoolType, ArenaAccounting, StoreInv, NEW s \in Seqs, NEW n \in Nat,
         Held = {}, EstablishWorkingSet(s, n)
  PROVE  /\ StoreInv' /\ OwnedBy(s)'
         /\ ContentOf(s, n, 0, TRUE)'
         /\ \A p : ContentOf(s, n, p, FALSE)'
         /\ n > 0 => \A p \in Int : p > 0 => ContentOf(s, n - 1, p, FALSE)'
<1>1. PlacesInv /\ SourceInv /\ OnCpuInv
  BY DEF StoreInv
<1>2. /\ PlacesInv' /\ SourceInv'
      /\ \A b \in Blocks : b < n => Intact(<<s, b>>)'
      /\ \A b \in Kept(n) : <<s, b>> \in Resident'
      /\ \A b \in Spilled(n) : <<s, b>> \in OnHost'
      /\ \A k \in Key : k[1] # s \/ ~(k[2] < n) => Same(k)
  BY <1>1, EstablishStep
<1>3. \A k \in Held' : k \in Key /\ k[1] = s /\ k[2] \in Blocks /\ k[2] < n
  <2>1. \A k \in Key : Same(k) => k \notin Held'
    BY Zenon, <1>1, <1>2, HeldPlaces, HeldPlacesNext, SameCopies DEF Same
  <2>2. \A k \in Held' : k \in Key /\ k[2] \in Blocks
    BY DEF Held, Key
  <2> QED
    BY Zenon, <1>2, <2>1, <2>2
<1>4. \A b \in Blocks : <<s, b>> \in Held' => b < n
  BY <1>3
<1>5. \A b \in Blocks : ~(b < n) => Source(<<s, b>>)' = None
  BY Zenon, <1>2, <1>4, KeyType, HeldPlacesNext
<1>6. n \in Blocks => Source(<<s, n>>)' = None
  BY <1>5
<1>7. OnCpuInv'
  <2>1. OnHost = {} /\ onCpu = {}
    BY Zenon, <1>1, HeldPlaces DEF OnHost, OnCpuInv
  <2>2. onCpu' = Spilled(n)
    BY <2>1 DEF EstablishWorkingSet
  <2>3. ASSUME NEW k \in OnHost' PROVE k[2] \in Spilled(n)
    <3>1. k \in Held' /\ k \in Key
      BY Zenon, <1>2, HeldPlacesNext DEF OnHost
    <3>2. PICK b \in Blocks : k = <<s, b>> /\ b < n
      BY <1>3, <3>1 DEF Key
    <3>3. b \notin Kept(n)
      BY Zenon, <1>2, <3>2 DEF OnHost, Resident
    <3>4. Cap \in Int /\ b \in Int
      BY ArenaAssumption, FS_CardinalityType DEF Cap, Blocks
    <3> QED
      BY <3>2, <3>3, <3>4 DEF Kept, Spilled
  <2>4. ASSUME NEW b \in Spilled(n) PROVE b \in {k[2] : k \in OnHost'}
    <3>1. <<s, b>> \in OnHost' /\ <<s, b>>[2] = b
      BY Zenon, <1>2
    <3> QED
      BY <3>1
  <2> QED
    BY Zenon, <2>2, <2>3, <2>4 DEF OnCpuInv
<1>8. ContentOf(s, n, 0, TRUE)' /\ \A p : ContentOf(s, n, p, FALSE)'
  BY <1>2, <1>4, <1>6 DEF ContentOf
<1>9. ASSUME n > 0, NEW p \in Int, p > 0 PROVE ContentOf(s, n - 1, p, FALSE)'
  <2>1. \A b \in Blocks : b \in Int /\ (b < n - 1 => b < n) /\ (b < n => b < n - 1 \/ b = n - 1)
    BY SizeAssumption DEF Blocks
  <2>2. \A b \in Blocks : b < n - 1 => Intact(<<s, b>>)'
    BY <1>2, <2>1
  <2>3. \A b \in Blocks : <<s, b>> \in Held' => b < n - 1 \/ (b = n - 1 /\ p > 0)
    BY Zenon, <1>4, <1>9, <2>1
  <2>4. ASSUME n - 1 \in Blocks, Source(<<s, n - 1>>)' # None
        PROVE  WriteThrough /\ cpuKV'[Source(<<s, n - 1>>)'] = FullBlock(s, n - 1)
    <3>1. n - 1 < n /\ Intact(<<s, n - 1>>)' /\ <<s, n - 1>> \in Key
      BY <1>2, <2>4, KeyType
    <3>2. n - 1 \in Kept(n)
      BY <2>4, ArenaAssumption, TopKAssumption, SizeAssumption, FS_CardinalityType
         DEF Kept, ArenaFits, Cap
    <3>3. WriteThrough
      BY Zenon, <1>2, <2>4, <3>1, <3>2 DEF PlacesInv
    <3> QED
      BY Zenon, <2>4, <3>1, <3>3 DEF Intact, FullBlock
  <2> QED
    BY Zenon, <2>2, <2>3, <2>4 DEF ContentOf, FullBlock
<1>10. OwnedBy(s)'
  BY Zenon, <1>3 DEF OwnedBy
<1> QED
  BY Zenon, <1>2, <1>7, <1>8, <1>9, <1>10 DEF StoreInv

\* _gc_finished, when what is held belongs to one request: all of it is freed, or none.
LEMMA FreeContent ==
  ASSUME ArenaType, PoolType, StoreInv, NEW G \in SUBSET Seqs, FreeRequests(G),
         (\A k \in Held : k[1] \in G) \/ (\A k \in Held : k[1] \notin G)
  PROVE  /\ StoreInv'
         /\ \A k \in Held' : k \in Held /\ k[1] \notin G
         /\ \A k \in Key : k[1] \notin G => Same(k)
<1>1. PlacesInv /\ SourceInv /\ OnCpuInv
  BY Zenon DEF StoreInv
<1>2. /\ PlacesInv' /\ SourceInv'
      /\ \A k \in Key : k[1] \notin G => Same(k)
      /\ \A k \in Key : k[1] \in G => keyToSlot'[k] = None /\ Source(k)' = None
  BY <1>1, FreeStep
<1>3. \A k \in Held' : k \in Held /\ k[1] \notin G
  BY Zenon, FreeHeld
<1>4. OnHost' = {k \in OnHost : k[1] \notin G}
  BY <1>2 DEF OnHost, Same
<1>5. OnHost \subseteq Held
  BY Zenon, <1>1, HeldPlaces DEF OnHost
<1> DEFINE held == {k \in G \X Blocks : \/ keyToSlot[k] # None
                                        \/ cpuSlots[k] # None
                                        \/ hostSlots[k] # None}
<1>6. onCpu' = onCpu \ {k[2] : k \in held}
  BY Zenon DEF FreeRequests
<1>7. held = {k \in Held : k[1] \in G}
  BY DEF Held, Key
<1> HIDE DEF held
<1>8. OnCpuInv'
  <2>1. CASE \A k \in Held : k[1] \in G
    <3>1. held = Held /\ OnHost' = {}
      BY Zenon, <1>4, <1>5, <1>7, <2>1
    <3>2. onCpu \subseteq {k[2] : k \in Held}
      BY Zenon, <1>1, <1>5 DEF OnCpuInv
    <3> QED
      BY Zenon, <1>6, <3>1, <3>2 DEF OnCpuInv
  <2>2. CASE \A k \in Held : k[1] \notin G
    <3>1. held = {} /\ OnHost' = OnHost
      BY Zenon, <1>4, <1>5, <1>7, <2>2
    <3> QED
      BY Zenon, <1>1, <1>6, <3>1 DEF OnCpuInv
  <2> QED
    BY Zenon, <2>1, <2>2
<1> QED
  BY Zenon, <1>2, <1>3, <1>8 DEF StoreInv

-----------------------------------------------------------------------------

\* The configuration: one request at a time, prefilled in one pass, no prefetching, and
\* under kvshare prompts of one block at least.
Serial ==
    /\ MaxBatch = 1 /\ ~Chunked /\ Ordering = "lru"
    /\ KvShare => \A l \in Prompts : l[1] > 0

\* How far the manager has been handed the tokens of a request: all of them, but for the
\* newest one of a decode pass that has not reached on_block_filled, write_live_block or
\* append_decode_token_kvshare.
Pending == pc \in {"gcDecode", "notify", "fill"}
HandedFull(s) == IF Pending THEN TokenBlock(s) ELSE full[s]
HandedPart(s) == IF Pending THEN TokenRow(s) ELSE part[s]

\* The batch: one request at most runs, and all that is held belongs to one request.
BatchInv ==
    /\ \A s \in Seqs : status[s] # "prefill" /\ (status[s] = "new" => full[s] = 0)
    /\ \A s, t \in running : s = t
    /\ \A s, t \in activeSeqs : s = t
    /\ \A s \in activeSeqs : status[s] # "new"
    /\ trimmed \subseteq activeSeqs
    /\ \A k \in Held : k[1] \in trimmed
    /\ \A s \in trimmed \cap running : full[s] > 0
    /\ KvShare => \A s \in running :
            full[s] > 0 /\ (pc \notin {"gcIngest", "ingest"} => s \in trimmed)

PassInv ==
    /\ pc # "prefetch"
    /\ pc \in {"gcIngest", "ingest", "stage"} => KvShare /\ running = {cur} /\ todo = {cur}
    /\ pc \in {"gcIngest", "ingest"} => cur \notin trimmed
    /\ pc \in {"gcDecode", "notify", "fill", "select", "ensure"} => todo = running /\ running # {}
    /\ pc \in {"fill", "ensure"} => running = {cur}
    /\ pc = "fill" => ~KvShare
    /\ pc \in {"fill", "select", "ensure"} => running \subseteq trimmed
    /\ pc \in {"ingest", "stage", "notify", "fill", "select", "ensure"} => activeSeqs = running
    /\ pc = "ensure" => \A b \in sel : b < full[cur] /\ (b \in left \/ <<cur, b>> \in Resident)

\* The live block need not be in the arena while it is about to be copied as a whole.
LiveInArena == pc # "stage" /\ (KvShare \/ ~Pending)

ContentInv ==
    \A s \in trimmed \cap running : ContentOf(s, HandedFull(s), HandedPart(s), LiveInArena)

\* The digest of every full block that was handed over is the digest of that block.
SummaryInv ==
    pc \notin {"gcIngest", "ingest"} =>
        \A s \in running, b \in Blocks : b < HandedFull(s) => summary[b] = FullBlock(s, b)

-----------------------------------------------------------------------------
(***************************************************************************)
(* The steps.                                                              *)
(***************************************************************************)
Good == BatchInv /\ PassInv /\ ContentInv /\ SummaryInv /\ StoreInv

\* The steps that move no block.
LEMMA StoreFrame ==
  ASSUME StoreInv, UNCHANGED <<keyToSlot, gpuKV, pool, onCpu>>
  PROVE  /\ StoreInv' /\ Held' = Held /\ Resident' = Resident
         /\ \A s, f, p : \A live, l \in BOOLEAN :
               ContentOf(s, f, p, live) /\ (l => live) => ContentOf(s, f, p, l)'
<1>1. /\ \A k : Source(k)' = Source(k)
      /\ cpuKV' = cpuKV /\ Resident' = Resident /\ Held' = Held
  BY Zenon DEF pool, Source, Resident, Held
<1>2. PlacesInv' /\ SourceInv'
  BY <1>1 DEF StoreInv, PlacesInv, SourceInv, pool
<1>3. OnHost' = OnHost
  BY <1>1 DEF OnHost
<1>4. OnCpuInv'
  BY Zenon, <1>3 DEF StoreInv, OnCpuInv
<1>5. \A k : Intact(k)' <=> Intact(k)
  BY Zenon, <1>1 DEF Intact, FullBlock
<1>6. \A k, n : Holds(k, n)' <=> Holds(k, n)
  BY Zenon, <1>1 DEF Holds
<1>7. ASSUME NEW s, NEW f, NEW p, NEW live \in BOOLEAN, NEW l \in BOOLEAN,
             ContentOf(s, f, p, live), l => live
      PROVE  ContentOf(s, f, p, l)'
  BY Zenon, <1>1, <1>5, <1>6, <1>7 DEF ContentOf, FullBlock
<1> QED
  BY Zenon, <1>1, <1>2, <1>4, <1>7 DEF StoreInv

LEMMA EmptyBatch ==
  ASSUME Serial, BatchInv, Cardinality(running) < MaxBatch
  PROVE  running = {}
<1> SUFFICES ASSUME NEW s \in running PROVE FALSE
  OBVIOUS
<1>1. running = {s}
  BY DEF BatchInv
<1> QED
  BY <1>1, FS_Singleton DEF Serial

LEMMA PrefillGood ==
  ASSUME Serial, TypeOK, Good, NEW s \in Seqs, NEW l \in Prompts, Prefill(s, l[1], l[2], TRUE)
  PROVE  Good'
<1> DEFINE f == l[1]
           p == l[2]
<1>0. f \in Blocks /\ p \in Rows /\ EngineType /\ BookType
  BY SizeAssumption DEF TypeOK
<1>1. /\ pc = "idle" /\ status[s] = "new" /\ Cardinality(running) < MaxBatch
      /\ status' = [status EXCEPT ![s] = "decode"]
      /\ full' = [AdvanceFull(running) EXCEPT ![s] = f]
      /\ UNCHANGED <<arena, pool, onCpu, book>>
  BY Zenon DEF Prefill, Good, BatchInv
<1>2. running = {}
  BY Zenon, <1>1, EmptyBatch DEF Good
<1>3. running' = {s} /\ \A t \in Seqs : status'[t] = IF t = s THEN "decode" ELSE status[t]
  BY Zenon, <1>0, <1>1, <1>2 DEF running, EngineType
<1>4. \A t \in Seqs : full'[t] = IF t = s THEN f ELSE full[t]
  BY Zenon, <1>1, <1>2 DEF AdvanceFull
<1>5. s \notin activeSeqs /\ s \notin trimmed /\ full[s] = 0
  BY Zenon, <1>1 DEF Good, BatchInv
<1>6. UNCHANGED <<trimmed, activeSeqs, keyToSlot, gpuKV, pool, onCpu>>
  BY Zenon, <1>1 DEF book, arena
<1>7. StoreInv' /\ Held' = Held
  BY Zenon, <1>6, StoreFrame DEF Good
<1>8. KvShare => f > 0
  BY DEF Serial
<1>9. IF KvShare THEN pc' = "gcIngest" /\ cur' = s /\ todo' = {s}
                 ELSE pc' = "idle" /\ summary' = PrefillSummaries(s, 0, f)
  <2>1. f - 0 = f
    BY <1>0, SizeAssumption DEF Blocks
  <2>2. KvShare => <<f, p>> # <<0, 1>>
    BY <1>8
  <2> QED
    BY Zenon, <1>1, <1>2, <1>5, <2>1, <2>2 DEF Prefill
<1> HIDE DEF f, p
<1>10. BatchInv'
  <2>1. \A t \in Seqs : status'[t] # "prefill" /\ (status'[t] = "new" => full'[t] = 0)
    BY Zenon, <1>3, <1>4 DEF Good, BatchInv
  <2>2. \A t \in activeSeqs : status'[t] # "new"
    BY Zenon, <1>0, <1>3 DEF Good, BatchInv, BookType
  <2>3. KvShare => full'[s] > 0 /\ pc' = "gcIngest"
    BY Zenon, <1>4, <1>8, <1>9
  <2> QED
    BY Zenon, <1>3, <1>5, <1>6, <1>7, <2>1, <2>2, <2>3 DEF Good, BatchInv
<1>11. PassInv'
  BY Zenon, <1>3, <1>5, <1>6, <1>9 DEF PassInv
<1>12. ContentInv'
  BY <1>3, <1>5, <1>6 DEF ContentInv
<1>13. SummaryInv'
  <2>1. HandedFull(s)' = f
    BY <1>4, <1>9 DEF HandedFull, Pending
  <2>2. ASSUME ~KvShare, NEW b \in Blocks, b < f PROVE summary'[b] = FullBlock(s, b)
    <3>1. 0 + b = b
      BY SizeAssumption DEF Blocks
    <3> QED
      BY Zenon, <1>9, <2>2, <3>1 DEF PrefillSummaries
  <2> QED
    BY Zenon, <1>3, <1>9, <2>1, <2>2 DEF SummaryInv, FullBlock
<1> QED
  BY Zenon, <1>7, <1>10, <1>11, <1>12, <1>13 DEF Good

LEMMA FinishGood ==
  ASSUME TypeOK, Good, NEW s \in Seqs, Finish(s)
  PROVE  Good'
<1>1. /\ pc = "idle" /\ pc' = "idle" /\ s \in running
      /\ status' = [status EXCEPT ![s] = "done"]
      /\ UNCHANGED <<full, part, loop, arena, pool, onCpu, summary, book>>
  BY Zenon DEF Finish
<1>2. running' = {} /\ \A t \in Seqs : status'[t] = IF t = s THEN "done" ELSE status[t]
  BY <1>1 DEF TypeOK, EngineType, running, Good, BatchInv
<1>3. UNCHANGED <<trimmed, activeSeqs, keyToSlot, gpuKV, pool, onCpu>>
  BY <1>1 DEF book, arena
<1>4. StoreInv' /\ Held' = Held
  BY Zenon, <1>3, StoreFrame DEF Good
<1>5. BatchInv'
  BY <1>1, <1>2, <1>3, <1>4 DEF Good, BatchInv, running
<1>6. PassInv' /\ ContentInv' /\ SummaryInv'
  BY Zenon, <1>1, <1>2 DEF PassInv, ContentInv, SummaryInv
<1> QED
  BY Zenon, <1>4, <1>5, <1>6 DEF Good

LEMMA DecodeGood ==
  ASSUME Serial, TypeOK, Good, Decode
  PROVE  Good'
<1>1. /\ pc = "idle" /\ running # {} /\ running' = running
      /\ full' = AdvanceFull(running) /\ part' = AdvancePart(running)
      /\ UNCHANGED <<status, cur, sel, left, arena, pool, onCpu, summary, book>>
  BY Zenon DEF Decode, running
<1>2. PICK s \in Seqs : running = {s}
  <2>1. \A x, y \in running : x = y
    BY Zenon DEF Good, BatchInv
  <2>2. running \subseteq Seqs
    BY Zenon DEF running
  <2> QED
    BY Zenon, <1>1, <2>1, <2>2
<1>3. UNCHANGED <<trimmed, activeSeqs, keyToSlot, gpuKV, pool, onCpu>>
  BY <1>1 DEF book, arena
<1>4. StoreInv' /\ Held' = Held
  BY Zenon, <1>3, StoreFrame DEF Good
<1>5. PICK f \in Int, p \in Int : f = full[s] /\ p = part[s] /\ p \in Rows
  BY SizeAssumption DEF TypeOK, EngineType, Rows
<1>6. /\ \A t \in Seqs : t # s => full'[t] = full[t]
      /\ full'[s] = IF p + 1 = BlockSize THEN f + 1 ELSE f
      /\ part'[s] = IF p + 1 = BlockSize THEN 0 ELSE p + 1
  BY Zenon, <1>1, <1>2, <1>5 DEF AdvanceFull, AdvancePart
<1>7. p + 1 # 0 /\ p + 1 > 0 /\ f + 1 - 1 = f /\ p + 1 - 1 = p /\ (p + 1 = BlockSize => p = BlockSize - 1)
      /\ f >= 0 /\ (f > 0 => f + 1 > 0)
  BY <1>5, SizeAssumption DEF Rows, TypeOK, EngineType
<1>8. TokenBlock(s)' = f /\ TokenRow(s)' = p
  BY <1>6, <1>7 DEF TokenBlock, TokenRow
<1>9. f > 0 => full'[s] > 0
  BY <1>6, <1>7
<1>10. CASE full'[s] = 0
  <2>1. pc' = "idle" /\ todo' = todo
    BY Zenon, <1>1, <1>2, <1>10 DEF Decode
  <2>2. ~(f > 0)
    BY <1>9, <1>10
  <2>3. s \notin trimmed /\ ~KvShare
    BY <1>2, <1>5, <2>2 DEF Good, BatchInv
  <2>4. BatchInv'
    <3>1. \A t \in Seqs : status[t] = "new" => t # s
      BY <1>2 DEF running
    <3> QED
      BY Zenon, <1>1, <1>2, <1>3, <1>4, <1>6, <2>3, <3>1 DEF Good, BatchInv
  <2>5. PassInv'
    BY <2>1 DEF PassInv
  <2>6. ContentInv'
    BY Zenon, <1>1, <1>2, <1>3, <2>3 DEF ContentInv
  <2>7. SummaryInv'
    <3>1. \A b \in Blocks : ~(b < 0)
      BY SizeAssumption DEF Blocks
    <3> QED
      BY Zenon, <1>1, <1>2, <1>10, <2>1, <3>1 DEF SummaryInv, HandedFull, Pending
  <2> QED
    BY Zenon, <1>4, <2>4, <2>5, <2>6, <2>7 DEF Good
<1>11. CASE full'[s] # 0
  <2>1. pc' = "gcDecode" /\ todo' = running
    BY <1>1, <1>2, <1>11 DEF Decode, Serial
  <2>2. HandedFull(s) = f /\ HandedPart(s) = p /\ HandedFull(s)' = f /\ HandedPart(s)' = p
    BY Zenon, <1>1, <1>5, <1>8, <2>1 DEF HandedFull, HandedPart, Pending
  <2>3. LiveInArena = TRUE /\ LiveInArena' \in BOOLEAN
    BY <1>1 DEF LiveInArena, Pending
  <2>4. BatchInv'
    <3>1. \A t \in Seqs : status[t] = "new" => t # s
      BY Zenon, <1>2 DEF running
    <3>2. s \in trimmed \/ KvShare => full'[s] > 0
      BY Zenon, <1>2, <1>5, <1>9 DEF Good, BatchInv
    <3>3. KvShare => s \in trimmed
      BY Zenon, <1>1, <1>2 DEF Good, BatchInv
    <3> QED
      BY Zenon, <1>1, <1>2, <1>3, <1>4, <1>6, <3>1, <3>2, <3>3 DEF Good, BatchInv
  <2>5. PassInv'
    BY Zenon, <1>1, <2>1 DEF PassInv
  <2>6. ContentInv'
    <3>1. s \in trimmed => ContentOf(s, f, p, TRUE)
      BY Zenon, <1>2, <2>2, <2>3 DEF Good, ContentInv
    <3>2. PICK l \in BOOLEAN : l = LiveInArena'
      BY <2>3
    <3>3. s \in trimmed => ContentOf(s, f, p, l)'
      BY Zenon, <1>3, <3>1, StoreFrame DEF Good
    <3> QED
      BY Zenon, <1>1, <1>2, <1>3, <2>2, <3>2, <3>3 DEF ContentInv
  <2>7. SummaryInv'
    <3>1. \A b \in Blocks : b < f => summary[b] = FullBlock(s, b)
      BY Zenon, <1>1, <1>2, <2>2 DEF Good, SummaryInv
    <3>2. summary' = summary
      BY Zenon, <1>1
    <3> QED
      BY Zenon, <1>1, <1>2, <2>2, <3>1, <3>2 DEF SummaryInv, FullBlock
  <2> QED
    BY Zenon, <1>4, <2>4, <2>5, <2>6, <2>7 DEF Good
<1> QED
  BY <1>10, <1>11

LEMMA HandedType ==
  ASSUME TypeOK, NEW s \in running
  PROVE  /\ HandedFull(s) \in Int /\ HandedPart(s) \in Int
         /\ HandedPart(s) > 0 => HandedFull(s) \in Blocks
         /\ Pending => HandedFull(s) \in Blocks
<1>1. s \in Seqs /\ full[s] \in 0 .. MaxBlocks /\ part[s] \in Rows
      /\ (part[s] > 0 => full[s] < MaxBlocks) /\ (Pending => full[s] > 0)
  BY DEF TypeOK, EngineType, PassWellFormed, Pending, running
<1>2. Pending => TokenBlock(s) \in Blocks /\ TokenRow(s) \in Int
  BY <1>1, SizeAssumption DEF TokenBlock, TokenRow, Blocks, Rows
<1> QED
  BY <1>1, <1>2, SizeAssumption DEF HandedFull, HandedPart, Blocks, Rows

LEMMA GcGood ==
  ASSUME TypeOK, Good, Gc
  PROVE  Good'
<1> DEFINE G == activeSeqs \ todo
<1>1. /\ pc \in {"gcIngest", "gcDecode"} /\ FreeRequests(G) /\ activeSeqs' = todo
      /\ pc' = IF pc = "gcIngest" THEN "ingest" ELSE "notify"
      /\ UNCHANGED <<engine, loop, summary>>
  BY Zenon DEF Gc
<1>2. todo = running /\ running' = running /\ G \in SUBSET Seqs
  BY Zenon, <1>1 DEF Good, PassInv, running, engine, TypeOK, BookType
<1>3. \A k \in Held : k[1] \in trimmed /\ k[1] \in activeSeqs
  BY DEF Good, BatchInv
<1>4. (\A k \in Held : k[1] \in G) \/ (\A k \in Held : k[1] \notin G)
  BY Zenon, <1>3 DEF Good, BatchInv
<1> HIDE DEF G
<1>5. /\ StoreInv'
      /\ \A k \in Held' : k \in Held /\ k[1] \notin G
      /\ \A k \in Key : k[1] \notin G => Same(k)
  BY Zenon, <1>1, <1>2, <1>4, FreeContent DEF Good, TypeOK
<1>6. trimmed' = trimmed \ G /\ trimmed' \subseteq running
  BY <1>1, <1>2, FreeHeld DEF G, Good, BatchInv
<1>7. BatchInv'
  <2>1. \A t \in running : status[t] # "new"
    BY DEF running
  <2>2. \A k \in Held' : k[1] \in trimmed'
    BY Zenon, <1>3, <1>5, <1>6
  <2>3. KvShare /\ pc = "gcDecode" => \A t \in running : t \in trimmed'
    BY Zenon, <1>2, <1>6 DEF Good, BatchInv, G
  <2> QED
    BY Zenon, <1>1, <1>2, <1>6, <2>1, <2>2, <2>3 DEF Good, BatchInv, engine
<1>8. PassInv'
  BY Zenon, <1>1, <1>2, <1>6 DEF Good, PassInv, loop
<1>9. /\ \A t : HandedFull(t)' = HandedFull(t) /\ HandedPart(t)' = HandedPart(t)
      /\ LiveInArena' = LiveInArena
  BY <1>1 DEF HandedFull, HandedPart, LiveInArena, Pending, TokenBlock, TokenRow, engine
<1>10. ContentInv'
  <2> SUFFICES ASSUME NEW s \in trimmed' \cap running'
               PROVE  ContentOf(s, HandedFull(s), HandedPart(s), LiveInArena)'
    BY DEF ContentInv
  <2>1. s \in Seqs /\ s \in trimmed \cap running /\ s \notin G
    BY <1>2, <1>6 DEF running
  <2>2. PICK f \in Int, p \in Int, l \in BOOLEAN :
            f = HandedFull(s) /\ p = HandedPart(s) /\ l = LiveInArena
    BY Zenon, <2>1, HandedType DEF LiveInArena
  <2>3. ContentOf(s, f, p, l) /\ (p > 0 => f \in Blocks)
    BY Zenon, <2>1, <2>2, HandedType DEF Good, ContentInv
  <2>4. ContentOf(s, f, p, l)'
    BY Zenon, <1>5, <2>1, <2>3, ContentSame DEF Good, StoreInv
  <2> QED
    BY Zenon, <1>9, <2>2, <2>4
<1>11. SummaryInv'
  BY Zenon, <1>1, <1>2, <1>9 DEF Good, SummaryInv, FullBlock
<1> QED
  BY Zenon, <1>5, <1>7, <1>8, <1>10, <1>11 DEF Good

LEMMA IngestGood ==
  ASSUME ArenaInv, Good, IngestPrompt
  PROVE  Good'
<1> TypeOK /\ EngineType /\ ArenaType /\ PoolType /\ ArenaAccounting
  BY Zenon DEF ArenaInv, TypeOK
<1>1. /\ pc = "ingest" /\ cur \in todo \ trimmed /\ EstablishWorkingSet(cur, full[cur])
      /\ summary' = PrefillSummaries(cur, 0, full[cur])
      /\ IF part[cur] = 0 THEN EndIngest(cur)
         ELSE /\ pc' = "stage"
              /\ UNCHANGED <<engine, loop, activeSeqs, prevSelected, read, err>>
  BY DEF IngestPrompt
<1>2. /\ KvShare /\ running = {cur} /\ todo = {cur} /\ activeSeqs = {cur} /\ cur \in Seqs
      /\ trimmed = {} /\ Held = {} /\ full[cur] > 0
  BY Zenon, <1>1 DEF Good, PassInv, BatchInv, running
<1>3. PICK s \in Seqs, n \in Nat, p \in Rows : s = cur /\ n = full[cur] /\ p = part[cur]
  BY <1>2, SizeAssumption DEF EngineType
<1>4. /\ StoreInv' /\ OwnedBy(s)' /\ ContentOf(s, n, 0, TRUE)' /\ ContentOf(s, n, p, FALSE)'
  BY Zenon, <1>1, <1>2, <1>3, EstablishContent DEF Good
<1>5. trimmed' = {s}
  BY Zenon, <1>1, <1>2, <1>3, EstablishHeld
<1>6. /\ UNCHANGED <<status, full, part, activeSeqs>>
      /\ IF p = 0 THEN pc' = "idle" ELSE pc' = "stage" /\ todo' = {s} /\ cur' = s
  BY Zenon, <1>1, <1>2, <1>3 DEF EndIngest, engine, loop
<1>7. running' = {s}
  BY Zenon, <1>2, <1>3, <1>6 DEF running
<1>8. BatchInv'
  BY Zenon, <1>2, <1>3, <1>4, <1>5, <1>6, <1>7 DEF Good, BatchInv, OwnedBy
<1>9. PassInv'
  BY Zenon, <1>2, <1>3, <1>5, <1>6, <1>7 DEF PassInv
<1>10. HandedFull(s)' = n /\ HandedPart(s)' = p /\ LiveInArena' = (p = 0)
  BY <1>3, <1>6 DEF HandedFull, HandedPart, LiveInArena, Pending
<1>11. ContentInv'
  BY Zenon, <1>4, <1>5, <1>7, <1>10 DEF ContentInv
<1>12. SummaryInv'
  <2>1. ASSUME NEW b \in Blocks, b < n PROVE summary'[b] = FullBlock(s, b)
    <3>1. 0 + b = b
      BY SizeAssumption DEF Blocks
    <3> QED
      BY Zenon, <1>1, <1>3, <2>1, <3>1 DEF PrefillSummaries
  <2> QED
    BY Zenon, <1>7, <1>10, <2>1 DEF SummaryInv, FullBlock
<1> QED
  BY Zenon, <1>4, <1>8, <1>9, <1>11, <1>12 DEF Good

\* The end of a decode pass' hand-over, and of an ingest: the one request has been handed
\* over as a whole.
LEMMA HandedOver ==
  ASSUME Good, NEW s \in Seqs, running = {s}, s \in trimmed, activeSeqs = running,
         pc' \in {"idle", "select"}, pc' = "select" => todo' = running,
         UNCHANGED <<status, full, part, trimmed, activeSeqs>>,
         full[s] > 0, StoreInv', \A k \in Held' : k \in Held \/ k[1] = s,
         ContentOf(s, full[s], part[s], TRUE)', 
         \A b \in Blocks : b < full[s] => summary'[b] = FullBlock(s, b)
  PROVE  Good'
<1>1. running' = {s} /\ HandedFull(s)' = full[s] /\ HandedPart(s)' = part[s] /\ LiveInArena'
  BY Zenon DEF running, HandedFull, HandedPart, LiveInArena, Pending
<1>2. BatchInv'
  BY Zenon, <1>1 DEF Good, BatchInv
<1>3. PassInv'
  BY Zenon, <1>1 DEF PassInv
<1>4. ContentInv'
  BY Zenon, <1>1 DEF ContentInv
<1>5. SummaryInv'
  BY Zenon, <1>1 DEF SummaryInv, FullBlock
<1> QED
  BY Zenon, <1>2, <1>3, <1>4, <1>5 DEF Good

LEMMA StagePartialGood ==
  ASSUME ArenaInv, Good, StagePartial
  PROVE  Good'
<1> TypeOK /\ EngineType /\ PassWellFormed /\ ArenaType /\ PoolType /\ ArenaAccounting
  BY DEF ArenaInv, TypeOK
<1>1. /\ pc = "stage" /\ EndIngest(cur) /\ UNCHANGED <<summary, trimmed>>
      /\ Stage(<<cur, full[cur]>>, FirstRows(part[cur]), FirstRows(part[cur]), FALSE)
  BY Zenon DEF StagePartial
<1>2. /\ KvShare /\ running = {cur} /\ todo = {cur} /\ activeSeqs = running
      /\ cur \in Seqs /\ cur \in trimmed /\ full[cur] > 0
  BY Zenon, <1>1 DEF Good, PassInv, BatchInv, running
<1>3. PICK s \in Seqs, f \in Blocks, p \in Rows : s = cur /\ f = full[cur] /\ p = part[cur] /\ p > 0
  BY <1>1, <1>2, SizeAssumption DEF EngineType, PassWellFormed, Blocks
<1>4. ContentOf(s, f, p, FALSE) /\ OwnedBy(s)
  BY Zenon, <1>1, <1>2, <1>3 DEF Good, ContentInv, BatchInv, OwnedBy, HandedFull, HandedPart, LiveInArena, Pending
<1>5. StoreInv' /\ Held' \subseteq Held \cup {<<s, f>>} /\ ContentOf(s, f, p, TRUE)'
  <2>1. Covers(FirstRows(p), FirstRows(p), p, p, FALSE)
    <3>1. \A r \in Rows : r < p => r \in FirstRows(p)
      BY DEF FirstRows
    <3> QED
      BY <3>1, Zenon DEF Covers
  <2>2. Stage(<<s, f>>, FirstRows(p), FirstRows(p), FALSE)
    BY Zenon, <1>1, <1>3
  <2>3. p \in Int
    BY SizeAssumption DEF Rows
  <2> QED
    BY Zenon, <1>3, <1>4, <2>1, <2>2, <2>3, StageLive DEF Good
<1>6. pc' = "idle" /\ UNCHANGED <<status, full, part, trimmed, activeSeqs>>
  BY Zenon, <1>1, <1>2 DEF EndIngest, engine
<1>7. \A k \in Held' : k \in Held \/ k[1] = s
  BY <1>5
<1>8. \A b \in Blocks : b < full[s] => summary'[b] = FullBlock(s, b)
  BY Zenon, <1>1, <1>2, <1>3 DEF Good, SummaryInv, HandedFull, Pending
<1>9. ContentOf(s, full[s], part[s], TRUE)'
  BY Zenon, <1>3, <1>5, <1>6
<1> QED
  BY Zenon, <1>2, <1>3, <1>5, <1>6, <1>7, <1>8, <1>9, HandedOver

LEMMA BeginNotifyGood ==
  ASSUME ArenaInv, Good, NEW s \in Seqs, BeginNotify(s)
  PROVE  Good'
<1> TypeOK /\ EngineType /\ PassWellFormed /\ ArenaType /\ PoolType /\ ArenaAccounting
  BY Zenon DEF ArenaInv, TypeOK
<1>1. /\ ~KvShare /\ pc = "notify" /\ s \in todo /\ pc' = "fill" /\ cur' = s
      /\ UNCHANGED <<status, full, part, todo, summary, activeSeqs>>
  BY DEF BeginNotify, engine
<1>2. running = {s} /\ todo = {s} /\ activeSeqs = {s} /\ running' = {s} /\ full[s] > 0
  <2>1. running' = running
    BY Zenon, <1>1 DEF running
  <2>2. todo = running /\ activeSeqs = running
    BY Zenon, <1>1 DEF Good, PassInv
  <2>3. \A x, y \in running : x = y
    BY Zenon DEF Good, BatchInv
  <2>4. s \in running /\ full[s] > 0
    BY Zenon, <1>1, <2>2 DEF PassWellFormed
  <2>5. running = {s}
    BY Zenon, <2>3, <2>4
  <2> QED
    BY Zenon, <2>1, <2>2, <2>4, <2>5
<1>3. /\ \A t : HandedFull(t)' = HandedFull(t) /\ HandedPart(t)' = HandedPart(t)
      /\ LiveInArena = FALSE /\ LiveInArena' = FALSE
  BY Zenon, <1>1 DEF HandedFull, HandedPart, LiveInArena, Pending, TokenBlock, TokenRow
<1>4. PICK f \in Int, p \in Int : f = HandedFull(s) /\ p = HandedPart(s)
  BY <1>2, HandedType
<1>5. trimmed' = {s} /\ StoreInv' /\ OwnedBy(s)' /\ ContentOf(s, f, p, FALSE)'
  <2>1. CASE s \in trimmed /\ UNCHANGED <<arena, pool, onCpu, trimmed>>
    <3>1. UNCHANGED <<keyToSlot, gpuKV, pool, onCpu>>
      BY <2>1 DEF arena
    <3>2. ContentOf(s, f, p, FALSE) /\ trimmed = {s}
      BY Zenon, <1>2, <1>3, <1>4, <2>1 DEF Good, ContentInv, BatchInv
    <3>3. StoreInv' /\ Held' = Held /\ ContentOf(s, f, p, FALSE)'
      BY Zenon, <3>1, <3>2, StoreFrame DEF Good
    <3> QED
      BY Zenon, <2>1, <3>2, <3>3 DEF OwnedBy, Good, BatchInv
  <2>2. CASE s \notin trimmed /\ EstablishWorkingSet(s, full[s])
    <3>1. trimmed = {} /\ Held = {}
      BY Zenon, <1>2, <2>2 DEF Good, BatchInv
    <3>2. trimmed' = {s}
      BY Zenon, <2>2, <3>1, EstablishHeld
    <3>3. PICK n \in Nat : n = full[s] /\ n > 0
      BY <1>2, SizeAssumption DEF EngineType
    <3>4. /\ StoreInv' /\ OwnedBy(s)' /\ ContentOf(s, n, p, FALSE)'
          /\ p > 0 => ContentOf(s, n - 1, p, FALSE)'
      BY Zenon, <2>2, <3>1, <3>3, EstablishContent DEF Good
    <3>5. f = n \/ (f = n - 1 /\ p > 0)
      BY <1>1, <1>4, <3>3, SizeAssumption DEF HandedFull, HandedPart, TokenBlock, TokenRow, Pending
    <3> QED
      BY Zenon, <3>2, <3>4, <3>5
  <2> QED
    BY Zenon, <2>1, <2>2 DEF BeginNotify
<1>6. BatchInv'
  BY Zenon, <1>1, <1>2, <1>5 DEF Good, BatchInv, OwnedBy
<1>7. PassInv'
  BY Zenon, <1>1, <1>2, <1>5 DEF PassInv
<1>8. ContentInv'
  BY Zenon, <1>2, <1>3, <1>4, <1>5 DEF ContentInv
<1>9. SummaryInv'
  BY Zenon, <1>1, <1>2, <1>3 DEF Good, SummaryInv, FullBlock
<1> QED
  BY Zenon, <1>5, <1>6, <1>7, <1>8, <1>9 DEF Good
=============================================================================
