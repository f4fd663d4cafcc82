------------------------- MODULE QuestSerialProofs -------------------------
(***************************************************************************)
(* What the tier manager promises when the engine serves one request at a  *)
(* time (max_num_seqs = 1), with block_ordering "lru", for every size of   *)
(* the arena, of the pool, of the blocks and of the prompts, under both    *)
(* footprints and both eviction modes: the remaining steps that keep Good, *)
(* and the theorems.                                                       *)
(***************************************************************************)
EXTENDS QuestContentProofs

-----------------------------------------------------------------------------
\* What OnBlockFilled, WriteLiveBlock and AppendToken find.
LEMMA BeforeFill ==
  ASSUME TypeOK, Good, NEW s \in running, pc \in {"notify", "fill"},
         pc = "fill" \/ KvShare
  PROVE  /\ running = {s} /\ todo = {s} /\ activeSeqs = running /\ s \in trimmed /\ s \in Seqs
         /\ full[s] > 0 /\ full[s] \in Nat /\ part[s] \in Rows /\ OwnedBy(s)
         /\ TokenBlock(s) \in Blocks /\ TokenRow(s) \in Int
         /\ ContentOf(s, TokenBlock(s), TokenRow(s), KvShare)
         /\ \A b \in Blocks : b < TokenBlock(s) => summary[b] = FullBlock(s, b)
<1>1. /\ running = {s} /\ todo = {s} /\ activeSeqs = running /\ s \in trimmed /\ s \in Seqs
      /\ OwnedBy(s)
  BY DEF Good, PassInv, BatchInv, running, OwnedBy
<1>2. full[s] > 0 /\ full[s] \in Nat /\ part[s] \in Rows
  BY <1>1, SizeAssumption DEF TypeOK, EngineType, PassWellFormed
<1>3. HandedFull(s) = TokenBlock(s) /\ HandedPart(s) = TokenRow(s) /\ LiveInArena = KvShare
  BY FlagAssumption DEF HandedFull, HandedPart, LiveInArena, Pending
<1>4. TokenBlock(s) \in Blocks /\ TokenRow(s) \in Int
  BY <1>3, HandedType DEF Pending
<1>5. ContentOf(s, TokenBlock(s), TokenRow(s), KvShare)
  BY <1>1, <1>3 DEF Good, ContentInv
<1>6. \A b \in Blocks : b < TokenBlock(s) => summary[b] = FullBlock(s, b)
  BY <1>3 DEF Good, SummaryInv
<1> QED
  BY Zenon, <1>1, <1>2, <1>4, <1>5, <1>6

\* on_block_filled, or the last row of a block: the request has one more full block.
LEMMA BlockFilledGood ==
  ASSUME ArenaInv, Good, NEW s \in running, pc \in {"notify", "fill"}, pc = "fill" \/ KvShare,
         part[s] = 0, EndTurn(s), NEW C, NEW W, NEW isFull \in BOOLEAN, isFull,
         Stage(<<s, TokenBlock(s)>>, C, W, isFull),
         gpuKV'[keyToSlot'[<<s, TokenBlock(s)>>]] = FullBlock(s, TokenBlock(s)),
         summary' = [summary EXCEPT ![TokenBlock(s)] = FullBlock(s, TokenBlock(s))]
  PROVE  Good'
<1> TypeOK /\ EngineType /\ BookType /\ ArenaType /\ PoolType /\ ArenaAccounting
  BY DEF ArenaInv, TypeOK
<1>1. /\ running = {s} /\ todo = {s} /\ activeSeqs = running /\ s \in trimmed /\ s \in Seqs
      /\ full[s] > 0 /\ full[s] \in Nat /\ OwnedBy(s)
  BY BeforeFill
<1>2. PICK f \in Blocks, p \in Int, live \in BOOLEAN :
         f = TokenBlock(s) /\ p = TokenRow(s) /\ live = KvShare
  BY Zenon, BeforeFill, FlagAssumption
<1>3. /\ ContentOf(s, f, p, live)
      /\ \A b \in Blocks : b < f => summary[b] = FullBlock(s, b)
  BY Zenon, <1>2, BeforeFill
<1>4. f + 1 = full[s]
  BY <1>1, <1>2 DEF TokenBlock
<1>5. StoreInv' /\ Held' \subseteq Held \cup {<<s, f>>} /\ ContentOf(s, f + 1, 0, TRUE)'
  BY Zenon, <1>1, <1>2, <1>3, StageFull DEF Good
<1>6. /\ pc' = "select" /\ todo' = running
      /\ UNCHANGED <<status, full, part, trimmed, activeSeqs>>
  BY <1>1 DEF EndTurn, engine, book
<1>7. \A k \in Held' : k \in Held \/ k[1] = s
  BY <1>5
<1>8. \A b \in Blocks : b < full[s] => summary'[b] = FullBlock(s, b)
  <2>1. \A b \in Blocks : b < f + 1 => b < f \/ b = f
    BY SizeAssumption DEF Blocks
  <2> QED
    BY Zenon, <1>2, <1>3, <1>4, <2>1 DEF BookType
<1>9. ContentOf(s, full[s], part[s], TRUE)'
  BY Zenon, <1>4, <1>5, <1>6
<1> QED
  BY Zenon, <1>1, <1>5, <1>6, <1>7, <1>8, <1>9, HandedOver

\* write_live_block, or another row of a block: the live block has its rows.
LEMMA LiveWrittenGood ==
  ASSUME ArenaInv, Good, NEW s \in running, pc \in {"notify", "fill"}, pc = "fill" \/ KvShare,
         part[s] > 0, EndTurn(s), NEW C, NEW W, NEW isFull \in BOOLEAN, ~isFull,
         Stage(<<s, TokenBlock(s)>>, C, W, isFull), summary' = summary,
         Covers(C, W, part[s], TokenRow(s), KvShare)
  PROVE  Good'
<1> TypeOK /\ EngineType /\ BookType /\ ArenaType /\ PoolType /\ ArenaAccounting
  BY DEF ArenaInv, TypeOK
<1>1. /\ running = {s} /\ todo = {s} /\ activeSeqs = running /\ s \in trimmed /\ s \in Seqs
      /\ full[s] > 0 /\ full[s] \in Nat /\ part[s] \in Rows /\ OwnedBy(s)
  BY BeforeFill
<1>2. PICK f \in Blocks, p \in Int, live \in BOOLEAN :
         f = TokenBlock(s) /\ p = TokenRow(s) /\ live = KvShare
  BY Zenon, BeforeFill, FlagAssumption
<1>3. /\ ContentOf(s, f, p, live)
      /\ \A b \in Blocks : b < f => summary[b] = FullBlock(s, b)
  BY Zenon, <1>2, BeforeFill
<1>4. f = full[s]
  BY <1>2 DEF TokenBlock
<1>5. PICK q \in Int : q = part[s] /\ q > 0
  BY <1>1, SizeAssumption DEF Rows
<1>6. StoreInv' /\ Held' \subseteq Held \cup {<<s, f>>} /\ ContentOf(s, f, q, TRUE)'
  <2>1. Covers(C, W, q, p, live)
    BY <1>2, <1>5
  <2>2. Stage(<<s, f>>, C, W, isFull)
    BY <1>2
  <2>3. /\ ArenaType /\ PoolType /\ ArenaAccounting /\ StoreInv /\ s \in Seqs /\ OwnedBy(s)
        /\ ~isFull /\ isFull \in BOOLEAN
    BY <1>1 DEF Good
  <2> QED
    BY Zenon, <1>3, <1>5, <2>1, <2>2, <2>3, StageLive
<1>7. /\ pc' = "select" /\ todo' = running
      /\ UNCHANGED <<status, full, part, trimmed, activeSeqs>>
  BY <1>1 DEF EndTurn, engine, book
<1>8. \A k \in Held' : k \in Held \/ k[1] = s
  BY <1>6
<1>9. \A b \in Blocks : b < full[s] => summary'[b] = FullBlock(s, b)
  BY Zenon, <1>3, <1>4
<1>10. ContentOf(s, full[s], part[s], TRUE)'
  BY Zenon, <1>4, <1>5, <1>6, <1>7
<1> QED
  BY Zenon, <1>1, <1>6, <1>7, <1>8, <1>9, <1>10, HandedOver

LEMMA OnBlockFilledGood ==
  ASSUME ArenaInv, Good, OnBlockFilled
  PROVE  Good'
<1> TypeOK /\ ArenaType /\ PoolType /\ ArenaAccounting
  BY DEF ArenaInv, TypeOK
<1>1. /\ pc = "fill" /\ part[cur] = 0 /\ EndTurn(cur)
      /\ Stage(<<cur, full[cur] - 1>>, Rows, Rows, TRUE)
      /\ summary' = [summary EXCEPT ![full[cur] - 1] = FullBlock(cur, full[cur] - 1)]
  BY Zenon DEF OnBlockFilled
<1>2. cur \in running /\ full[cur] - 1 = TokenBlock(cur)
  BY Zenon, <1>1 DEF Good, PassInv, TokenBlock
<1>3. PICK s \in Seqs, f \in Blocks, p \in Int, live \in BOOLEAN :
         /\ s = cur /\ f = TokenBlock(cur) /\ p = TokenRow(cur) /\ live = KvShare
         /\ OwnedBy(s) /\ ContentOf(s, f, p, live)
  BY Zenon, <1>1, <1>2, BeforeFill, FlagAssumption
<1>4. PICK isFull \in BOOLEAN : isFull
  BY Zenon
<1>5. Stage(<<s, f>>, Rows, Rows, isFull)
  BY Zenon, <1>1, <1>2, <1>3, <1>4
<1>6. \E old \in Content : gpuKV'[keyToSlot'[<<s, f>>]] = CopyRows(old, <<s, f>>, Rows, Rows)
  <2>1. StoreInv
    BY DEF Good
  <2>2. OwnedBy(s) /\ ContentOf(s, f, p, live)
    BY Zenon, <1>3
  <2>3. Staged(s, f, Rows, Rows)
    BY Zenon, <1>5, <2>1, <2>2, StageWrites
  <2> QED
    BY Zenon, <2>3 DEF Staged
<1>7. gpuKV'[keyToSlot'[<<s, f>>]] = FullBlock(s, f)
  BY <1>6 DEF CopyRows, FullBlock
<1> QED
  BY Zenon, <1>1, <1>2, <1>3, <1>4, <1>5, <1>7, BlockFilledGood

LEMMA WriteLiveBlockGood ==
  ASSUME ArenaInv, Good, WriteLiveBlock
  PROVE  Good'
<1> TypeOK
  BY DEF ArenaInv
<1>1. /\ pc = "fill" /\ part[cur] > 0 /\ EndTurn(cur) /\ summary' = summary
      /\ Stage(<<cur, full[cur]>>, Rows, FirstRows(part[cur]), FALSE)
  BY Zenon DEF WriteLiveBlock
<1>2. cur \in running
  BY <1>1 DEF Good, PassInv
<1>3. part[cur] \in Rows /\ full[cur] = TokenBlock(cur)
  BY <1>1, <1>2, BeforeFill, SizeAssumption DEF TokenBlock, Rows
<1>4. PICK isFull \in BOOLEAN : ~isFull
  BY Zenon
<1>5. Stage(<<cur, TokenBlock(cur)>>, Rows, FirstRows(part[cur]), isFull)
  BY Zenon, <1>1, <1>3, <1>4
<1>6. Covers(Rows, FirstRows(part[cur]), part[cur], TokenRow(cur), KvShare)
  <2>1. \A r \in Rows : r < part[cur] => r \in FirstRows(part[cur])
    BY DEF FirstRows
  <2> QED
    BY <2>1, Zenon DEF Covers
<1> QED
  BY Zenon, <1>1, <1>2, <1>4, <1>5, <1>6, LiveWrittenGood

LEMMA AppendTokenGood ==
  ASSUME ArenaInv, Good, NEW s \in Seqs, AppendToken(s)
  PROVE  Good'
<1> TypeOK /\ ArenaType /\ PoolType /\ ArenaAccounting
  BY DEF ArenaInv, TypeOK
<1> DEFINE k == <<s, TokenBlock(s)>>
<1>1. /\ KvShare /\ pc = "notify" /\ s \in todo /\ EndTurn(s)
      /\ Stage(k, {TokenRow(s)}, {TokenRow(s)}, part[s] = 0)
      /\ summary' = IF part[s] = 0
                    THEN [summary EXCEPT ![k[2]] = gpuKV'[keyToSlot'[k]]] ELSE summary
  BY DEF AppendToken
<1>2. s \in running
  BY <1>1 DEF Good, PassInv
<1>3. PICK f \in Blocks, p \in Int, live \in BOOLEAN :
         /\ f = TokenBlock(s) /\ p = TokenRow(s) /\ live = KvShare
         /\ OwnedBy(s) /\ ContentOf(s, f, p, live)
  BY Zenon, <1>1, <1>2, BeforeFill, FlagAssumption
<1>4. PICK isFull \in BOOLEAN : isFull = (part[s] = 0)
  BY Zenon
<1>5. Stage(<<s, f>>, {p}, {p}, isFull)
  BY Zenon, <1>1, <1>3, <1>4
<1>6. /\ part[s] \in Rows /\ 0 <= part[s]
      /\ part[s] = 0 => p = BlockSize - 1 /\ p >= 0
      /\ part[s] # 0 => p = part[s] - 1
      /\ \A r \in Rows : r \in Int /\ 0 <= r /\ r <= BlockSize - 1
  <2>1. part[s] \in Rows
    BY Zenon, <1>1, <1>2, BeforeFill
  <2> QED
    BY <1>3, <2>1, SizeAssumption DEF TokenRow, Rows
<1>7. CASE part[s] = 0
  <2>1. /\ <<s, f>> \in Resident'
        /\ \E old \in Content : gpuKV'[keyToSlot'[<<s, f>>]] = CopyRows(old, <<s, f>>, {p}, {p})
        /\ <<s, f>> \in Resident =>
              gpuKV'[keyToSlot'[<<s, f>>]] = CopyRows(gpuKV[keyToSlot[<<s, f>>]], <<s, f>>, {p}, {p})
    <3>1. StoreInv /\ ArenaType /\ PoolType /\ ArenaAccounting
      BY DEF Good
    <3>2. PICK C : C = {p}
      BY Zenon
    <3>3. Stage(<<s, f>>, C, C, isFull)
      BY <1>5, <3>2
    <3>4. /\ <<s, f>> \in Resident'
          /\ \E old \in Content : gpuKV'[keyToSlot'[<<s, f>>]] = CopyRows(old, <<s, f>>, C, C)
          /\ <<s, f>> \in Resident =>
                gpuKV'[keyToSlot'[<<s, f>>]] = CopyRows(gpuKV[keyToSlot[<<s, f>>]], <<s, f>>, C, C)
      <4>1. OwnedBy(s) /\ ContentOf(s, f, p, live)
        BY Zenon, <1>3
      <4>2. Staged(s, f, C, C)
        BY Zenon, <3>1, <3>3, <4>1, StageWrites
      <4> QED
        BY Zenon, <4>2 DEF Staged
    <3> QED
      BY Zenon, <3>2, <3>4
  <2>2. p > 0 => Holds(<<s, f>>, p)
    BY Zenon, <1>1, <1>3 DEF ContentOf
  <2>3. ASSUME NEW r \in Rows PROVE r = p \/ (r < p /\ p > 0)
    BY <1>6, <1>7
  <2>4. PICK old \in Content :
          /\ gpuKV'[keyToSlot'[<<s, f>>]] = CopyRows(old, <<s, f>>, {p}, {p})
          /\ \A r \in Rows : r # p => old[r] = <<s, f>>
    <3>1. CASE p > 0
      <4>1. <<s, f>> \in Resident /\ \A r \in Rows : r # p => gpuKV[keyToSlot[<<s, f>>]][r] = <<s, f>>
        BY Zenon, <2>2, <2>3, <3>1 DEF Holds
      <4>2. gpuKV[keyToSlot[<<s, f>>]] \in Content
        BY Zenon, <1>3, <4>1, KeyType DEF ArenaType, Resident
      <4> QED
        BY Zenon, <2>1, <4>1, <4>2
    <3>2. CASE ~(p > 0)
      BY Zenon, <2>1, <2>3, <3>2
    <3> QED
      BY Zenon, <3>1, <3>2
  <2>5. gpuKV'[keyToSlot'[<<s, f>>]] = FullBlock(s, f)
    BY Zenon, <2>4 DEF CopyRows, FullBlock
  <2>6. summary' = [summary EXCEPT ![TokenBlock(s)] = FullBlock(s, TokenBlock(s))]
    BY Zenon, <1>1, <1>3, <1>7, <2>5
  <2> QED
    BY Zenon, <1>1, <1>2, <1>3, <1>4, <1>5, <1>7, <2>5, <2>6, BlockFilledGood
<1>8. CASE part[s] # 0
  <2>1. part[s] > 0 /\ part[s] \in Int
    BY <1>6, <1>8
  <2>2. Covers({p}, {p}, part[s], p, live)
    <3>1. ASSUME NEW r \in Rows, r < part[s] PROVE r = p \/ (r # p /\ p > 0 /\ r < p)
      BY <1>6, <1>8, <3>1, <2>1
    <3> QED
      BY Zenon, <1>1, <1>3, <3>1 DEF Covers
  <2> QED
    BY Zenon, <1>1, <1>2, <1>3, <1>4, <1>5, <1>8, <2>1, <2>2, LiveWrittenGood
<1> QED
  BY <1>7, <1>8

\* Selection and gathering: the books stay as they are.
LEMMA AttendFrame ==
  ASSUME Good, pc \in {"select", "ensure"}, pc' \in {"idle", "select", "ensure"},
         UNCHANGED <<status, full, part, summary, trimmed, activeSeqs>>,
         StoreInv', Held' \subseteq Held, PassInv',
         \A s \in trimmed \cap running : ContentOf(s, full[s], part[s], TRUE)'
  PROVE  Good'
<1>1. running' = running
  BY DEF running
<1>2. \A s : HandedFull(s)' = full[s] /\ HandedPart(s)' = part[s] /\ HandedFull(s) = full[s]
  BY DEF HandedFull, HandedPart, Pending
<1>3. LiveInArena' = TRUE
  BY DEF LiveInArena, Pending
<1>4. BatchInv'
  BY <1>1 DEF Good, BatchInv
<1>5. ContentInv'
  BY Zenon, <1>1, <1>2, <1>3 DEF ContentInv
<1>6. SummaryInv'
  BY Zenon, <1>1, <1>2 DEF Good, SummaryInv, FullBlock
<1> QED
  BY Zenon, <1>4, <1>5, <1>6 DEF Good

LEMMA AttendContent ==
  ASSUME Good, pc \in {"select", "ensure"}
  PROVE  \A s \in trimmed \cap running : ContentOf(s, full[s], part[s], TRUE)
<1>1. LiveInArena = TRUE /\ \A s : HandedFull(s) = full[s] /\ HandedPart(s) = part[s]
  BY DEF LiveInArena, Pending, HandedFull, HandedPart
<1> QED
  BY Zenon, <1>1 DEF Good, ContentInv

LEMMA SelectGood ==
  ASSUME Good, NEW s \in Seqs, Select(s)
  PROVE  Good'
<1>1. PICK S \in Selections(s, TopK) : sel' = S /\ left' = S
  BY Zenon DEF Select
<1>2. /\ pc = "select" /\ pc' = "ensure" /\ s \in todo /\ cur' = s
      /\ UNCHANGED <<status, full, part, todo, keyToSlot, gpuKV, pool, onCpu, summary,
                     trimmed, activeSeqs>>
  BY DEF Select, engine, book
<1>3. StoreInv' /\ Held' = Held
  BY <1>2, StoreFrame DEF Good
<1>4. \A t \in trimmed \cap running : ContentOf(t, full[t], part[t], TRUE)'
  <2> TAKE t \in trimmed \cap running
  <2>1. ContentOf(t, full[t], part[t], TRUE)
    BY Zenon, <1>2, AttendContent
  <2>2. PICK f, p : f = full[t] /\ p = part[t]
    OBVIOUS
  <2>3. ContentOf(t, f, p, TRUE)'
    BY Zenon, <1>2, <2>1, <2>2, StoreFrame DEF Good
  <2> QED
    BY Zenon, <1>2, <2>2, <2>3
<1>5. PassInv'
  <2>1. todo = running /\ running = {s} /\ running' = running /\ running \subseteq trimmed /\ activeSeqs = running
    BY Zenon, <1>2 DEF Good, PassInv, BatchInv, running
  <2>2. \A b \in S : b < full[s]
    BY DEF Selections
  <2> QED
    BY Zenon, <1>1, <1>2, <2>1, <2>2 DEF PassInv
<1> QED
  BY Zenon, <1>2, <1>3, <1>4, <1>5, AttendFrame

LEMMA AttendGood ==
  ASSUME Good, Attend
  PROVE  Good'
<1>1. /\ pc = "ensure" /\ todo' = todo \ {cur} /\ pc' = IF todo = {cur} THEN "idle" ELSE "select"
      /\ UNCHANGED <<status, full, part, keyToSlot, gpuKV, pool, onCpu, summary, trimmed, activeSeqs>>
  BY DEF Attend, engine, book
<1>2. pc' = "idle"
  BY <1>1 DEF Good, PassInv
<1>3. StoreInv' /\ Held' = Held
  BY Zenon, <1>1, StoreFrame DEF Good
<1>4. \A t \in trimmed \cap running : ContentOf(t, full[t], part[t], TRUE)'
  <2> TAKE t \in trimmed \cap running
  <2>1. ContentOf(t, full[t], part[t], TRUE)
    BY Zenon, <1>1, AttendContent
  <2>2. PICK f, p : f = full[t] /\ p = part[t]
    OBVIOUS
  <2>3. ContentOf(t, f, p, TRUE)'
    BY Zenon, <1>1, <2>1, <2>2, StoreFrame DEF Good
  <2> QED
    BY Zenon, <1>1, <2>2, <2>3
<1>5. PassInv'
  BY <1>2 DEF PassInv
<1> QED
  BY Zenon, <1>1, <1>2, <1>3, <1>4, <1>5, AttendFrame

\* Pass 2 of ensure_resident: a reload evicts no block that is needed.
LEMMA EnsureResidentGood ==
  ASSUME Serial, ArenaInv, NeededNewest, Good, NEW b \in Blocks, EnsureResident(b)
  PROVE  Good'
<1> TypeOK /\ ArenaType /\ PoolType /\ ArenaAccounting /\ EngineType
  BY DEF ArenaInv, TypeOK
<1>1. /\ pc = "ensure" /\ b \in left /\ pc' = pc /\ left' = left \ {b}
      /\ EnsureOne(<<cur, b>>, TRUE)
      /\ UNCHANGED <<status, full, part, todo, cur, sel, summary, trimmed, activeSeqs>>
  BY Zenon DEF EnsureResident, engine, book
<1>2. running = {cur} /\ cur \in Seqs /\ cur \in trimmed /\ todo = running /\ activeSeqs = running
  BY Zenon, <1>1 DEF Good, PassInv, running
<1>3. b \in sel /\ b < full[cur]
  BY Zenon, <1>1 DEF NeededNewest, Good, PassInv
<1>4. PICK s \in Seqs, f \in Int, p \in Int : s = cur /\ f = full[cur] /\ p = part[cur]
  BY <1>2, SizeAssumption DEF EngineType, Rows
<1>5. OwnedBy(s) /\ ContentOf(s, f, p, TRUE)
  <2>1. OwnedBy(s)
    BY <1>2, <1>4 DEF Good, BatchInv, OwnedBy
  <2>2. ContentOf(s, f, p, TRUE)
    BY Zenon, <1>1, <1>2, <1>4, AttendContent
  <2> QED
    BY Zenon, <2>1, <2>2
<1>6. /\ StoreInv' /\ Held' \subseteq Held /\ ContentOf(s, f, p, TRUE)'
      /\ <<s, b>> \in Resident'
      /\ \A a \in sel : <<s, a>> \in Resident => <<s, a>> \in Resident'
  <2>1. CASE <<s, b>> \in Resident
    <3>1. UNCHANGED <<keyToSlot, gpuKV, pool, onCpu>>
      BY Zenon, <1>1, <1>4, <2>1 DEF EnsureOne, Get, Resident
    <3> QED
      BY Zenon, <1>5, <2>1, <3>1, StoreFrame DEF Good
  <2>2. CASE <<s, b>> \notin Resident
    <3>1. ProtectedKeys(s) = {}
      BY DEF ProtectedKeys, Serial
    <3>2. <<s, b>> \in Needed /\ \A a \in sel : <<s, a>> \in Needed
      BY Zenon, <1>3, <1>4 DEF Needed
    <3>3. freeSlots = {} => Victim(ProtectedKeys(s)) \notin Needed
      BY Zenon, <1>1, <2>2, <3>1, <3>2, VictimNotNeeded
    <3>4. p > 0 => <<s, f>> \in Needed
      BY <1>4 DEF Needed, Live
    <3>5. p > 0 /\ freeSlots = {} => Victim(ProtectedKeys(s)) # <<s, f>>
      BY Zenon, <3>3, <3>4
    <3>6. PICK mru \in BOOLEAN : mru = TRUE
      BY Zenon
    <3>7. EnsureOne(<<s, b>>, mru) /\ StoreInv /\ b < f
      BY Zenon, <1>1, <1>3, <1>4, <3>6 DEF Good
    <3>8. /\ StoreInv' /\ Held' \subseteq Held /\ ContentOf(s, f, p, TRUE)'
          /\ <<s, b>> \in Resident'
          /\ \A j \in Resident : (freeSlots = {} /\ j = Victim(ProtectedKeys(s))) \/ j \in Resident'
      BY Zenon, <1>5, <2>2, <3>5, <3>7, ReloadContent
    <3> QED
      BY Zenon, <3>2, <3>3, <3>8
  <2> QED
    BY Zenon, <2>1, <2>2
<1>7. \A t \in trimmed \cap running : ContentOf(t, full[t], part[t], TRUE)'
  BY Zenon, <1>1, <1>2, <1>4, <1>6
<1>8. PassInv'
  <2>1. running' = running
    BY <1>1 DEF running
  <2>2. \A a \in sel' : a < full'[cur'] /\ (a \in left' \/ <<cur', a>> \in Resident')
    BY Zenon, <1>1, <1>4, <1>6 DEF Good, PassInv
  <2> QED
    BY Zenon, <1>1, <1>2, <2>1, <2>2 DEF PassInv
<1> QED
  BY Zenon, <1>1, <1>6, <1>7, <1>8, AttendFrame

\* The invariant.  After an exception the books stay consistent.
SerialInv == StoreInv /\ (pc # "failed" => Good)

LEMMA SerialInit == Init => SerialInv
<1> SUFFICES ASSUME Init PROVE SerialInv
  OBVIOUS
<1>1. /\ \A k \in Key : Source(k) = None /\ keyToSlot[k] = None
      /\ Held = {} /\ Resident = {} /\ OnHost = {}
  BY DEF Init, Source, Held, Resident, OnHost
<1>2. StoreInv
  <2>1. PlacesInv
    BY Zenon, <1>1 DEF Init, PlacesInv
  <2>2. SourceInv
    <3>1. CpuSlots \ {Source(k) : k \in Key} = CpuSlots
      BY Zenon, <1>1, NoneAssumption
    <3> QED
      BY Zenon, <1>1, <3>1 DEF Init, SourceInv
  <2> QED
    BY Zenon, <1>1, <2>1, <2>2 DEF Init, StoreInv, OnCpuInv
<1>3. running = {}
  BY DEF Init, running
<1>4. BatchInv /\ PassInv /\ ContentInv /\ SummaryInv
  BY Zenon, <1>1, <1>3 DEF Init, BatchInv, PassInv, ContentInv, SummaryInv
<1> QED
  BY <1>2, <1>4 DEF SerialInv, Good

LEMMA RaiseStore ==
  ASSUME StoreInv, Failure
  PROVE  pc' = "failed" /\ StoreInv'
<1>1. \E e : Raise(e)
  BY Zenon DEF Failure, StageRaises, EnsureOneRaises
<1>2. pc' = "failed" /\ UNCHANGED <<keyToSlot, gpuKV, pool, onCpu>>
  BY <1>1 DEF Raise, arena
<1> QED
  BY Zenon, <1>2, StoreFrame

\* The steps that a batch of one request never takes.
LEMMA SerialSteps ==
  ASSUME Serial, Good
  PROVE  /\ ~PrefillChunk /\ ~EndPrefetch /\ (\A b \in Blocks : ~PrefetchOne(b))
         /\ \A s \in Seqs : ~BeginPrefetch(s) /\ ~SkipIngest(s) /\ ~IngestToken(s)
<1>1. pc # "prefetch" /\ (pc = "ingest" => todo = {cur} /\ cur \notin trimmed)
  BY DEF Good, PassInv
<1> QED
  BY Zenon, <1>1 DEF Serial, PrefillChunk, EndPrefetch, PrefetchOne, BeginPrefetch, SkipIngest, IngestToken

LEMMA SerialNext ==
  ASSUME Serial, ArenaInv, NeededNewest, SerialInv, [Next]_vars
  PROVE  SerialInv'
<1> TypeOK
  BY DEF ArenaInv
<1>1. CASE UNCHANGED vars
  <2>1. UNCHANGED <<status, full, part, pc, todo, cur, sel, left, keyToSlot, gpuKV, pool, onCpu,
                    summary, trimmed, activeSeqs>>
    BY <1>1 DEF vars, engine, loop, arena, book
  <2>2. StoreInv' /\ Held' = Held /\ Resident' = Resident /\ running' = running
    BY <2>1, StoreFrame DEF SerialInv, running
  <2>3. ASSUME Good PROVE Good'
    <3>1. BatchInv' /\ PassInv'
      BY Zenon, <2>1, <2>2, <2>3 DEF Good, BatchInv, PassInv
    <3>2. /\ \A s : HandedFull(s)' = HandedFull(s) /\ HandedPart(s)' = HandedPart(s)
          /\ LiveInArena' = LiveInArena /\ LiveInArena \in BOOLEAN
      BY <2>1 DEF HandedFull, HandedPart, Pending, TokenBlock, TokenRow, LiveInArena
    <3>3. \A s, f, p : \A l \in BOOLEAN : ContentOf(s, f, p, l) => ContentOf(s, f, p, l)'
      BY Zenon, <2>1, StoreFrame DEF SerialInv
    <3>4. ContentInv'
      <4> SUFFICES ASSUME NEW s \in trimmed \cap running
                   PROVE  ContentOf(s, HandedFull(s), HandedPart(s), LiveInArena)'
        BY <2>1, <2>2 DEF ContentInv
      <4>0. PICK f, p : f = HandedFull(s) /\ p = HandedPart(s)
        OBVIOUS
      <4>1. PICK l \in BOOLEAN : l = LiveInArena
        BY <3>2
      <4>2. ContentOf(s, f, p, l)
        BY Zenon, <2>3, <4>0, <4>1 DEF Good, ContentInv
      <4>3. ContentOf(s, f, p, l)'
        BY <3>3, <4>2
      <4> QED
        BY Zenon, <3>2, <4>0, <4>1, <4>3
    <3>5. SummaryInv'
      BY Zenon, <2>1, <2>2, <2>3, <3>2 DEF Good, SummaryInv, FullBlock
    <3> QED
      BY Zenon, <2>2, <3>1, <3>4, <3>5 DEF Good
  <2> QED
    BY Zenon, <2>1, <2>2, <2>3 DEF SerialInv
<1>2. CASE Next /\ pc = "failed"
  BY Zenon, <1>2 DEF Next, Step, PrefillWhole, PrefillChunk, Prefill, Finish, Decode, BeginPrefetch,
              PrefetchOne, EndPrefetch, Gc, SkipIngest, IngestToken, IngestPrompt, StagePartial,
              BeginNotify, OnBlockFilled, WriteLiveBlock, AppendToken, Select, EnsureResident,
              Attend, Failure
<1>3. CASE Next /\ pc # "failed"
  <2> Good /\ StoreInv
    BY <1>3 DEF SerialInv
  <2>1. CASE PrefillWhole
    BY Zenon, <2>1, PrefillGood DEF PrefillWhole, SerialInv, Good
  <2>2. CASE \E s \in Seqs : Finish(s)
    BY <2>2, FinishGood DEF SerialInv, Good
  <2>3. CASE Decode
    BY Zenon, <2>3, DecodeGood DEF SerialInv, Good
  <2>4. CASE Gc
    BY <2>4, GcGood DEF SerialInv, Good
  <2>5. CASE IngestPrompt
    BY Zenon, <2>5, IngestGood DEF SerialInv, Good
  <2>6. CASE StagePartial
    BY Zenon, <2>6, StagePartialGood DEF SerialInv, Good
  <2>7. CASE \E s \in Seqs : BeginNotify(s)
    BY Zenon, <2>7, BeginNotifyGood DEF SerialInv, Good
  <2>8. CASE OnBlockFilled
    BY Zenon, <2>8, OnBlockFilledGood DEF SerialInv, Good
  <2>9. CASE WriteLiveBlock
    BY Zenon, <2>9, WriteLiveBlockGood DEF SerialInv, Good
  <2>10. CASE \E s \in Seqs : AppendToken(s)
    BY Zenon, <2>10, AppendTokenGood DEF SerialInv, Good
  <2>11. CASE \E s \in Seqs : Select(s)
    BY Zenon, <2>11, SelectGood DEF SerialInv, Good
  <2>12. CASE \E b \in Blocks : EnsureResident(b)
    BY Zenon, <2>12, EnsureResidentGood DEF SerialInv, Good
  <2>13. CASE Attend
    BY Zenon, <2>13, AttendGood DEF SerialInv, Good
  <2>14. CASE Failure
    BY <2>14, RaiseStore DEF SerialInv
  <2> QED
    BY Zenon, <1>3, <2>1, <2>2, <2>3, <2>4, <2>5, <2>6, <2>7, <2>8, <2>9, <2>10, <2>11, <2>12, <2>13,
       <2>14, SerialSteps DEF Next, Step
<1> QED
  BY <1>1, <1>2, <1>3

LEMMA SerialInvariant ==
  ASSUME Serial
  PROVE  Spec => [](ArenaInv /\ NeededNewest /\ SerialInv)
<1>1. Init => ArenaInv /\ NeededNewest /\ SerialInv
  BY Zenon, ArenaInvInit, SerialInit DEF Init, NeededNewest
<1>2. ArenaInv /\ NeededNewest /\ SerialInv /\ [Next]_vars => (ArenaInv /\ NeededNewest /\ SerialInv)'
  BY Zenon, ArenaInvNext, NewestNext, SerialNext
<1> QED
  BY <1>1, <1>2, PTL DEF Spec

-----------------------------------------------------------------------------
(***************************************************************************)
(* The theorems.                                                           *)
(***************************************************************************)
\* The gather of run_sparse_decode: with one request at a time the slots it looks up hold
\* the selected blocks and the live block, whatever was evicted, spilled and reloaded.
THEOREM SerialGather ==
  ASSUME Serial
  PROVE  Spec => []GatherExact
<1>1. ArenaInv /\ NeededNewest /\ SerialInv => GatherExact
  <2> SUFFICES ASSUME ArenaInv, SerialInv, pc = "ensure", left = {}
               PROVE  /\ \A b \in sel : Holds(<<cur, b>>, BlockSize)
                      /\ \A b \in Live(cur) : Holds(<<cur, b>>, part[cur])
    BY DEF GatherExact
  <2>1. Good /\ cur \in trimmed \cap running
    BY DEF SerialInv, Good, PassInv
  <2>2. ContentOf(cur, full[cur], part[cur], TRUE)
    BY Zenon, <2>1, AttendContent
  <2>3. ASSUME NEW b \in sel PROVE Holds(<<cur, b>>, BlockSize)
    <3>1. b < full[cur] /\ <<cur, b>> \in Resident /\ b \in Blocks
      BY Zenon, <2>1 DEF Good, PassInv, ArenaInv, TypeOK, LoopType
    <3>2. gpuKV[keyToSlot[<<cur, b>>]] = FullBlock(cur, b)
      BY Zenon, <2>2, <3>1 DEF ContentOf, Intact
    <3> QED
      BY Zenon, <3>1, <3>2 DEF Holds, FullBlock
  <2>4. ASSUME NEW b \in Live(cur) PROVE Holds(<<cur, b>>, part[cur])
    BY <2>2, <2>4 DEF Live, ContentOf
  <2> QED
    BY Zenon, <2>3, <2>4
<1> QED
  BY <1>1, SerialInvariant, PTL

\* on_block_filled, ensure_resident and the host pool: when a request selects, each full
\* block of it can be found, and every copy of it is the whole block.
THEOREM SerialBlocks ==
  ASSUME Serial
  PROVE  Spec => []EveryBlockIntact
<1>1. ArenaInv /\ NeededNewest /\ SerialInv => EveryBlockIntact
  <2> SUFFICES ASSUME ArenaInv, SerialInv, pc = "select", NEW s \in todo, NEW b \in Blocks,
                      b < full[s], NEW k, k = <<s, b>>
               PROVE  /\ k \in Resident \/ Source(k) # None
                      /\ k \in Resident => gpuKV[keyToSlot[k]] = FullBlock(s, b)
                      /\ cpuSlots[k] # None => cpuKV[cpuSlots[k]] = FullBlock(s, b)
                      /\ hostSlots[k] # None => cpuKV[hostSlots[k]] = FullBlock(s, b)
    BY Zenon DEF EveryBlockIntact
  <2>1. Good /\ s \in trimmed \cap running /\ s \in Seqs
    BY DEF SerialInv, Good, PassInv, running
  <2>2. ContentOf(s, full[s], part[s], TRUE)
    BY Zenon, <2>1, AttendContent
  <2>3. Intact(k) /\ k \in Key /\ k[1] = s /\ k[2] = b
    BY Zenon, <2>1, <2>2, KeyType DEF ContentOf
  <2>4. (IF WriteThrough THEN cpuSlots[k] ELSE hostSlots[k]) = None
    BY <2>1, <2>3 DEF Good, StoreInv, PlacesInv
  <2> QED
    BY Zenon, <2>3, <2>4 DEF Intact, Source
<1> QED
  BY <1>1, SerialInvariant, PTL

\* BlockSummaryStore.add: what selection scores are the digests of the request's own blocks.
THEOREM SerialSummaries ==
  ASSUME Serial
  PROVE  Spec => []SummariesCurrent
<1>1. ArenaInv /\ NeededNewest /\ SerialInv => SummariesCurrent
  <2> SUFFICES ASSUME SerialInv, pc = "select" PROVE SummariesCurrent
    BY DEF SummariesCurrent
  <2>1. todo = running /\ SummaryInv
    BY DEF SerialInv, Good, PassInv
  <2>2. \A s : HandedFull(s) = full[s]
    BY DEF HandedFull, Pending
  <2> QED
    BY Zenon, <2>1, <2>2 DEF SummaryInv, SummariesCurrent
<1> QED
  BY <1>1, SerialInvariant, PTL

\* free_request: from the collection at the head of a decode pass on, every slot that is
\* held belongs to the running request.
THEOREM SerialCollected ==
  ASSUME Serial
  PROVE  Spec => []NoStaleState
<1>1. ArenaInv /\ NeededNewest /\ SerialInv => NoStaleState
  BY DEF SerialInv, Good, PassInv, BatchInv, NoStaleState
<1> QED
  BY <1>1, SerialInvariant, PTL

\* BlockResidency: begin_evict, finish_load and mark_gpu leave a block ON_CPU exactly when
\* its only copy is on the host.
THEOREM SerialResidency ==
  ASSUME Serial
  PROVE  Spec => []ResidencyExact
<1>1. ArenaInv /\ NeededNewest /\ SerialInv => ResidencyExact
  <2> SUFFICES ASSUME SerialInv, pc \in {"select", "ensure"}
               PROVE  onCpu = {b \in Blocks : \E s \in running :
                                  keyToSlot[<<s, b>>] = None /\ Source(<<s, b>>) # None}
    BY DEF ResidencyExact
  <2>1. onCpu = {k[2] : k \in OnHost} /\ PlacesInv
    BY DEF SerialInv, StoreInv, OnCpuInv
  <2>2. \A k \in OnHost : k \in Key /\ k \in Held
    BY Zenon, <2>1, HeldPlaces DEF OnHost
  <2>3. \A k \in OnHost : k[1] \in running
    BY <2>2 DEF SerialInv, Good, PassInv, BatchInv
  <2>4. \A k \in Key : k = <<k[1], k[2]>> /\ k[2] \in Blocks
    BY DEF Key
  <2>5. \A s \in running, b \in Blocks : <<s, b>> \in Key
    BY Zenon, KeyType DEF running
  <2>6. \A b \in onCpu : b \in Blocks /\ \E s \in running :
            keyToSlot[<<s, b>>] = None /\ Source(<<s, b>>) # None
    BY <2>1, <2>2, <2>3, <2>4 DEF OnHost
  <2>7. ASSUME NEW b \in Blocks, NEW s \in running, keyToSlot[<<s, b>>] = None, Source(<<s, b>>) # None
        PROVE  b \in onCpu
    BY <2>1, <2>5, <2>7 DEF OnHost
  <2> QED
    BY Zenon, <2>6, <2>7
<1> QED
  BY <1>1, SerialInvariant, PTL

\* CpuKvBackingStore.alloc and free: no host slot is lost or given out twice, not even
\* when a call raises.
THEOREM SerialPool ==
  ASSUME Serial
  PROVE  Spec => []PoolAccounting
<1>1. ArenaInv /\ NeededNewest /\ SerialInv => PoolAccounting
  BY PoolFromSource DEF ArenaInv, TypeOK, SerialInv, StoreInv
<1> QED
  BY <1>1, SerialInvariant, PTL

-----------------------------------------------------------------------------
(***************************************************************************)
(* No call raises.                                                         *)
(***************************************************************************)
\* The pool resolve_cpu_blocks_per_layer sizes for one request: it can back a sequence of
\* max_model_len.
HostPoolFits == Cardinality(CpuSlots) >= MaxBlocks

LEMMA PoolRoom ==
  ASSUME HostPoolFits, StoreInv, NEW s \in Seqs, OwnedBy(s), NEW x \in Blocks,
         Source(<<s, x>>) = None
  PROVE  cpuFree # {}
<1> DEFINE B == {b \in Blocks : b # x /\ Source(<<s, b>>) # None}
           f == [b \in B |-> Source(<<s, b>>)]
<1> SUFFICES ASSUME cpuFree = {} PROVE FALSE
  OBVIOUS
<1>1. CpuSlots \subseteq {Source(k) : k \in Key}
  BY DEF StoreInv, SourceInv
<1>2. ASSUME NEW c \in CpuSlots PROVE \E b \in B : f[b] = c
  <2>1. PICK k \in Key : Source(k) = c
    BY <1>1
  <2>2. c # None
    BY NoneAssumption
  <2>3. k \in Held
    BY Zenon, <2>1, <2>2, HeldPlaces DEF StoreInv
  <2>4. k = <<s, k[2]>> /\ k[2] \in Blocks
    BY <2>3 DEF OwnedBy, Key
  <2>5. k[2] \in B /\ f[k[2]] = c
    BY Zenon, <2>1, <2>2, <2>4
  <2> QED
    BY <2>5
<1>3. IsFiniteSet(Blocks) /\ Cardinality(Blocks) = MaxBlocks
  <2>1. /\ IsFiniteSet(0 .. (MaxBlocks - 1))
        /\ Cardinality(0 .. (MaxBlocks - 1)) = IF 0 > MaxBlocks - 1 THEN 0 ELSE (MaxBlocks - 1) - 0 + 1
    BY SizeAssumption, FS_Interval
  <2> QED
    BY <2>1, SizeAssumption DEF Blocks
<1>4. IsFiniteSet(Blocks \ {x}) /\ Cardinality(Blocks \ {x}) = MaxBlocks - 1
  BY Zenon, <1>3, FS_RemoveElement
<1>5. IsFiniteSet(B) /\ Cardinality(B) <= MaxBlocks - 1 /\ Cardinality(B) \in Nat
  <2>1. B \subseteq Blocks \ {x}
    OBVIOUS
  <2> HIDE DEF B
  <2> QED
    BY <1>4, <2>1, FS_Subset, FS_CardinalityType
<1>6. \A b \in B : f[b] \in CpuSlots \/ f[b] \notin CpuSlots
  OBVIOUS
<1> DEFINE A == {b \in B : f[b] \in CpuSlots}
           h == [b \in A |-> f[b]]
<1>7. h \in Surjection(A, CpuSlots)
  <2> HIDE DEF f, B
  <2> QED
    BY Zenon, <1>2 DEF Surjection
<1>8. IsFiniteSet(A) /\ Cardinality(A) <= Cardinality(B) /\ Cardinality(A) \in Nat
  <2>1. A \subseteq B
    OBVIOUS
  <2> HIDE DEF A, B
  <2> QED
    BY Zenon, <1>5, <2>1, FS_Subset, FS_CardinalityType
<1> HIDE DEF A, B, h, f
<1>9. Cardinality(CpuSlots) <= Cardinality(A) /\ Cardinality(CpuSlots) \in Nat
  BY Zenon, <1>7, <1>8, FS_Surjection, ArenaAssumption, FS_CardinalityType
<1> QED
  BY <1>5, <1>8, <1>9, SizeAssumption DEF HostPoolFits

LEMMA EvictSafe ==
  ASSUME HostPoolFits, StoreInv, NEW s \in Seqs, OwnedBy(s), NEW f \in Int, NEW p \in Int,
         NEW live \in BOOLEAN, ContentOf(s, f, p, live),
         NEW e \in Resident, e[2] < f
  PROVE  SpillError(e) = "none"
<1>1. e \in Key /\ e \in Held /\ PlacesInv
  BY HeldPlaces DEF StoreInv, Resident
<1>2. e = <<s, e[2]>> /\ e[2] \in Blocks /\ e[1] = s
  BY <1>1 DEF OwnedBy, Key
<1>3. Intact(e)
  BY Zenon, <1>2 DEF ContentOf
<1>4. WriteThrough => hostSlots[e] # None
  BY Zenon, <1>3 DEF Intact, Source
<1>5. ~WriteThrough => cpuFree # {}
  BY Zenon, <1>1, <1>2, PoolRoom DEF PlacesInv
<1>6. e[2] \notin onCpu
  <2> SUFFICES ASSUME NEW k \in OnHost, k[2] = e[2] PROVE FALSE
    BY DEF StoreInv, OnCpuInv
  <2>1. k \in Key /\ k \in Held /\ k \notin Resident
    BY Zenon, <1>1, HeldPlaces DEF OnHost, Resident
  <2>2. k = <<s, k[2]>>
    BY <2>1 DEF OwnedBy, Key
  <2> QED
    BY Zenon, <1>2, <2>1, <2>2
<1> QED
  BY Zenon, <1>4, <1>5, <1>6 DEF SpillError

LEMMA StageSafe ==
  ASSUME HostPoolFits, ArenaType, ArenaAccounting, StoreInv, NEW s \in Seqs, NEW f \in Blocks,
         NEW p \in Int, NEW live \in BOOLEAN, OwnedBy(s), ContentOf(s, f, p, live),
         NEW isFull \in BOOLEAN
  PROVE  ~StageRaises(<<s, f>>, isFull)
<1> DEFINE k == <<s, f>>
<1> SUFFICES ASSUME NEW g \in Slots, NEW e \in Key \cup {None}, AddReturns(k, {}, g, e)
             PROVE  StageError(k, e, isFull) = "none"
  BY DEF StageRaises
<1>1. k \in Key /\ k[2] = f
  BY KeyType
<1>2. SpillError(e) = "none"
  <2>1. CASE e = None
    BY Zenon, <2>1 DEF SpillError
  <2>2. CASE e # None
    <3>1. k \notin Resident /\ freeSlots = {} /\ e = Victim({})
      BY <1>1, <2>2 DEF AddReturns, Resident
    <3>2. e \in Resident
      BY Zenon, <3>1, VictimResident
    <3>3. e \in Held /\ e \in Key
      BY Zenon, <3>2, HeldPlaces DEF StoreInv, Resident
    <3>4. e = <<s, e[2]>> /\ e[2] \in Blocks
      BY <3>3 DEF OwnedBy, Key
    <3>5. e[2] < f
      BY Zenon, <3>1, <3>2, <3>3, <3>4 DEF ContentOf
    <3>6. f \in Int
      BY SizeAssumption DEF Blocks
    <3> QED
      BY Zenon, <3>2, <3>5, <3>6, EvictSafe
  <2> QED
    BY Zenon, <2>1, <2>2
<1>3. WriteThrough /\ hostSlots[k] = None => cpuFree # {}
  BY PoolRoom DEF Source
<1> QED
  BY Zenon, <1>2, <1>3 DEF StageError

LEMMA WorkingSetSafe ==
  ASSUME HostPoolFits, ArenaAccounting, StoreInv, Held = {}, NEW n \in 0 .. MaxBlocks
  PROVE  WorkingSetError(n) = "none"
<1>1. /\ \A k \in Key : k \notin Resident /\ Source(k) = None
      /\ Resident = {}
  BY Zenon, HeldPlaces DEF StoreInv, Resident
<1>2. onCpu = {}
  BY <1>1 DEF StoreInv, OnCpuInv, OnHost
<1>3. freeSlots = Slots
  BY <1>1 DEF ArenaAccounting
<1>4. cpuFree = CpuSlots
  BY <1>1, NoneAssumption DEF StoreInv, SourceInv
<1>5. Cap \in Nat /\ Cap >= 2 /\ Cardinality(CpuSlots) \in Nat
  BY ArenaAssumption, FS_CardinalityType, TopKAssumption, SizeAssumption DEF ArenaFits, Cap
<1>6. ASSUME NEW b \in Blocks, b < n PROVE BlockError(n, b) = "none"
  <2>1. ASSUME b \in Kept(n) PROVE ~(Cardinality({a \in Kept(n) : a < b}) >= Cardinality(freeSlots))
    <3> DEFINE A == {a \in Kept(n) : a < b}
               lo == n - (Cap - 1)
    <3>1. b \in Int /\ n \in Int /\ lo \in Int /\ lo <= b
      BY <1>5, <2>1, SizeAssumption DEF Kept, Blocks
    <3>2. A \subseteq lo .. (b - 1)
      BY <1>5, <3>1, SizeAssumption DEF Kept, Blocks
    <3>3. /\ IsFiniteSet(lo .. (b - 1))
          /\ Cardinality(lo .. (b - 1)) = IF lo > b - 1 THEN 0 ELSE (b - 1) - lo + 1
      <4>1. PICK x \in Int, y \in Int : x = lo /\ y = b - 1
        BY <3>1
      <4>2. IsFiniteSet(x .. y) /\ Cardinality(x .. y) = IF x > y THEN 0 ELSE y - x + 1
        BY FS_Interval
      <4> QED
        BY Zenon, <4>1, <4>2
    <3>4. Cardinality(lo .. (b - 1)) \in Nat /\ Cardinality(lo .. (b - 1)) < Cap
      BY <1>5, <1>6, <3>1, <3>3
    <3> HIDE DEF A, lo
    <3>5. Cardinality(A) \in Nat /\ Cardinality(A) <= Cardinality(lo .. (b - 1))
      BY Zenon, <3>2, <3>3, FS_Subset, FS_CardinalityType
    <3> QED
      BY <1>3, <1>5, <3>4, <3>5 DEF A, Cap
  <2>2. ~(b >= Cardinality(cpuFree))
    BY <1>4, <1>5, SizeAssumption DEF HostPoolFits, Blocks
  <2> QED
    BY Zenon, <1>2, <2>1, <2>2 DEF BlockError
<1> QED
  BY <1>6 DEF WorkingSetError

LEMMA EnsureSafe ==
  ASSUME Serial, HostPoolFits, ArenaInv, NeededNewest, Good, pc = "ensure", NEW b \in left
  PROVE  ~EnsureOneRaises(<<cur, b>>)
<1> TypeOK /\ ArenaType /\ PoolType /\ ArenaAccounting /\ EngineType
  BY DEF ArenaInv, TypeOK
<1>1. cur \in Seqs /\ cur \in trimmed \cap running /\ running = {cur} /\ b \in sel /\ b < full[cur]
      /\ b \in Blocks
  BY Zenon DEF Good, PassInv, running, NeededNewest, TypeOK, LoopType
<1>2. PICK s \in Seqs, f \in Int, p \in Int : s = cur /\ f = full[cur] /\ p = part[cur]
  BY <1>1, SizeAssumption DEF EngineType, Rows
<1>3. OwnedBy(s) /\ StoreInv /\ PlacesInv
  BY <1>1, <1>2 DEF Good, BatchInv, PassInv, OwnedBy, StoreInv
<1>4. PICK live \in BOOLEAN : live = TRUE
  BY Zenon
<1>5. ContentOf(s, f, p, live)
  BY Zenon, <1>1, <1>2, <1>4, AttendContent
<1> DEFINE k == <<s, b>>
<1>6. Intact(k) /\ k \in Key /\ k[1] = s /\ k[2] = b
  BY Zenon, <1>1, <1>2, <1>5, KeyType DEF ContentOf
<1> HIDE DEF k
<1> SUFFICES ASSUME keyToSlot[k] = None
             PROVE  /\ Source(k) # None
                    /\ \A g \in Slots, e \in Key \cup {None} :
                          AddReturns(k, ProtectedKeys(k[1]), g, e) => EnsureError(k, e) = "none"
  BY Zenon, <1>2 DEF EnsureOneRaises, k
<1>7. k \notin Resident /\ Source(k) # None
  BY Zenon, <1>6 DEF Intact, Resident
<1>8. k[2] \in onCpu
  BY Zenon, <1>3, <1>6, <1>7 DEF StoreInv, OnCpuInv, OnHost
<1>9. ASSUME NEW g \in Slots, NEW e \in Key \cup {None}, AddReturns(k, ProtectedKeys(k[1]), g, e)
      PROVE  SpillError(e) = "none"
  <2>1. CASE e = None
    BY Zenon, <2>1 DEF SpillError
  <2>2. CASE e # None
    <3>1. freeSlots = {} /\ e = Victim({})
      BY Zenon, <1>9, <2>2 DEF AddReturns, ProtectedKeys, Serial
    <3>2. e \in Resident
      BY Zenon, <3>1, VictimResident
    <3>3. k \in Needed
      BY Zenon, <1>1, <1>2 DEF Needed, k
    <3>4. e \notin Needed
      BY Zenon, <1>7, <3>1, <3>3, VictimNotNeeded
    <3>5. e \in Held /\ e \in Key
      BY Zenon, <1>3, <3>2, HeldPlaces DEF Resident
    <3>6. e = <<s, e[2]>> /\ e[2] \in Blocks
      BY <1>3, <3>5 DEF OwnedBy, Key
    <3>7. p > 0 => e[2] # f
      BY Zenon, <1>2, <3>4, <3>6 DEF Needed, Live
    <3>8. e[2] < f
      BY Zenon, <1>5, <3>5, <3>6, <3>7 DEF ContentOf
    <3> QED
      BY Zenon, <1>3, <1>5, <3>2, <3>8, EvictSafe
  <2> QED
    BY Zenon, <2>1, <2>2
<1> QED
  BY Zenon, <1>7, <1>8, <1>9 DEF EnsureError

LEMMA FailureNever ==
  ASSUME Serial, HostPoolFits, ArenaInv, NeededNewest, Good
  PROVE  ~Failure
<1> TypeOK /\ ArenaType /\ PoolType /\ ArenaAccounting /\ EngineType /\ StoreInv
  BY DEF ArenaInv, TypeOK, Good
<1>1. ASSUME pc = "ingest"
      PROVE  todo = {cur} /\ WorkingSetError(full[cur]) = "none"
  <2>1. todo = {cur} /\ running = {cur} /\ activeSeqs = running /\ cur \notin trimmed /\ cur \in Seqs
    BY Zenon, <1>1 DEF Good, PassInv, running
  <2>2. Held = {} /\ full[cur] \in 0 .. MaxBlocks
    BY <2>1 DEF Good, BatchInv, EngineType
  <2> QED
    BY Zenon, <2>1, <2>2, WorkingSetSafe
<1>2. ASSUME pc = "notify", NEW s \in todo \ trimmed
      PROVE  WorkingSetError(full[s]) = "none"
  <2>1. running = {s} /\ activeSeqs = running /\ s \in Seqs
    BY <1>2 DEF Good, PassInv, BatchInv, running
  <2>2. Held = {} /\ full[s] \in 0 .. MaxBlocks
    BY <1>2, <2>1 DEF Good, BatchInv, EngineType
  <2> QED
    BY Zenon, <2>2, WorkingSetSafe
<1>3. ASSUME pc = "stage" PROVE ~StageRaises(<<cur, full[cur]>>, FALSE)
  <2>1. running = {cur} /\ cur \in Seqs /\ cur \in trimmed /\ activeSeqs = running
    BY Zenon, <1>3 DEF Good, PassInv, BatchInv, running
  <2>2. PICK s \in Seqs, f \in Blocks, p \in Int : s = cur /\ f = full[cur] /\ p = part[cur]
    BY <1>3, <2>1, SizeAssumption DEF TypeOK, EngineType, PassWellFormed, Blocks, Rows
  <2>3. PICK isFull \in BOOLEAN : isFull = FALSE
    BY Zenon
  <2>4. ContentOf(s, f, p, isFull) /\ OwnedBy(s)
    BY Zenon, <1>3, <2>1, <2>2, <2>3
       DEF Good, ContentInv, BatchInv, OwnedBy, HandedFull, HandedPart, LiveInArena, Pending
  <2>5. ~StageRaises(<<s, f>>, isFull)
    BY Zenon, <2>4, StageSafe
  <2> QED
    BY Zenon, <2>2, <2>3, <2>5
<1>4. ASSUME NEW s \in running, pc \in {"notify", "fill"}, pc = "fill" \/ KvShare
      PROVE  ~StageRaises(<<s, TokenBlock(s)>>, part[s] = 0)
  <2>1. PICK f \in Blocks, p \in Int, live \in BOOLEAN :
           f = TokenBlock(s) /\ p = TokenRow(s) /\ live = KvShare
    BY Zenon, <1>4, BeforeFill, FlagAssumption
  <2>2. ContentOf(s, f, p, live) /\ OwnedBy(s) /\ s \in Seqs
    BY Zenon, <1>4, <2>1, BeforeFill
  <2>3. PICK isFull \in BOOLEAN : isFull = (part[s] = 0)
    BY Zenon
  <2>4. ~StageRaises(<<s, f>>, isFull)
    BY Zenon, <2>2, StageSafe
  <2> QED
    BY Zenon, <2>1, <2>3, <2>4
<1>5. pc # "prefetch" /\ (pc = "fill" => cur \in running) /\ (pc = "notify" => todo = running)
  BY DEF Good, PassInv
<1>6. pc = "ensure" /\ left = {} => Needed \subseteq Resident
  <2> SUFFICES ASSUME pc = "ensure", left = {} PROVE Needed \subseteq Resident
    OBVIOUS
  <2>1. \A b \in sel : <<cur, b>> \in Resident
    BY DEF Good, PassInv
  <2>2. cur \in trimmed \cap running
    BY DEF Good, PassInv
  <2>3. ContentOf(cur, full[cur], part[cur], TRUE)
    BY Zenon, <2>2, AttendContent
  <2>4. \A b \in Live(cur) : <<cur, b>> \in Resident
    BY <2>3 DEF ContentOf, Live, Holds
  <2> QED
    BY Zenon, <2>1, <2>4 DEF Needed
<1>7. ~(pc = "ingest" /\ \E s \in todo \ (trimmed \cup {cur}) : StageRaises(<<s, 0>>, FALSE))
  BY Zenon, <1>1
<1>8. ~(/\ pc = "ingest" /\ cur \in todo \ trimmed
        /\ WorkingSetError(full[cur]) # "none" /\ Raise(WorkingSetError(full[cur])))
  BY <1>1
<1>9. ~(/\ ~KvShare /\ pc = "notify"
        /\ \E s \in todo \ trimmed : /\ WorkingSetError(full[s]) # "none"
                                     /\ Raise(WorkingSetError(full[s])))
  BY <1>2
<1>10. ~(pc = "fill" /\ StageRaises(<<cur, TokenBlock(cur)>>, part[cur] = 0))
  BY Zenon, <1>4, <1>5
<1>11. ~(/\ KvShare /\ pc = "notify"
         /\ \E s \in todo : StageRaises(<<s, TokenBlock(s)>>, part[s] = 0))
  BY Zenon, <1>4, <1>5
<1>12. ~(pc = "ensure" /\ \E b \in left : EnsureOneRaises(<<cur, b>>))
  BY Zenon, EnsureSafe
<1> QED
  BY <1>3, <1>5, <1>6, <1>7, <1>8, <1>9, <1>10, <1>11, <1>12, Zenon DEF Failure

\* No call of the manager raises while one request at a time is served from a pool that
\* backs max_model_len: no eviction without a host backup, no pool or arena exhausted, no
\* residency transition from the wrong state, no block that cannot be found.
THEOREM SerialNoException ==
  ASSUME Serial, HostPoolFits
  PROVE  Spec => []NoException
<1> DEFINE Ok == err = "none" /\ pc # "failed"
<1>1. Init => Ok
  BY DEF Init
<1>2. ArenaInv /\ NeededNewest /\ SerialInv /\ Ok /\ [Next]_vars => Ok'
  <2> SUFFICES ASSUME ArenaInv, NeededNewest, Good, Ok, [Next]_vars PROVE Ok'
    BY DEF SerialInv
  <2>1. ~Failure
    BY FailureNever
  <2>2. CASE UNCHANGED vars
    BY Zenon, <2>2 DEF vars
  <2>3. CASE PrefillWhole \/ PrefillChunk
    BY Zenon, <2>3 DEF PrefillWhole, PrefillChunk, Prefill
  <2>4. CASE Decode \/ \E s \in Seqs : Finish(s)
    BY Zenon, <2>4 DEF Decode, Finish
  <2>5. CASE \/ \E s \in Seqs : BeginPrefetch(s) \/ SkipIngest(s) \/ IngestToken(s)
             \/ \E b \in Blocks : PrefetchOne(b)
             \/ EndPrefetch
    BY Zenon, <2>5, SerialSteps
  <2>6. CASE Gc \/ IngestPrompt \/ StagePartial
    BY Zenon, <2>6 DEF Gc, IngestPrompt, StagePartial, EndIngest
  <2>7. CASE OnBlockFilled \/ WriteLiveBlock \/ \E s \in Seqs : BeginNotify(s) \/ AppendToken(s)
    BY Zenon, <2>7 DEF OnBlockFilled, WriteLiveBlock, BeginNotify, AppendToken, EndTurn
  <2>8. CASE Attend \/ (\E s \in Seqs : Select(s)) \/ \E b \in Blocks : EnsureResident(b)
    BY Zenon, <2>8 DEF Attend, Select, EnsureResident
  <2> QED
    BY <2>1, <2>2, <2>3, <2>4, <2>5, <2>6, <2>7, <2>8, Zenon DEF Next, Step
<1>3. Ok => NoException
  BY DEF NoException
<1> QED
  BY <1>1, <1>2, <1>3, SerialInvariant, PTL DEF Spec
=============================================================================
