---------------------------- MODULE QuestStreams ----------------------------
(***************************************************************************)
(* The Quest tier manager with a QuestStreamPool (enable_async_prefetch):  *)
(* reloads are queued on h2d_stream and spills on d2h_stream, and the GPU  *)
(* executes them while the host goes on.                                   *)
(*                                                                         *)
(* One layer, one request, write-back, block_ordering "lru": decode passes *)
(* from the end of trim_to_working_set on, within one live block.  What a  *)
(* slot holds is the block whose KV it is.                                 *)
(***************************************************************************)
EXTENDS Integers, FiniteSets, SequencesExt

CONSTANTS
    Full,     \* full blocks of the prompt; the live block has this number
    Cap,      \* arena slots
    CpuSlots, \* rows of the layer's host pool
    TopK,     \* blocks selected per pass
    None

VARIABLES
    lru,      \* the keys of _slot_map, the next victim first
    slotOf,   \* arena slot of a block, or None
    hostOf,   \* _cpu_slots: host slot of a block, or None
    free,     \* the free list of the host pool
    selected, \* blocks the pass has selected
    todo,     \* those of them that pass 2 of ensure_resident has still to visit
    phase,
    h2d, d2h, \* copies <<source, destination>> queued on the streams
    gpu, host, \* what the slots hold
    read      \* what the last kernel has read from the arena, by block

vars == <<lru, slotOf, hostOf, free, selected, todo, phase, h2d, d2h, gpu, host, read>>

Blocks == 0 .. Full
Live == Full
Kept == Full - (Cap - 1) .. Full
Spilled == Blocks \ Kept

\* trim_to_working_set has kept the last Cap - 1 full blocks and spilled the others, with
\* synchronous copies, and write_live_block has added the live one.
Init ==
    /\ lru = [i \in 1 .. Cap |-> Full - Cap + i]
    /\ slotOf = [b \in Blocks |-> IF b \in Kept THEN b - (Full - Cap) ELSE None]
    /\ gpu = [s \in 1 .. Cap |-> Full - Cap + s]
    /\ hostOf = [b \in Blocks |-> IF b \in Spilled THEN b + 1 ELSE None]
    /\ host = [c \in 1 .. CpuSlots |-> IF c - 1 \in Spilled THEN c - 1 ELSE None]
    /\ free = [i \in 1 .. CpuSlots - Cardinality(Spilled) |-> CpuSlots + 1 - i]
    /\ selected = <<>> /\ todo = <<>> /\ phase = "select"
    /\ h2d = <<>> /\ d2h = <<>> /\ read = <<>>

\* move_to_end of the keys in q, one after the other.
Touched(q) == SelectSeq(lru, LAMBDA b : b \notin Range(q)) \o q

\* write_live_block, the selection, and pass 1 of ensure_resident.  Reading the selection
\* back (.cpu()) waits for the compute stream, so the last pass's kernel is done.
Select(q) ==
    /\ phase = "select"
    /\ selected' = q /\ todo' = q
    /\ lru' = Touched(<<Live>> \o SelectSeq(q, LAMBDA b : slotOf[b] # None))
    /\ phase' = "ensure"
    /\ UNCHANGED <<slotOf, hostOf, free, h2d, d2h, gpu, host, read>>

\* _ensure_one_async of a block that is resident.
Hit ==
    /\ phase = "ensure" /\ todo # <<>> /\ slotOf[Head(todo)] # None
    /\ lru' = Touched(<<Head(todo)>>)
    /\ todo' = Tail(todo)
    /\ UNCHANGED <<slotOf, hostOf, free, selected, phase, h2d, d2h, gpu, host, read>>

\* _ensure_one_async of a miss.  The arena is full: _spill_to_cpu queues the victim's slot
\* on d2h_stream, and the reload into the same slot goes to h2d_stream.  The host slot of
\* the reload is free at once.
Miss ==
    /\ phase = "ensure" /\ todo # <<>> /\ slotOf[Head(todo)] = None
    /\ LET b == Head(todo)
           victim == Head(lru)
           slot == slotOf[victim]
           to == Last(free)
       IN
       /\ d2h' = Append(d2h, <<slot, to>>)
       /\ h2d' = Append(h2d, <<hostOf[b], slot>>)
       /\ slotOf' = [slotOf EXCEPT ![victim] = None, ![b] = slot]
       /\ hostOf' = [hostOf EXCEPT ![victim] = to, ![b] = None]
       /\ free' = Append(Front(free), hostOf[b])
       /\ lru' = Append(Tail(lru), b)
    /\ todo' = Tail(todo)
    /\ UNCHANGED <<selected, phase, gpu, host, read>>

\* The kernel waits for the event that ensure_resident has recorded on h2d_stream.
Attend ==
    /\ phase = "ensure" /\ todo = <<>> /\ h2d = <<>>
    /\ read' = [b \in Range(selected) \cup {Live} |-> gpu[slotOf[b]]]
    /\ lru' = Touched(selected \o <<Live>>)
    /\ phase' = "select" /\ selected' = <<>>
    /\ UNCHANGED <<slotOf, hostOf, free, todo, h2d, d2h, gpu, host>>

\* h2d_stream and d2h_stream each execute their oldest copy; nothing orders the two.
ExecH2D ==
    /\ h2d # <<>>
    /\ gpu' = [gpu EXCEPT ![Head(h2d)[2]] = host[Head(h2d)[1]]]
    /\ h2d' = Tail(h2d)
    /\ UNCHANGED <<lru, slotOf, hostOf, free, selected, todo, phase, d2h, host, read>>

ExecD2H ==
    /\ d2h # <<>>
    /\ host' = [host EXCEPT ![Head(d2h)[2]] = gpu[Head(d2h)[1]]]
    /\ d2h' = Tail(d2h)
    /\ UNCHANGED <<lru, slotOf, hostOf, free, selected, todo, phase, h2d, gpu, read>>

Next ==
    \/ \E q \in Injection(1 .. TopK, Blocks \ {Live}) : Select(q)
    \/ Hit \/ Miss \/ Attend \/ ExecH2D \/ ExecD2H

Spec == Init /\ [][Next]_vars

-----------------------------------------------------------------------------
\* The kernel reads the KV of the blocks it was given, as it does without streams: "these
\* async paths actually move data and are correct (sync == async)" (async_transfer.py).
\* Fails: the next spill may overwrite the host slot of a reload before h2d_stream has read
\* it, and the copy of a victim may run after the reload has overwritten its slot.
AsyncMatchesSync == \A b \in DOMAIN read : read[b] = b
=============================================================================
