---------------------------- MODULE OffloadCache ----------------------------
(***************************************************************************)
(* What an OffloadingManager promises (v1/kv_offload/base.py), without     *)
(* slots, lists or a policy: a bounded set of keys, each being stored or   *)
(* stored, and readers that keep a key from being evicted.                 *)
(***************************************************************************)
EXTENDS Integers, FiniteSetsExt

CONSTANTS Keys, Capacity

VARIABLES
    storing,  \* keys whose store is in flight
    stored,   \* keys that can be loaded
    readers   \* how many loads of a key are in flight

Absent == Keys \ (storing \cup stored)
Unread == {k \in stored : readers[k] = 0}

Init == storing = {} /\ stored = {} /\ readers = [k \in Keys |-> 0]

\* prepare_load and complete_load.
Read(S) == readers' = [k \in Keys |-> IF k \in S THEN readers[k] + 1 ELSE readers[k]]
Done(S) == readers' = [k \in Keys |-> IF k \in S THEN readers[k] - 1 ELSE readers[k]]

\* complete_store: the keys become readable, or are gone if the store failed.
Finish(S) == storing' = storing \ S /\ stored' \in {stored, stored \cup S}

\* prepare_store: evicts stored keys that nobody reads, and no more than it must.
Excess(S) == Max({0, Cardinality(S \cup storing \cup stored) - Capacity})

Store(S) ==
    /\ storing' = storing \cup S
    /\ \E E \in kSubset(Excess(S), Unread) : stored' = stored \ E

\* reset_cache
Reset == storing' = {} /\ stored' = {} /\ readers' = [k \in Keys |-> 0]

Next ==
    \/ /\ UNCHANGED <<storing, stored>>
       /\ \/ \E S \in SUBSET stored : Read(S)
          \/ \E S \in SUBSET (stored \ Unread) : Done(S)
    \/ /\ UNCHANGED readers
       /\ \/ \E S \in SUBSET storing : Finish(S)
          \/ \E S \in SUBSET Absent : Store(S)
    \/ Reset

Spec == Init /\ [][Next]_<<storing, stored, readers>>
=============================================================================
