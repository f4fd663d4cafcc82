------------------------- MODULE TieringManagerProps -------------------------
(* What TieringOffloadingManager promises. *)
EXTENDS TieringManager

\* What can be loaded is right: a key that lookup offers is in its CPU slot, a load keeps
\* the slots it reads until complete_load, and a file that a promotion may read holds the
\* KV of its key.  Meanwhile promotions fail halfway, jobs end in any order, the server is
\* killed in the middle of a write, and lookups evict blocks for promotions while tiers
\* copy from others (prepare_read).
TieredKVExact ==
    /\ \A k \in stored : data[slotOf[k]] = k
    /\ \A g \in gpuJobs : ~g.store => \A b \in g.blocks : data[b[2]] = b[1]
    /\ \A t \in Tiers, k \in Keys : files[t][k] \in {None, k}

\* The promotions of a key: queued by lookup, or submitted.
Promoting(k) ==
    {q \in Tiers \X Reqs : k \in KeysOf(pending[q[1]][q[2]])}
    \cup {j \in jobs : j.promotion /\ k \in j.keys}

\* Nothing stays pinned or half-written: a reader of a CPU block is a load or a cascade in
\* flight, and a block that is being written has exactly one writer, a store of the GPU or
\* a promotion (queued by lookup, or submitted by take_events).
EveryPinHasAJob ==
    \A k \in Keys :
        /\ readers[k] = Cardinality({g \in gpuJobs : ~g.store /\ k \in KeysOf(g.blocks)})
                        + Cardinality({j \in jobs : ~j.promotion /\ k \in j.keys})
        /\ Cardinality({g \in gpuJobs : g.store /\ k \in KeysOf(g.blocks)})
              + Cardinality(Promoting(k))
           = IF k \in storing THEN 1 ELSE 0

\* lookup returns None to signal "data is being promoted, try later": while requests
\* keep the engine going, every promotion ends, with the block ready or given up.
PromotionsEnd ==
    \A k \in Keys : Promoting(k) # {} /\ HasRequests ~> Promoting(k) = {} \/ ~HasRequests
=============================================================================
