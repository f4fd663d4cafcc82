-------------------------- MODULE SparseAttention --------------------------
(***************************************************************************)
(* What sparse decode promises, without arena, pool or eviction: each      *)
(* decode pass adds one token to every running request and then, once for  *)
(* each of them, attends to TopK of its full blocks (to all of them when   *)
(* there are fewer) and to every token of its live block.                  *)
(***************************************************************************)
EXTENDS Integers, FiniteSets

CONSTANTS Seqs, BlockSize, TopK, MaxBatch, Prompts, Chunked

VARIABLES
    status,   \* "new", "prefill", "decode" or "done", per request
    full,     \* full blocks, per request
    part,     \* tokens of the live block, per request
    pending,  \* requests that have not attended yet in this pass
    read      \* the tokens the last attention read, as <<<<request, block>>, row>>

vars == <<status, full, part, pending, read>>

running == {s \in Seqs : status[s] = "decode"}

\* The lengths after one more token for each request of S.
NextFull(S) == [s \in Seqs |-> IF s \in S /\ part[s] + 1 = BlockSize
                               THEN full[s] + 1 ELSE full[s]]
NextPart(S) == [s \in Seqs |-> IF s \in S THEN (part[s] + 1) % BlockSize ELSE part[s]]

Init ==
    /\ status = [s \in Seqs |-> "new"]
    /\ full = [s \in Seqs |-> 0]
    /\ part = [s \in Seqs |-> 0]
    /\ pending = {}
    /\ read = {}

\* A pass that computes f full blocks and p further tokens of the prompt of s,
\* and one more token of every running request.
Prefill(s, f, p, next) ==
    /\ pending = {}
    /\ status[s] \in {"new", "prefill"}
    /\ status[s] = "new" => Cardinality(running) < MaxBatch
    /\ f >= full[s]
    /\ status' = [status EXCEPT ![s] = next]
    /\ full' = [NextFull(running) EXCEPT ![s] = f]
    /\ part' = [NextPart(running) EXCEPT ![s] = p]
    /\ UNCHANGED <<pending, read>>

Finish(s) ==
    /\ pending = {} /\ s \in running
    /\ status' = [status EXCEPT ![s] = "done"]
    /\ UNCHANGED <<full, part, pending, read>>

\* A decode pass; a batch with a request inside its first block is attended to
\* by the dense backend, which this specification says nothing of.
Decode ==
    /\ pending = {} /\ running # {}
    /\ full' = NextFull(running) /\ part' = NextPart(running)
    /\ pending' = IF \E s \in running : full'[s] = 0 THEN {} ELSE running
    /\ UNCHANGED <<status, read>>

Tokens(s, S) ==
    {<<<<s, b>>, r>> : b \in S, r \in 0 .. (BlockSize - 1)}
        \cup {<<<<s, full[s]>>, r>> : r \in 0 .. (part[s] - 1)}

Attend(s) ==
    /\ s \in pending
    /\ \E S \in SUBSET (0 .. (full[s] - 1)) :
        /\ Cardinality(S) = IF full[s] < TopK THEN full[s] ELSE TopK
        /\ read' = Tokens(s, S)
    /\ pending' = pending \ {s}
    /\ UNCHANGED <<status, full, part>>

Next ==
    \/ \E s \in Seqs, l \in Prompts : Prefill(s, l[1], l[2], "decode")
    \/ Chunked /\ \E s \in Seqs, l \in Prompts : Prefill(s, l[1], 0, "prefill")
    \/ \E s \in Seqs : Finish(s)
    \/ Decode
    \/ \E s \in Seqs : Attend(s)

\* A pass that has begun runs to its end.
Spec == Init /\ [][Next]_vars /\ WF_vars(\E s \in Seqs : Attend(s))
=============================================================================
