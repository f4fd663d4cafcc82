----------------------------- MODULE MCTiering -----------------------------
EXTENDS TieringManagerProps, TLC
CONSTANTS q1, q2, a, b, c
\* Two requests with a common first block.
SharedPrompt == q1 :> <<a, b>> @@ q2 :> <<a, c>>
=============================================================================
