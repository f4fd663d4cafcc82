---------------------------- MODULE MCConnector ----------------------------
EXTENDS OffloadingConnectorProps, TLC

CONSTANTS q1, q2, q3, a, b, c

\* Two requests with a common first block.
SharedPrompt == q1 :> <<a, b>> @@ q2 :> <<a, c>>

\* Two equal requests and one that displaces their blocks.
ThreePrompts == q1 :> <<a, b>> @@ q2 :> <<a, b>> @@ q3 :> <<c>>

Symmetry == Permutations(GpuBlocks) \cup Permutations(CpuSlots) \cup Permutations(Workers)
=============================================================================
