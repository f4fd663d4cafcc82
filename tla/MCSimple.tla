------------------------------ MODULE MCSimple ------------------------------
EXTENDS SimpleOffloadProps, TLC
CONSTANTS q1, q2, a, b, c, d
\* Two requests with a common first block.
SharedPrompt == q1 :> <<a, b>> @@ q2 :> <<a, c, d>>
=============================================================================
