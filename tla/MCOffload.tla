----------------------------- MODULE MCOffload -----------------------------
(* Symmetry for the TLC run of CpuOffloadingManager.                        *)
EXTENDS CpuOffloadingProps, TLC

Symmetry == Permutations(Keys) \cup Permutations(Jobs)
=============================================================================
