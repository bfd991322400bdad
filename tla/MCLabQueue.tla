----------------------------- MODULE MCLabQueue -----------------------------
(* Small instances of LabQueue. *)
EXTENDS LabQueue, TLC

CONSTANTS w1, w2, x, y

Symmetry == Permutations(Threads) \cup Permutations(Topics)
=============================================================================
