--------------------------- MODULE MCBoardSession ---------------------------
(* Small instances of BoardSession. *)
EXTENDS BoardSession, TLC

CONSTANTS c1, c2

Symmetry == Permutations(Clients)
=============================================================================
