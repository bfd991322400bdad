------------------------- MODULE MCBoardDiscussion -------------------------
(* Small instances of BoardDiscussion. *)
EXTENDS BoardDiscussion, TLC

CONSTANTS a, b

Symmetry == Permutations(Agents)
=============================================================================
