--------------------------- MODULE MCModelCatalog ---------------------------
(* Small instances of ModelCatalog: one page of sections on one model. *)
EXTENDS ModelCatalog, TLC

CONSTANTS p, q, k, j, s, t, m

OnePage  == [x \in Sections |-> k]
OneModel == [x \in Sections |-> m]
Symmetry == Permutations(Procs)
=============================================================================
