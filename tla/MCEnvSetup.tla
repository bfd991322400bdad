----------------------------- MODULE MCEnvSetup -----------------------------
(***************************************************************************)
(* Values for model checking EnvSetup.                                     *)
(***************************************************************************)
EXTENDS EnvSetup, TLC

CONSTANTS f1, f2, a, b, c1, c2

OnlyWrites  == {a, b}
AllPlans    == {a, b, NoPlan, ShowOnly, NoItem}
AllFaults   == {"read", "backup", "write", "verify"}
SafeFaults  == {"read", "backup", "write"}
NoFaults    == {}
Symmetry    == Permutations(Files) \cup Permutations(Clients) \cup Permutations(Contents)
=============================================================================
