------------------------------- MODULE MCPorts -------------------------------
(* Small instances of Ports. *)
EXTENDS Ports, TLC

CONSTANTS shop, blog, pid1, pid2, t1, t2, a, b

Symmetry == Permutations(Tabs) \cup Permutations(Projects) \cup Permutations(Pids)
              \cup Permutations(PortNumbers)
=============================================================================
