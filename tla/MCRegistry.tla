------------------------------ MODULE MCRegistry ------------------------------
(* Registry with interchangeable hosts, connections, mappings, names and ports. *)
EXTENDS Registry, TLC

Symmetry ==
  Permutations(Nodes) \cup Permutations(Hosts) \cup Permutations(Conns) \cup Permutations(Mappings)
  \cup Permutations(Names) \cup Permutations(Ports)
=============================================================================
