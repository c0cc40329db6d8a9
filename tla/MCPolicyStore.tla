--------------------------- MODULE MCPolicyStore ---------------------------
(***************************************************************************)
(* Instances of PolicyStore for TLC.  A host is a name and nothing else,   *)
(* so the hosts are interchangeable.                                       *)
(***************************************************************************)
EXTENDS PolicyStore, TLC

HostSymmetry == Permutations(Hosts)

=============================================================================
