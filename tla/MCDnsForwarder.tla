--------------------------- MODULE MCDnsForwarder ---------------------------
(***************************************************************************)
(* Instances of DnsForwarder for TLC.  Safety: two queries may wait, and a *)
(* third evicts one of them or takes the id of one that is gone; ids and   *)
(* questions are interchangeable.  Liveness: one slot and one id, which    *)
(* every query uses again.                                                 *)
(***************************************************************************)
EXTENDS DnsForwarder

Symmetry == Permutations(Ids) \cup Permutations(Questions)

=============================================================================
