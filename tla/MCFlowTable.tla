----------------------------- MODULE MCFlowTable -----------------------------
(***************************************************************************)
(* Instances of FlowTable for TLC.  Readers and keys are interchangeable,  *)
(* which the safety run uses; the run of the liveness properties does not. *)
(***************************************************************************)
EXTENDS FlowTable

Symmetry == Permutations(Keys) \cup Permutations(Readers)

=============================================================================
