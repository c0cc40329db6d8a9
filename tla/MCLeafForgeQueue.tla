-------------------------- MODULE MCLeafForgeQueue --------------------------
(***************************************************************************)
(* Instance of LeafForgeQueue for TLC: four handshakes, three names.       *)
(***************************************************************************)
EXTENDS LeafForgeQueue

=============================================================================
