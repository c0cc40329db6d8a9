--------------------------- MODULE MCEngineManager ---------------------------
(***************************************************************************)
(* Instance of EngineManager for TLC.                                      *)
(***************************************************************************)
EXTENDS EngineManager, TLC

=============================================================================
