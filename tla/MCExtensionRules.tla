-------------------------- MODULE MCExtensionRules --------------------------
(***************************************************************************)
(* Instance of ExtensionRules for TLC.                                     *)
(***************************************************************************)
EXTENDS ExtensionRules, TLC

=============================================================================
