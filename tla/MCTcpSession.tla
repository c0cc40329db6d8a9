---------------------------- MODULE MCTcpSession ----------------------------
(***************************************************************************)
(* Instances of TcpSession for TLC.  The initial sequence numbers sit just *)
(* below the wrap, so that both streams cross it.                          *)
(***************************************************************************)
EXTENDS TcpSession

=============================================================================
