-------------------------- MODULE MCConnections --------------------------
(***************************************************************************)
(* Connections for TLC.                                                    *)
(***************************************************************************)
EXTENDS Connections, TLC

=============================================================================
