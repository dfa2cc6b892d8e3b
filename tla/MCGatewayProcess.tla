-------------------------- MODULE MCGatewayProcess --------------------------
(***************************************************************************)
(* Small instances of GatewayProcess for TLC.                              *)
(***************************************************************************)
EXTENDS MCSipTransactions, GatewayProcess
=============================================================================
