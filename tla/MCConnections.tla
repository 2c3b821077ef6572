---------------------------- MODULE MCConnections ----------------------------
(***************************************************************************)
(* An instance of Connections for TLC.                                     *)
(***************************************************************************)
EXTENDS Connections

MCThreads == 1..2
=============================================================================
