---------------------------- MODULE MCInterfaces ---------------------------
(***************************************************************************)
(* Interfaces for TLC; its constants are given in the configuration.       *)
(***************************************************************************)
EXTENDS Interfaces
=============================================================================
