------------------------------ MODULE MCSystem ------------------------------
(***************************************************************************)
(* A bounded instance of System.                                           *)
(***************************************************************************)
EXTENDS System, MCRoutingTableHandler
=============================================================================
