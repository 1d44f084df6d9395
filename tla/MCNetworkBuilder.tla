-------------------------- MODULE MCNetworkBuilder --------------------------
(***************************************************************************)
(* Two hosts with every edge among them, loops included, and two services. *)
(***************************************************************************)
EXTENDS NetworkBuilder
=============================================================================
