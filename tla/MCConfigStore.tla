---------------------------- MODULE MCConfigStore ----------------------------
(***************************************************************************)
(* A small instance of the settings store for TLC: a first page with the   *)
(* settings of the driver, a second one with those of the node.            *)
(***************************************************************************)
EXTENDS ConfigStore
=============================================================================
