------------------------------ MODULE MCNode -------------------------------
(***************************************************************************)
(* Small instances of the node with both its receivers for TLC.            *)
(***************************************************************************)
EXTENDS Node

CONSTANTS c1, c2, s1, s2
=============================================================================
