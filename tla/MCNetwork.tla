----------------------------- MODULE MCNetwork -----------------------------
(***************************************************************************)
(* A small instance of the network interface for TLC.                      *)
(***************************************************************************)
EXTENDS Network, TLC

CONSTANTS g1, g2

GroupSymmetry == Permutations({g1, g2})
=============================================================================
