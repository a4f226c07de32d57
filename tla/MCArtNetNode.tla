---------------------------- MODULE MCArtNetNode ----------------------------
(***************************************************************************)
(* Small instances of the Art-Net node for TLC.                            *)
(***************************************************************************)
EXTENDS ArtNetNode, TLC

CONSTANTS c1, c2, c3

\* Controllers are only ever compared with each other.
Interchangeable == Permutations(Controllers)
=============================================================================
