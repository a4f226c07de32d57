---------------------------- MODULE MCE131Bridge ----------------------------
(***************************************************************************)
(* Small instances of the sACN bridge for TLC.                             *)
(***************************************************************************)
EXTENDS E131Bridge, TLC

CONSTANTS s1, s2, s3

\* Sources are only ever compared with each other.
Interchangeable == Permutations(Senders)
=============================================================================
