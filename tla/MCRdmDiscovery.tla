--------------------------- MODULE MCRdmDiscovery ---------------------------
(***************************************************************************)
(* A small instance of RDM discovery for TLC: UIDs of three bits.          *)
(***************************************************************************)
EXTENDS RdmDiscovery
=============================================================================
