------------------------------- MODULE MCDmx -------------------------------
(***************************************************************************)
(* Small instances of the DMX driver for TLC.                              *)
(***************************************************************************)
EXTENDS Dmx

\* RDM and the output's style are used in different sessions.
Apart == {{"RDM"}, {"STYLE"}}
OnlyPackets == {{}}
=============================================================================
