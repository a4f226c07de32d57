----------------------------- MODULE MCWebServer -----------------------------
(***************************************************************************)
(* A small instance of the web server for TLC: two clients on two TCBs     *)
(* of the server.                                                          *)
(***************************************************************************)
EXTENDS WebServer, TLC

CONSTANTS c1, c2

\* One client asks for data, the other one posts.
GetAndPost == c1 :> {"json"} @@ c2 :> {"headers"}
=============================================================================
