--------------------------- MODULE MCNPHandshake ---------------------------
(***************************************************************************)
(* The rendezvous of commanders and servers, for TLC.                      *)
(***************************************************************************)
EXTENDS NPHandshake
=============================================================================
