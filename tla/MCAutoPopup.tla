---------------------------- MODULE MCAutoPopup ----------------------------
(* Two checkouts whose handlers overlap, for TLC. *)
EXTENDS AutoPopup

CONSTANTS t1, t2, h1, h2
=============================================================================
