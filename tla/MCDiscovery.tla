----------------------------- MODULE MCDiscovery -----------------------------
(* A small instance of the discovery path for TLC.                          *)
EXTENDS Discovery
=============================================================================
