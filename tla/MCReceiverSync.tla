---------------------------- MODULE MCReceiverSync ----------------------------
(* Small instances of the receiver's sync for TLC.                          *)
EXTENDS ReceiverSync
=============================================================================
