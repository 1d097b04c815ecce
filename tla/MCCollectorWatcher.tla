-------------------------- MODULE MCCollectorWatcher --------------------------
(* A small instance of the collector watcher for TLC.                       *)
EXTENDS CollectorWatcher
=============================================================================
