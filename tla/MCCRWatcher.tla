----------------------------- MODULE MCCRWatcher -----------------------------
(* Small instances of the custom resource watcher for TLC.                  *)
EXTENDS CRWatcher
=============================================================================
