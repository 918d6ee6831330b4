-------------------------- MODULE MCSnapshotStore --------------------------
(* SnapshotStore for TLC: ci publishes, dev reads (or publishes, too).     *)
EXTENDS SnapshotStore
CONSTANTS ci, dev
=============================================================================
