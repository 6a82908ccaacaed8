---------------------------- MODULE MCSyncClient ----------------------------
(* The topologies of MCSync under a client that keeps to docs/sync.md.     *)
EXTENDS SyncClient, MCSync
=============================================================================
