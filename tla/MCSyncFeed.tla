----------------------------- MODULE MCSyncFeed -----------------------------
(* Instances of SyncFeed for TLC. *)
EXTENDS SyncFeed

CONSTANTS e1, e2, s1, s2, d1
=============================================================================
