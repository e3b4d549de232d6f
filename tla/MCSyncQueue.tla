---------------------------- MODULE MCSyncQueue ----------------------------
(* SyncQueue for TLC; the configurations differ in ring, counter and data. *)
EXTENDS SyncQueue

=============================================================================
