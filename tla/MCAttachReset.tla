---------------------------- MODULE MCAttachReset ----------------------------
(* AttachReset for TLC. *)
EXTENDS AttachReset

=============================================================================
