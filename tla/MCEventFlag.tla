----------------------------- MODULE MCEventFlag -----------------------------
(* EventFlag for TLC. *)
EXTENDS EventFlag

=============================================================================
