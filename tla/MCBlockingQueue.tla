--------------------------- MODULE MCBlockingQueue ---------------------------
(* BlockingQueue for TLC.                                                  *)
EXTENDS BlockingQueue

=============================================================================
