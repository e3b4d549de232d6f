---------------------------- MODULE MCUnsyncQueue ----------------------------
(* UnsyncQueue for TLC: readers are interchangeable.                       *)
EXTENDS UnsyncQueue, TLC

ReaderSymmetry == Permutations(Readers)

=============================================================================
