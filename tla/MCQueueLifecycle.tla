-------------------------- MODULE MCQueueLifecycle --------------------------
(* QueueLifecycle for TLC: a scaled-down machine, where a page has 8 bytes, *)
(* a word 2, and requests are around every limit of the layout.             *)
EXTENDS QueueLifecycle

Ask(kind, flavor, n, sizeofT, evFlag, supplied) ==
  [kind |-> kind, flavor |-> flavor, n |-> n, sizeofT |-> sizeofT,
   evFlag |-> evFlag, supplied |-> supplied]

\* A ring that fits, in every flavor, with and without a flag.
Common == {Ask("aidl", kSynchronizedReadWrite, 4, 2, TRUE, FALSE),
           Ask("hidl", kSynchronizedReadWrite, 4, 2, TRUE, FALSE),
           Ask("hidl", kUnsynchronizedWrite, 4, 2, FALSE, FALSE)}

\* A supplied buffer that is large enough, and one that is not.
Supplied == {Ask("aidl", kUnsynchronizedWrite, 3, 2, TRUE, TRUE),
             Ask("hidl", kSynchronizedReadWrite, 3, 2, FALSE, TRUE),
             Ask("aidl", kSynchronizedReadWrite, 5, 2, FALSE, TRUE)}

\* No elements; the largest ring that can be mapped; then too large for mmap, for
\* int32_t, for the aligned size, and for size_t.
Edges == {Ask("aidl", kSynchronizedReadWrite, s[1], s[2], TRUE, FALSE) :
            s \in {<<0, 1>>, <<22, 1>>, <<30, 1>>, <<127, 1>>, <<64, 2>>}}
         \cup {Ask("hidl", kSynchronizedReadWrite, n, 1, TRUE, FALSE) : n \in {122}}

\* An index beyond the handle, a misaligned offset, an extent that mmap could not
\* be given, and a negative one.
MCChanges == {[pos |-> READPTRPOS, field |-> "fdIndex", value |-> 5],
              [pos |-> EVFLAGWORDPOS, field |-> "offset", value |-> 5],
              [pos |-> DATAPTRPOS, field |-> "extent", value |-> 31],
              [pos |-> WRITEPTRPOS, field |-> "offset", value |-> -2]}

MCSetups == Common \cup Supplied \cup Edges

=============================================================================
