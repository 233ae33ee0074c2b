---------------------------- MODULE MCRetriever ----------------------------
\* Two builds with as many chunks, which the start-up check cannot tell apart,
\* and one with fewer.
EXTENDS Retriever
MCHolds == <<{1, 2, 3}, {2, 3, 4}, {4, 5}>>
=============================================================================
