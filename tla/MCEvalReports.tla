--------------------------- MODULE MCEvalReports ---------------------------
\* Two contents with as many chunks, so that the collection's check cannot tell
\* one from the other.
EXTENDS EvalReports
MCRows == <<3, 3>>
=============================================================================
