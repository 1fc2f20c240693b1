--------------------------- MODULE MCAsyncMonitor ---------------------------
(* Specifications monitored in the runs of AsyncMonitor.                    *)
EXTENDS AsyncMonitor

CONSTANTS x, y, w     \* input variables

\* out 1 = x + y; out 2 = out1 + y.  x and out 2 are forwarded directly; y and
\* out 1 have two readers; w, where it is an input, has none.
MCChain == <<{x, y}, {1, y}>>
=============================================================================
