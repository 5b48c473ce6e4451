--------------------------- MODULE MCRawRecorder ---------------------------
(***************************************************************************)
(* One feed thread and the main thread, a queue of two, batches of two.    *)
(***************************************************************************)
EXTENDS RawRecorder

CONSTANTS f1, main1, k1, k2

\* A redelivery next to the original, one outside the dedupe window, and
\* both.
MCWires == {<<k1, k1, k2, k1>>, <<k1, k2, k1, k1>>}
=============================================================================
