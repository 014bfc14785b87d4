--------------------------- MODULE MCBatchWorker ----------------------------
(* Two items, of which the first may fail, and two clients.                *)
EXTENDS BatchWorker

CONSTANTS a, b, p1, p2
=============================================================================
