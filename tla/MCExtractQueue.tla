--------------------------- MODULE MCExtractQueue ---------------------------
(* The queue with back-off doubling from one tick, as _BACKOFF_BASE_SECONDS
   does. *)
EXTENDS ExtractQueue, TLC
Doubling == [n \in 0..(MaxAttempts - 1) |-> IF n = 0 THEN 1 ELSE 2 ^ (n - 1)]
Symmetry == Permutations(Workers)
=============================================================================
