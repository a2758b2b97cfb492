--------------------------- MODULE MCOfflineQueue ---------------------------
(* Small instances of OfflineQueue.  Ids and flushes are interchangeable. *)
EXTENDS OfflineQueue, TLC

Symmetry == Permutations(Items) \cup Permutations(Flushes)
=============================================================================
