-------------------------- MODULE MCThumbnailCache --------------------------
(* Instances of ThumbnailCache for TLC. *)
EXTENDS ThumbnailCache, TLC

AllOperations == {"get", "evict", "insert_decrypted"}
GetAndInsert == {"get", "insert_decrypted"}
GetAndEvict == {"get", "evict"}
Symmetry == Permutations(Tasks) \cup Permutations(Files)
=============================================================================
