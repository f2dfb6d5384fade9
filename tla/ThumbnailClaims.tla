-------------------------- MODULE ThumbnailClaims ---------------------------
(***************************************************************************)
(* What the repository's documents say of the thumbnail cache and the code *)
(* does not do.                                                            *)
(***************************************************************************)
EXTENDS MCThumbnailCache

\* "File deleted/archived: remove thumbnail from disk + memory cache"
\* (SPEC.md): an eviction ends.  It holds the memory lock and waits for the
\* disk lock, get the other way round, and neither goes on.
EvictionEnds == \A t \in Tasks : pc[t] = "evict" ~> pc[t] = "idle"

\* "If another task is downloading, wait for it, then check caches again"
\* (TASK-08.md): whoever waits looks again, when no fetch fails and nobody is
\* dropped.  A task that begins to wait after the notification, or whose Notify
\* a rival has replaced in the map, is not woken by anybody.
WaitersLookAgain == \A t \in Tasks : pc[t] = "wait" ~> pc[t] = "memory"
=============================================================================
