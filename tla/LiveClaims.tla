---------------------------- MODULE LiveClaims -----------------------------
(***************************************************************************)
(* What the repository's documents say of the live helper and the code     *)
(* does not do.  The claim is refuted by one run.                          *)
(***************************************************************************)
EXTENDS MCLiveServer

\* "The durable journal replays unacknowledged work after helper restart."
\* (live.md:16): of a session that waits in the queue for an answer, a new
\* server would have something to hand out.  A session has one slot in its
\* journal and may have two requests in the queue, and any answer empties
\* the slot: the answer to a generate forgets the accept behind it.
UnacknowledgedIsDurable ==
  up => \A k \in DOMAIN queue : queue[k].id # NoId => queue[k].id \in ToRestore \cup parted
=============================================================================
