----------------------------- MODULE LiveStore -----------------------------
(***************************************************************************)
(* The durable store of live sessions (live-session-store.mjs).  A journal *)
(* is a file of events per session; what anybody reads of it is its fold   *)
(* by applyEvent, so a journal is modelled by that snapshot and an append  *)
(* by the step of the fold.  Of a snapshot's fields the ones that decide   *)
(* what happens next are kept: the phase, the request that waits for the   *)
(* agent, and the revision and visible variant of the last checkpoint.     *)
(***************************************************************************)
EXTENDS Naturals

\* What the browser asks of the agent.
Requests == {"generate", "accept", "discard"}

\* What the agent, or live-complete for it, answers.
Answers == {"agent_done", "carbonize", "discarded", "complete", "agent_error"}

\* The phase that an answer leads to; carbonize is agent_done with its flag.
PhaseAfter ==
  [agent_done |-> "variants_ready", carbonize |-> "carbonize_required",
   discarded |-> "discarded", complete |-> "completed", agent_error |-> "agent_error"]

RequestPhase ==
  [generate |-> "generate_requested", accept |-> "accept_requested",
   discard |-> "discard_requested"]

\* The states of the overlay that a checkpoint carries as its phase.
BrowserPhases == {"generating", "cycling", "saving", "confirmed", "picking"}

Phases ==
  {"new", "generate_requested", "accept_requested", "discard_requested", "variants_ready",
   "carbonize_required", "discarded", "completed", "agent_error"} \cup BrowserPhases

CompletedPhases == {"completed", "discarded"}

Snapshots(Revisions, Variants) ==
  [phase : Phases, pending : Requests \cup {"none"}, revision : Revisions, visible : Variants]

BaseSnapshot == [phase |-> "new", pending |-> "none", revision |-> 0, visible |-> 0]

\* generate, accept and discard: the one slot for a pending event is
\* overwritten, whatever was in it.
Requested(s, type) == [s EXCEPT !.phase = RequestPhase[type], !.pending = type]

\* An answer empties the slot, whatever was in it.
Settled(s, answer) == [s EXCEPT !.phase = PhaseAfter[answer], !.pending = "none"]

\* A checkpoint leaves the slot alone; one that is older than the last one
\* is ignored.
Checkpointed(s, phase, revision, visible) ==
  IF revision >= s.revision
  THEN [s EXCEPT !.phase = phase, !.revision = revision, !.visible = visible]
  ELSE s

\* getSnapshot and listActiveSessions show only these.
IsActive(s) == s.phase \notin CompletedPhases

\* What live-resume tells the agent to do next.
NextAction(s) ==
  IF ~IsActive(s) THEN "nothing"
  ELSE IF s.pending # "none" THEN "poll"
  ELSE IF s.phase = "carbonize_required" THEN "carbonize"
  ELSE IF s.phase = "accept_requested" THEN "complete"
  ELSE "inspect"
=============================================================================
