---------------------------- MODULE LiveBrowser ----------------------------
(***************************************************************************)
(* The live overlay in a browser tab (live-browser.js) with its local      *)
(* storage (live-browser-session.js).  A page runs on one thread: an       *)
(* action is an event listener, a timer or observer callback, or the       *)
(* continuation of a POST.  The helper and the agent are reduced to what   *)
(* the page can notice: POSTs are received in any order, or fail, or       *)
(* outlive the page; the agent writes a wrapper with variants for each     *)
(* generate it was sent, and removes it again after an accept or a         *)
(* discard; and hot updates bring the source to the page at some time.     *)
(*                                                                         *)
(* A wrapper is a number: 0, there is none; 1, it has the original only;   *)
(* 1 + k, it has k variants.                                               *)
(***************************************************************************)
EXTENDS Naturals, FiniteSets

CONSTANTS
  Sessions,     \* the ids that id8 makes
  None,         \* null
  Variants,     \* how many variants the user asks for
  Knobs,        \* the variants that have parameters to tune
  Places,       \* where the page can be scrolled to
  LateMount,    \* a framework mounts the wrapper after init: hydration, a closed modal
  AgentErrors,  \* the agent may reply error
  PostsFail,    \* a POST may fail, and the server may be lost
  MaxReloads,   \* reloads of the page
  MaxRevision,  \* checkpoints
  MaxDiscards   \* discards of a session in flight

ASSUME ConstantsAssumption ==
  /\ None \notin Sessions \cup Places
  /\ Places # {}
  /\ Variants \in Nat \ {0}
  /\ Knobs \subseteq 1..Variants
  /\ {LateMount, AgentErrors, PostsFail} \subseteq BOOLEAN
  /\ {MaxReloads, MaxRevision, MaxDiscards} \subseteq Nat

VARIABLES
  \* the page
  state,       \* state
  cur,         \* currentSessionId
  observer,    \* the session that variantObserver watches
  scout,       \* init's observer waits for a wrapper to resume
  live,        \* the overlay has not been torn down
  arrived,     \* arrivedVariants
  visible,     \* visibleVariant
  values,      \* the session and the variant that paramsCurrentValues are of; they
               \* outlive the session, but nothing is done with them until the next
  held,        \* scrollLockTargetY, where the page is held
  revision,    \* checkpointRevision
  checkpoint,  \* checkpointTimer is set
  confirming,  \* how many of scheduleAcceptCleanup's 1.8 s timers run
  swapping,    \* the sessions whose wrapper a 2 s timer will swap out
  capturing,   \* the sessions in captureAndEmit
  dom,         \* the wrapper of each session in the document
  \* local storage
  stored,      \* the saved session
  handled,     \* the session marked as handled
  anchor,      \* the saved scrollY
  \* the network, the helper, the agent and the source
  posts,       \* generate, accept and discard POSTs in flight
  reported,    \* the highest revision of each session's checkpoint POSTs: they arrive, or
               \* not, in any order, and the journal keeps the highest
  asked,       \* the sessions that the agent is to generate for
  decided,     \* the sessions that the agent is to accept or discard
  news,        \* SSE messages in flight
  source,      \* the wrapper of each session in the source
  \* history
  used,        \* the ids made so far
  left,        \* the sessions that the page has left
  overtaken,   \* what has happened while an accept was unanswered: the session was left,
               \* another was begun
  reloads      \* how many reloads there have been

session == <<state, cur, observer, arrived, visible>>
page    == <<scout, live, values>>
scroll  == <<held, anchor>>
timers  == <<checkpoint, confirming, swapping, capturing>>
storage == <<stored, handled>>
world   == <<asked, decided, news, source>>
history == <<used, left, overtaken, reloads>>
vars    == <<session, page, scroll, revision, timers, dom, storage, posts, reported, world, history>>

NoSession == [id |-> None, visible |-> 0, revision |-> 0]
NoValues == [id |-> None, variant |-> 0]

Init ==
  /\ state = "IDLE" /\ cur = None /\ observer = None
  /\ scout = TRUE /\ live = TRUE
  /\ arrived = 0 /\ visible = 0 /\ values = NoValues /\ revision = 0
  /\ held = None /\ anchor = None
  /\ checkpoint = FALSE /\ confirming = 0 /\ swapping = {} /\ capturing = {}
  /\ dom = [s \in Sessions |-> 0]
  /\ stored = NoSession /\ handled = None
  /\ posts = {}
  /\ reported = [s \in Sessions |-> 0]
  /\ asked = {} /\ decided = {} /\ news = {}
  /\ source = [s \in Sessions |-> 0]
  /\ used = {} /\ left = {} /\ overtaken = {} /\ reloads = 0

-----------------------------------------------------------------------------
(* Storage and checkpoints *)

\* saveSession with the session s: its revision is the page's.
Saved(s, vis, rev) == IF s = None THEN stored ELSE [id |-> s, visible |-> vis, revision |-> rev]

Larger(m, n) == IF m > n THEN m ELSE n

\* nextCheckpointRevision with saved in storage: loadSession lifts the page's
\* counter to the saved one.
NextRevision(saved) == Larger(revision + 1, saved.revision)

\* sendCheckpoint for session s: the counter moves, is saved with the session
\* in storage, whichever that is, and the POST is on its way.
SendCheckpoint(s, saved) ==
  /\ NextRevision(saved) <= MaxRevision
  /\ revision' = NextRevision(saved)
  /\ stored' = IF saved.id = None THEN saved ELSE [saved EXCEPT !.revision = NextRevision(saved)]
  /\ reported' = [reported EXCEPT ![s] = Larger(@, NextRevision(saved))]

-----------------------------------------------------------------------------
(* The user *)

\* An accept of this page waits for its answer, or for the page to hear it failed.
Unanswered == \E p \in posts : p.type = "accept" /\ p.status \in {"sent", "failed"}

Overtaken(how) == overtaken' = IF Unanswered THEN overtaken \cup {how} ELSE overtaken

\* Pick, or unpick, an element; switch the picker off and on; the first
\* message of an SSE stream.
Pick ==
  /\ \/ state = "IDLE" /\ state' = "PICKING"
     \/ state = "PICKING" /\ state' \in {"CONFIGURING", "IDLE"}
     \/ state = "CONFIGURING" /\ state' \in {"PICKING", "IDLE"}
  /\ UNCHANGED <<cur, observer, arrived, visible, page, revision, timers, dom, storage, posts,
                 reported, world, history, scroll>>

\* handleGo: a new session, its first checkpoint, and the capture of the element.
Go(s) ==
  /\ state = "CONFIGURING"
  /\ s \notin used
  /\ used' = used \cup {s}
  /\ left' = IF cur = None THEN left ELSE left \cup {cur}
  /\ state' = "GENERATING" /\ cur' = s /\ observer' = s
  /\ arrived' = 0 /\ visible' = 0
  /\ held' \in Places /\ anchor' = held'
  /\ SendCheckpoint(s, Saved(s, 0, revision))
  /\ capturing' = capturing \cup {s}
  /\ Overtaken("begun")
  /\ UNCHANGED <<page, checkpoint, confirming, swapping, dom, handled, posts, world, reloads>>

\* A gesture of the user scrolls the page: reanchor, if it is held.
Scroll ==
  /\ held # None
  /\ held' \in Places \ {held} /\ anchor' = held'
  /\ UNCHANGED <<session, page, revision, timers, dom, storage, posts, reported, world, history>>

Post(type, s, n, status) == [type |-> type, id |-> s, n |-> n, status |-> status]

\* captureAndEmit is done: the generate is sent with or without a screenshot.
Emit(s) ==
  /\ s \in capturing
  /\ capturing' = capturing \ {s}
  /\ posts' = posts \cup {Post("generate", s, 1, "sent")}
  /\ UNCHANGED <<session, page, revision, checkpoint, confirming, swapping, dom, storage, reported,
                 world, history, scroll>>

\* Variant n of session s is in document d, and declares parameters.
Tunable(s, n, d) == n \in Knobs /\ n < d[s]

\* refreshParamsPanel in state st: the defaults of the parameters of variant n
\* of session s in document d.
Refreshed(st, s, n, d) ==
  IF st = "CYCLING" /\ s # None /\ Tunable(s, n, d) THEN [id |-> s, variant |-> n] ELSE NoValues

\* Mutant: the parameters are forgotten.
ShownWithoutValues(st, s, n, d, before) == before

\* showVariantInDOM: without a wrapper nothing happens.
ShownInDOM(st, s, n, d, before) ==
  IF s # None /\ d[s] > 0 THEN Refreshed(st, s, n, d) ELSE before

\* Mutant: one variant too far.
CycleBeyond ==
  /\ state = "CYCLING"
  /\ visible' \in {v \in 1..(arrived + 1) : v = visible + 1 \/ v + 1 = visible}
  /\ stored' = Saved(cur, visible', revision)
  /\ checkpoint' = (cur # None)
  /\ values' = ShownInDOM(state, cur, visible', dom, values)
  /\ UNCHANGED <<state, cur, observer, arrived, scout, live, revision, confirming, swapping,
                 capturing, dom, handled, posts, reported, world, history, scroll>>

\* cycleVariant.
Cycle ==
  /\ state = "CYCLING"
  /\ visible' \in {v \in 1..arrived : v = visible + 1 \/ v + 1 = visible}
  /\ stored' = Saved(cur, visible', revision)
  /\ checkpoint' = (cur # None)
  /\ values' = ShownInDOM(state, cur, visible', dom, values)
  /\ UNCHANGED <<state, cur, observer, arrived, scout, live, revision, confirming, swapping,
                 capturing, dom, handled, posts, reported, world, history, scroll>>

\* A click on a dot of the bar shows variant n, and neither saves nor reports it.
Dot(n) ==
  /\ state = "CYCLING"
  /\ n <= arrived
  /\ visible' = n
  /\ values' = ShownInDOM(state, cur, n, dom, values)
  /\ UNCHANGED <<state, cur, observer, arrived, scout, live, revision, timers, dom, storage, posts,
                 reported, world, history, scroll>>

\* openTunePopover starts from the defaults again.
OpenTune ==
  /\ state = "CYCLING"
  /\ Refreshed(state, cur, visible, dom) # NoValues
  /\ values' = Refreshed(state, cur, visible, dom)
  /\ UNCHANGED <<session, scout, live, revision, timers, dom, storage, posts, reported, world,
                 history, scroll>>

\* A control of the panel.
Tune ==
  /\ state = "CYCLING"
  /\ values # NoValues
  /\ checkpoint' = (cur # None)
  /\ UNCHANGED <<session, page, revision, confirming, swapping, capturing, dom, storage, posts,
                 reported, world, history, scroll>>

\* The variant that is shown: a hot update may have brought the first one back.
Shown == IF dom[cur] > 1 THEN {visible, 1} ELSE {visible}

\* handleAccept, from Enter or the bar.
Accept ==
  /\ state = "CYCLING"
  /\ cur # None /\ arrived > 0
  /\ visible' \in Shown
  /\ state' = "SAVING"
  /\ posts' = posts \cup {Post("accept", cur, 1, "sent")}
  /\ UNCHANGED <<cur, observer, arrived, page, revision, timers, dom, storage, reported, world,
                 history, scroll>>

\* handleDiscard, from Escape or the bar: the state does not change before
\* the answer, so that it can be sent again, and an accept can.
Discard ==
  /\ state = "CYCLING"
  /\ cur # None
  /\ \E n \in 1..MaxDiscards :
       /\ \A p \in posts : p.type = "discard" /\ p.id = cur => p.n < n
       /\ posts' = posts \cup {Post("discard", cur, n, "sent")}
  /\ UNCHANGED <<session, page, revision, timers, dom, storage, reported, world, history, scroll>>

-----------------------------------------------------------------------------
(* Continuations and timers *)

\* The current session is over.
Leave ==
  /\ observer' = None /\ cur' = None /\ state' = "PICKING"
  /\ held' = None /\ anchor' = None
  /\ values' = NoValues
  /\ stored' = NoSession
  /\ left' = IF cur = None THEN left ELSE left \cup {cur}
  /\ Overtaken("left")

\* The accept has been received: the session is handled, and a timer will
\* leave it.
AcceptConfirmed(p) ==
  /\ p \in posts /\ p.type = "accept" /\ p.status = "ok"
  /\ posts' = posts \ {p}
  /\ handled' = IF cur = None THEN handled ELSE cur
  /\ state' = "CONFIRMED"
  /\ confirming' = confirming + 1
  /\ swapping' = swapping \cup {p.id}
  /\ UNCHANGED <<cur, observer, arrived, visible, page, revision, checkpoint, capturing, dom,
                 stored, reported, world, history, scroll>>

\* Mutant: a failed accept leaves the overlay saving.
AcceptFailsSilently(p) ==
  /\ p \in posts /\ p.type = "accept" /\ p.status = "failed"
  /\ posts' = posts \ {p}
  /\ UNCHANGED <<session, page, revision, timers, dom, storage, reported, world, history, scroll>>

AcceptFails(p) ==
  /\ p \in posts /\ p.type = "accept" /\ p.status = "failed"
  /\ posts' = posts \ {p}
  /\ state' = "CYCLING"
  /\ UNCHANGED <<cur, observer, arrived, visible, page, revision, timers, dom, storage, reported,
                 world, history, scroll>>

\* The 1.8 s timer of an accept.
ConfirmTimer ==
  /\ confirming > 0
  /\ confirming' = confirming - 1
  /\ Leave
  /\ UNCHANGED <<arrived, visible, scout, live, revision, checkpoint, swapping, capturing, dom,
                 handled, posts, reported, world, used, reloads>>

\* Mutant: cleanup leaves the observer running.
DiscardKeepsObserver(p) ==
  /\ p \in posts /\ p.type = "discard" /\ p.status = "ok"
  /\ posts' = posts \ {p}
  /\ handled' = IF cur = None THEN handled ELSE cur
  /\ swapping' = IF cur = None THEN swapping ELSE swapping \cup {cur}
  /\ cur' = None /\ state' = "PICKING"
  /\ held' = None /\ anchor' = None
  /\ stored' = NoSession
  /\ left' = IF cur = None THEN left ELSE left \cup {cur}
  /\ Overtaken("left")
  /\ UNCHANGED <<observer, arrived, visible, page, revision, checkpoint, confirming, capturing, dom,
                 reported, world, used, reloads>>

\* The discard has been received: whatever session is current now is marked
\* and cleaned up.
DiscardConfirmed(p) ==
  /\ p \in posts /\ p.type = "discard" /\ p.status = "ok"
  /\ posts' = posts \ {p}
  /\ handled' = IF cur = None THEN handled ELSE cur
  /\ swapping' = IF cur = None THEN swapping ELSE swapping \cup {cur}
  /\ Leave
  /\ UNCHANGED <<arrived, visible, scout, live, revision, checkpoint, confirming, capturing, dom,
                 reported, world, used, reloads>>

\* The 120 ms timer of queueCheckpoint: it reports the session that is
\* current when it fires.
CheckpointTimer ==
  /\ checkpoint
  /\ checkpoint' = FALSE
  /\ IF cur = None THEN UNCHANGED <<revision, stored, reported>> ELSE SendCheckpoint(cur, stored)
  /\ UNCHANGED <<session, page, confirming, swapping, capturing, dom, handled, posts, world,
                 history, scroll>>

-----------------------------------------------------------------------------
(* The document *)

\* The variant of the saved session, if it is session s and has that one.
SavedVisible(s, n) ==
  IF stored.id = s /\ stored.visible \in 1..n THEN stored.visible ELSE IF n > 0 THEN 1 ELSE 0

\* Mutant: the page is held where it happens to be.
HeldAnywhere == held' \in Places /\ UNCHANGED anchor

\* startScrollLock of a session that is resumed: at the saved place, or else
\* where the page is.
HeldAgain ==
  /\ held' \in (IF anchor = None THEN Places ELSE {anchor})
  /\ UNCHANGED anchor

\* Mutant: the counter is not lifted to the one in storage.
ResumedAtRevision(s, d, rev, before) ==
  /\ cur' = s /\ observer' = s
  /\ arrived' = d[s] - 1
  /\ visible' = SavedVisible(s, arrived')
  /\ state' = IF arrived' >= Variants THEN "CYCLING" ELSE "GENERATING"
  /\ values' = IF arrived' = 0 THEN before ELSE Refreshed(state', s, visible', d)
  /\ HeldAgain
  /\ revision' = rev
  /\ stored' = Saved(s, visible', revision')
  /\ checkpoint' = TRUE
  /\ left' = IF cur \in {None, s} THEN left ELSE left \cup {cur}

\* Mutant: nobody watches for the variants that are still to come.
ResumedUnobserved(s, d, rev, before) ==
  /\ cur' = s /\ observer' = None
  /\ arrived' = d[s] - 1
  /\ visible' = SavedVisible(s, arrived')
  /\ state' = IF arrived' >= Variants THEN "CYCLING" ELSE "GENERATING"
  /\ values' = IF arrived' = 0 THEN before ELSE Refreshed(state', s, visible', d)
  /\ HeldAgain
  /\ revision' = Larger(rev, stored.revision)
  /\ stored' = Saved(s, visible', revision')
  /\ checkpoint' = TRUE
  /\ left' = IF cur \in {None, s} THEN left ELSE left \cup {cur}

\* resumeSession with the wrapper of session s in the document d, in a page
\* whose counter is at rev.
Resumed(s, d, rev, before) ==
  /\ cur' = s /\ observer' = s
  /\ arrived' = d[s] - 1
  /\ visible' = SavedVisible(s, arrived')
  /\ state' = IF arrived' >= Variants THEN "CYCLING" ELSE "GENERATING"
  /\ values' = IF arrived' = 0 THEN before ELSE Refreshed(state', s, visible', d)
  /\ HeldAgain
  /\ revision' = Larger(rev, stored.revision)
  /\ stored' = Saved(s, visible', revision')
  /\ checkpoint' = TRUE
  /\ left' = IF cur \in {None, s} THEN left ELSE left \cup {cur}

\* The variant observer finds more variants than it has seen.
MoreVariants(d) ==
  IF observer = None THEN FALSE ELSE d[observer] > 0 /\ d[observer] - 1 > arrived

\* Mutant: the first variants are not shown.
ObservedUnshown(d) ==
  IF MoreVariants(d)
  THEN /\ arrived' = d[observer] - 1
       /\ visible' = visible
       /\ state' = IF arrived' >= Variants THEN "CYCLING" ELSE state
       /\ values' = IF arrived' >= Variants THEN Refreshed(state', cur, visible', d)
                    ELSE IF visible = 0 THEN ShownInDOM(state, cur, visible', d, values)
                    ELSE values
       /\ stored' = Saved(cur, visible', revision)
       /\ checkpoint' = (cur # None)
       /\ UNCHANGED <<cur, observer, scroll, revision, left>>
  ELSE UNCHANGED <<session, values, scroll, revision, stored, checkpoint, left>>

\* startVariantObserver's callback: the last variant turns any state into
\* CYCLING.
Observed(d) ==
  IF MoreVariants(d)
  THEN /\ arrived' = d[observer] - 1
       /\ visible' = IF visible = 0 THEN SavedVisible(observer, arrived') ELSE visible
       /\ state' = IF arrived' >= Variants THEN "CYCLING" ELSE state
       /\ values' = IF arrived' >= Variants THEN Refreshed(state', cur, visible', d)
                    ELSE IF visible = 0 THEN ShownInDOM(state, cur, visible', d, values)
                    ELSE values
       /\ stored' = Saved(cur, visible', revision)
       /\ checkpoint' = (cur # None)
       /\ UNCHANGED <<cur, observer, scroll, revision, left>>
  ELSE UNCHANGED <<session, values, scroll, revision, stored, checkpoint, left>>

\* The document becomes d.  The scout is the older observer and runs first;
\* it retires at the first wrapper, resumed or not.
DocumentBecomes(d) ==
  /\ dom' = d
  /\ IF live /\ scout /\ \E s \in Sessions : d[s] > 0
     THEN /\ scout' = FALSE
          /\ \E s \in Sessions :
               /\ d[s] > 0
               /\ IF handled = s THEN Observed(d) ELSE Resumed(s, d, revision, values)
     ELSE Observed(d) /\ UNCHANGED scout
  /\ UNCHANGED live

\* A hot update, or the framework mounts the wrapper of session s.
HotUpdate(s) ==
  /\ dom[s] # source[s]
  /\ DocumentBecomes([dom EXCEPT ![s] = source[s]])
  /\ UNCHANGED <<confirming, swapping, capturing, handled, posts, reported, world, used, overtaken,
                 reloads>>

\* The 2 s timers of handleAccept and cleanup swap out a wrapper that no hot
\* update has removed.
SwapTimer(s) ==
  /\ s \in swapping
  /\ swapping' = swapping \ {s}
  /\ DocumentBecomes([dom EXCEPT ![s] = 0])
  /\ UNCHANGED <<confirming, capturing, handled, posts, reported, world, used, overtaken, reloads>>

\* A document after a reload: what the source says, or nothing yet.
FreshDocuments == {source} \cup (IF LateMount THEN {[s \in Sessions |-> 0]} ELSE {})

\* The page is loaded again, and init looks for a session to resume.  What
\* was sent may still arrive, with nobody to hear the answer, and what the
\* helper broadcast is lost.
Reload ==
  /\ reloads < MaxReloads
  /\ reloads' = reloads + 1
  /\ live' = TRUE
  /\ confirming' = 0 /\ swapping' = {} /\ capturing' = {}
  /\ posts' = {[p EXCEPT !.status = "orphan"] : p \in {q \in posts : q.status \in {"sent", "orphan"}}}
  /\ dom' \in FreshDocuments
  /\ \/ \* No wrapper: storage is cleared.
        /\ \A s \in Sessions : dom'[s] = 0
        /\ scout' = TRUE
        /\ state' = "IDLE" /\ cur' = None /\ observer' = None /\ arrived' = 0 /\ visible' = 0
        /\ values' = NoValues /\ held' = None /\ revision' = 0 /\ checkpoint' = FALSE
        /\ UNCHANGED anchor
        /\ stored' = NoSession /\ handled' = None
        /\ left' = IF cur = None THEN left ELSE left \cup {cur}
     \/ \E s \in Sessions :
          /\ dom'[s] > 0
          /\ IF handled = s
             THEN /\ scout' = TRUE
                  /\ state' = "IDLE" /\ cur' = None /\ observer' = None /\ arrived' = 0 /\ visible' = 0
                  /\ values' = NoValues /\ held' = None /\ revision' = 0 /\ checkpoint' = FALSE
                  /\ left' = IF cur = None THEN left ELSE left \cup {cur}
                  /\ UNCHANGED <<stored, anchor>>
             ELSE scout' = FALSE /\ Resumed(s, dom', 0, NoValues)
          /\ UNCHANGED handled
  /\ news' = {}
  /\ overtaken' = {}
  /\ UNCHANGED <<reported, asked, decided, source, used>>

\* The exit button: cleanup, and nothing listens any more.
Teardown ==
  /\ live' = FALSE
  /\ swapping' = IF cur = None THEN swapping ELSE swapping \cup {cur}
  /\ observer' = None /\ cur' = None /\ state' = "IDLE"
  /\ held' = None /\ anchor' = None
  /\ values' = NoValues
  /\ stored' = NoSession
  /\ left' = IF cur = None THEN left ELSE left \cup {cur}
  /\ news' = {"closed"}
  /\ UNCHANGED <<arrived, visible, scout, revision, checkpoint, confirming, capturing, dom, handled,
                 posts, reported, asked, decided, source, used, overtaken, reloads>>

-----------------------------------------------------------------------------
(* The network, the helper and the agent *)

\* The answer to p, if the page still waits for it and does something when it
\* comes: nothing when a generate is received or not, a toast when a discard
\* fails.
Answered(p, status) ==
  IF \/ p.status = "orphan" \/ p.type = "generate"
     \/ p.type = "discard" /\ status = "failed"
  THEN {} ELSE {[p EXCEPT !.status = status]}

\* The helper receives a POST: the agent will hear of it.  The answer is ok,
\* or gets lost.
Receive(p) ==
  /\ p \in posts /\ p.status \in {"sent", "orphan"}
  /\ asked' = IF p.type = "generate" THEN asked \cup {p.id} ELSE asked
  /\ decided' = IF p.type = "generate" THEN decided ELSE decided \cup {p.id}
  /\ \E status \in {"ok"} \cup (IF PostsFail THEN {"failed"} ELSE {}) :
       posts' = (posts \ {p}) \cup Answered(p, status)
  /\ UNCHANGED <<session, page, revision, timers, dom, storage, reported, news, source, history,
                 scroll>>

\* The helper refuses a POST, or cannot be reached.
Refuse(p) ==
  /\ PostsFail
  /\ p \in posts /\ p.status = "sent"
  /\ posts' = (posts \ {p}) \cup Answered(p, "failed")
  /\ UNCHANGED <<session, page, revision, timers, dom, storage, reported, world, history, scroll>>

\* The agent wraps the element, or adds a variant.
Write(s) ==
  /\ s \in asked
  /\ source[s] < 1 + Variants
  /\ source' = [source EXCEPT ![s] = @ + 1]
  /\ UNCHANGED <<session, page, revision, timers, dom, storage, posts, reported, asked, decided,
                 news, history, scroll>>

\* What reaches the page of a broadcast, if its stream is open.
Broadcast(message) == news' = IF "closed" \in news THEN news ELSE news \cup {message}

\* It replies done or error.
Answer(s) ==
  /\ s \in asked
  /\ asked' = asked \ {s}
  /\ \/ source[s] = 1 + Variants /\ Broadcast("done")
     \/ AgentErrors /\ Broadcast("error")
  /\ UNCHANGED <<session, page, revision, timers, dom, storage, posts, reported, decided, source,
                 history, scroll>>

\* live-accept removes the wrapper.
Splice(s) ==
  /\ s \in decided \ asked
  /\ decided' = decided \ {s}
  /\ source' = [source EXCEPT ![s] = 0]
  /\ UNCHANGED <<session, page, revision, timers, dom, storage, posts, reported, asked, news,
                 history, scroll>>

\* SSE done: it names a session, which the page does not look at.
DoneArrives ==
  /\ "done" \in news
  /\ news' = news \ {"done"}
  /\ state' = IF state = "GENERATING" /\ arrived >= Variants THEN "CYCLING" ELSE state
  /\ values' = IF state' = state THEN values ELSE Refreshed(state', cur, visible, dom)
  /\ UNCHANGED <<cur, observer, arrived, visible, scout, live, revision, timers, dom, storage,
                 posts, reported, asked, decided, source, history, scroll>>

\* SSE error: it too is taken for the current session, which stays current.
ErrorArrives ==
  /\ "error" \in news
  /\ news' = news \ {"error"}
  /\ state' = "PICKING"
  /\ UNCHANGED <<cur, observer, arrived, visible, page, revision, timers, dom, storage, posts,
                 reported, asked, decided, source, history, scroll>>

\* Mutant: the session ends with the stream.
ServerLostForgets ==
  /\ PostsFail /\ "closed" \notin news
  /\ news' = {"closed"}
  /\ observer' = None /\ cur' = None /\ held' = None
  /\ state' = IF cur = None THEN "IDLE" ELSE state
  /\ stored' = Saved(cur, visible, revision)
  /\ UNCHANGED <<arrived, visible, page, anchor, revision, timers, dom, handled, posts, reported,
                 asked, decided, source, history>>

\* Twenty retries of the stream have failed.
ServerLost ==
  /\ PostsFail /\ "closed" \notin news
  /\ news' = {"closed"}
  /\ observer' = None /\ held' = None
  /\ state' = IF cur = None THEN "IDLE" ELSE state
  /\ stored' = Saved(cur, visible, revision)
  /\ UNCHANGED <<cur, arrived, visible, page, anchor, revision, timers, dom, handled, posts,
                 reported, asked, decided, source, history>>

-----------------------------------------------------------------------------
\* The exit button removes the listeners and closes the stream, but neither
\* timers nor continuations.
Listeners ==
  /\ live
  /\ \/ Pick \/ Scroll \/ Cycle \/ OpenTune \/ Tune \/ Accept \/ Discard \/ Teardown
     \/ \E s \in Sessions : Go(s)
     \/ \E n \in 1..Variants : Dot(n)
     \/ DoneArrives \/ ErrorArrives \/ ServerLost

Continuations ==
  \/ \E s \in Sessions : Emit(s)
  \/ \E p \in posts : AcceptConfirmed(p) \/ AcceptFails(p) \/ DiscardConfirmed(p)
  \/ CheckpointTimer \/ ConfirmTimer

Document == \E s \in Sessions : HotUpdate(s) \/ SwapTimer(s)

Outside ==
  \/ \E p \in posts : Receive(p) \/ Refuse(p)
  \/ \E s \in Sessions : Write(s) \/ Answer(s) \/ Splice(s)

Next == Listeners \/ Continuations \/ Document \/ Reload \/ Outside

Spec == Init /\ [][Next]_vars

\* What an accept waits for: its POST is answered in the end, the continuation
\* runs, the timer fires.
Accepting ==
  \/ ConfirmTimer
  \/ \E p \in posts :
       \/ AcceptConfirmed(p)
       \/ AcceptFails(p)
       \/ p.type = "accept" /\ (Receive(p) \/ Refuse(p))

\* The dev server updates the page.
Updating == \E s \in Sessions : HotUpdate(s)

Working == WF_vars(Accepting) /\ WF_vars(Updating)

WorkingSpec == Spec /\ Working

-----------------------------------------------------------------------------
(* Properties *)

Wrappers == [Sessions -> 0..(1 + Variants)]

Posts ==
  [type : {"generate", "accept", "discard"}, id : Sessions, n : 1..(MaxDiscards + 1),
   status : {"sent", "ok", "failed", "orphan"}]

TypeOK ==
  /\ state \in {"IDLE", "PICKING", "CONFIGURING", "GENERATING", "CYCLING", "SAVING", "CONFIRMED"}
  /\ cur \in Sessions \cup {None} /\ observer \in Sessions \cup {None}
  /\ scout \in BOOLEAN /\ live \in BOOLEAN
  /\ arrived \in 0..Variants /\ visible \in 0..Variants
  /\ values \in [id : Sessions \cup {None}, variant : 0..Variants]
  /\ held \in Places \cup {None} /\ anchor \in Places \cup {None}
  /\ revision \in 0..MaxRevision
  /\ checkpoint \in BOOLEAN /\ confirming \in Nat
  /\ swapping \subseteq Sessions /\ capturing \subseteq Sessions
  /\ dom \in Wrappers /\ source \in Wrappers
  /\ stored \in [id : Sessions \cup {None}, visible : 0..Variants, revision : 0..MaxRevision]
  /\ handled \in Sessions \cup {None}
  /\ posts \subseteq Posts
  /\ reported \in [Sessions -> 0..MaxRevision]
  /\ asked \subseteq Sessions /\ decided \subseteq Sessions
  /\ news \subseteq {"done", "error", "closed"}
  /\ used \subseteq Sessions /\ left \subseteq Sessions
  /\ overtaken \subseteq {"left", "begun"} /\ reloads \in 0..MaxReloads

\* The observer and the scroll lock follow the session: late variants of a
\* session that is over cannot pull the overlay back, the page is let go when
\* nobody watches any more, and while it is held it is held where a reload
\* would hold it again.
ObserverFollowsSession ==
  /\ observer \in {None, cur}
  /\ held # None <=> observer # None
  /\ held # None => anchor \in {None, held}

\* A state that has the buttons of a session has a session, unless a timer or
\* a discard has left the session of an accept that was still unanswered.
ActiveHasSession ==
  live /\ state \in {"GENERATING", "CYCLING", "SAVING"} => cur # None \/ "left" \in overtaken

\* What the journal may hear of a session does not outrun the page, also after
\* a reload: none of its checkpoints will be ignored as stale.  A session that
\* the page has left before is the exception.
CheckpointsFresh == cur # None /\ cur \notin left => reported[cur] <= revision

\* The variant that an accept would name is there, unless a session was begun
\* before the accept of an earlier one was answered.
ShownVariantExists == state = "CYCLING" => visible \in 1..arrived \/ "begun" \in overtaken

\* Whenever another variant comes on show, or the overlay begins to cycle,
\* the values of the panel are those of the variant that is there to be
\* accepted: after a resume, a hot update, a late variant.  The way back from
\* a failed accept is the exception: an accept may have changed the variant
\* to the one in the document, and it has not refreshed the values.
ValuesFollowVariant ==
  [][state' = "CYCLING" /\ cur' # None /\ (\A p \in posts \ posts' : p.type # "accept")
       /\ <<state, cur, visible>>' # <<state, cur, visible>>
       /\ visible' \in Knobs /\ visible' < dom'[cur']
     => values' = [id |-> cur', variant |-> visible']]_vars

\* An accept ends: the overlay can be used again, whether the POST is
\* answered, fails, or outlives the page.
DecisionEnds == state \in {"SAVING", "CONFIRMED"} ~> state \notin {"SAVING", "CONFIRMED"} \/ ~live

\* Variants that are all in the source are shown, also when done is lost, the
\* page reloads or the hot updates come in pieces, unless the page has lost
\* the server.
VariantsAreShown ==
  \A s \in Sessions :
    state = "GENERATING" /\ cur = s /\ source[s] = 1 + Variants ~>
      state # "GENERATING" \/ "closed" \in news
=============================================================================
