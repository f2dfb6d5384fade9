------------------------- MODULE LiveBrowser_proofs -------------------------
(***************************************************************************)
(* The overlay's observer and scroll lock follow the session, its          *)
(* checkpoints stay fresh, a state with the buttons of a session has one,  *)
(* the variant that is shown is there and the values of the panel are      *)
(* that variant's: for any number of sessions, variants, reloads and       *)
(* checkpoints, sessions that follow each other while timers and answers   *)
(* of earlier ones are still under way.                                    *)
(*                                                                         *)
(* The counter of a page starts at 0 after a reload and is lifted to the   *)
(* one in storage.  That is enough because storage always holds the        *)
(* current session, with a counter not behind what was reported for it,    *)
(* and nothing was reported for a session the page has never had.          *)
(*                                                                         *)
(* An accept that fails brings the overlay back to cycling whatever it has *)
(* come to meanwhile: that there is a session and a variant to come back   *)
(* to needs an invariant of the accepts that are unanswered, and this one  *)
(* needs that a session is only resumed when there is none: by a reload,   *)
(* or by init's observer, before anything has arrived.                     *)
(***************************************************************************)
EXTENDS LiveBrowser, TLAPS

\* What storage holds is a record whose counter is a number.
StoredRecord ==
  /\ stored = [id |-> stored.id, visible |-> stored.visible, revision |-> stored.revision]
  /\ stored.revision \in Nat

\* The counters.
Counters == revision \in Nat /\ reported \in [Sessions -> Nat] /\ cur \in Sessions \cup {None}

\* Storage holds the current session, and is not behind.
StoredFollows ==
  cur # None => stored.id = cur /\ (cur \notin left => reported[cur] <= stored.revision)

\* Nothing was reported for a session that the page has never had.
OnlyKnownReported == \A s \in Sessions : reported[s] = 0 \/ s = cur \/ s \in left

Inv ==
  ObserverFollowsSession /\ CheckpointsFresh
    /\ StoredRecord /\ Counters /\ StoredFollows /\ OnlyKnownReported

LEMMA LargerFacts ==
  ASSUME NEW m \in Nat, NEW n \in Nat
  PROVE  Larger(m, n) \in Nat /\ Larger(m, n) >= m /\ Larger(m, n) >= n
                /\ (Larger(m, n) = m \/ Larger(m, n) = n)
BY DEF Larger

\* saveSession keeps what is in storage if there is no session.
LEMMA SavedFacts ==
  ASSUME StoredRecord, NEW s, NEW v, NEW r \in Nat
  PROVE  /\ Saved(s, v, r)
              = [id |-> Saved(s, v, r).id, visible |-> Saved(s, v, r).visible,
                 revision |-> Saved(s, v, r).revision]
         /\ Saved(s, v, r).revision \in Nat
         /\ s # None => Saved(s, v, r).id = s /\ Saved(s, v, r).revision = r
         /\ s = None => Saved(s, v, r) = stored
<1>1. CASE s = None
  BY <1>1 DEF Saved, StoredRecord
<1>2. CASE s # None
  <2>1. Saved(s, v, r) = [id |-> s, visible |-> v, revision |-> r]
    BY <1>2 DEF Saved
  <2> QED BY <1>2, <2>1
<1> QED BY <1>1, <1>2

LEMMA InitInv == Init => Inv
<1> SUFFICES ASSUME Init PROVE Inv
  OBVIOUS
<1>1. StoredRecord
  BY DEF Init, NoSession, StoredRecord
<1>2. Counters /\ StoredFollows /\ OnlyKnownReported /\ CheckpointsFresh /\ ObserverFollowsSession
  BY DEF Init, Counters, StoredFollows, OnlyKnownReported, CheckpointsFresh, ObserverFollowsSession
<1> QED BY <1>1, <1>2 DEF Inv

-----------------------------------------------------------------------------
(* What the steps do to the session *)

\* Nothing.
LEMMA QuietStep ==
  ASSUME Inv, UNCHANGED <<cur, observer, held, anchor, revision, reported, stored, left>>
  PROVE  Inv'
BY DEF Inv, ObserverFollowsSession, CheckpointsFresh, StoredRecord, Counters, StoredFollows,
       OnlyKnownReported

\* They save it again; an observer that stops lets the page go.
LEMMA SaveStep ==
  ASSUME Inv, NEW v, stored' = Saved(cur, v, revision), UNCHANGED <<cur, anchor, revision, reported, left>>,
         UNCHANGED <<observer, held>> \/ (observer' = None /\ held' = None)
  PROVE  Inv'
<1>1. revision \in Nat /\ StoredRecord
  BY DEF Inv, Counters
<1>2. StoredRecord'
  BY <1>1, SavedFacts DEF StoredRecord
<1>3. StoredFollows'
  BY <1>1, SavedFacts DEF Inv, StoredFollows, CheckpointsFresh
<1>4. ObserverFollowsSession'
  BY DEF Inv, ObserverFollowsSession
<1> QED BY <1>2, <1>3, <1>4 DEF Inv, CheckpointsFresh, Counters, OnlyKnownReported

\* They end it.
LEMMA EndStep ==
  ASSUME Inv, cur' = None, observer' = None, held' = None,
         stored' = NoSession \/ stored' = stored,
         left' = IF cur = None THEN left ELSE left \cup {cur},
         revision' \in Nat, reported' = reported
  PROVE  Inv'
<1>1. StoredRecord'
  BY DEF Inv, StoredRecord, NoSession
<1>2. OnlyKnownReported'
  BY DEF Inv, OnlyKnownReported, Counters
<1>3. ObserverFollowsSession'
  BY DEF ObserverFollowsSession
<1> QED BY <1>1, <1>2, <1>3 DEF Inv, CheckpointsFresh, Counters, StoredFollows

\* They resume session s, in a page whose counter is at rev.
LEMMA ResumedStep ==
  ASSUME Inv, NEW s \in Sessions, NEW d, NEW rev \in Nat, NEW before,
         rev = revision \/ rev = 0,
         Resumed(s, d, rev, before), reported' = reported
  PROVE  Inv'
<1>1. revision \in Nat /\ StoredRecord /\ stored.revision \in Nat /\ s # None
  BY ConstantsAssumption DEF Inv, Counters, StoredRecord
<1>2. /\ revision' = Larger(rev, stored.revision) /\ revision' \in Nat
      /\ rev <= revision' /\ stored.revision <= revision'
  BY <1>1, LargerFacts DEF Resumed
<1>3. cur' = s /\ observer' = s /\ stored' = Saved(s, visible', revision')
      /\ left' = IF cur \in {None, s} THEN left ELSE left \cup {cur}
  BY DEF Resumed
<1>4. StoredRecord' /\ stored'.id = s /\ stored'.revision = revision'
  BY <1>1, <1>2, <1>3, SavedFacts DEF StoredRecord
<1>5. s \notin left' => reported[s] <= revision'
  <2>1. CASE s = cur
    BY <1>1, <1>2, <1>3, <2>1 DEF Inv, StoredFollows, Counters
  <2>2. CASE s # cur
    BY <1>2, <1>3, <2>2 DEF Inv, OnlyKnownReported
  <2> QED BY <2>1, <2>2
<1>6. CheckpointsFresh' /\ StoredFollows' /\ Counters'
  BY <1>2, <1>3, <1>4, <1>5 DEF Inv, CheckpointsFresh, StoredFollows, Counters
<1>7. OnlyKnownReported'
  BY <1>3, ConstantsAssumption DEF Inv, OnlyKnownReported
<1>8. ObserverFollowsSession'
  <2>1. held' # None /\ anchor' = anchor /\ anchor' \in {None, held'}
    BY ConstantsAssumption DEF Resumed, HeldAgain
  <2> QED BY <1>1, <1>3, <2>1 DEF ObserverFollowsSession
<1> QED BY <1>4, <1>6, <1>7, <1>8 DEF Inv

\* They report session s from what is in storage then.
LEMMA ReportStep ==
  ASSUME Inv, NEW s \in Sessions, NEW saved, SendCheckpoint(s, saved),
         saved = [id |-> saved.id, visible |-> saved.visible, revision |-> saved.revision],
         saved.revision \in Nat, saved.id = s
  PROVE  /\ StoredRecord' /\ stored'.id = s /\ stored'.revision = revision'
         /\ revision' \in Nat /\ revision <= revision'
         /\ reported' \in [Sessions -> Nat]
         /\ (s \notin left => reported'[s] <= revision')
         /\ \A t \in Sessions : t # s => reported'[t] = reported[t]
<1>1. revision \in Nat /\ reported \in [Sessions -> Nat] /\ s # None
  BY ConstantsAssumption DEF Inv, Counters
<1> DEFINE n == NextRevision(saved)
<1>2. n \in Nat /\ revision <= n
  BY <1>1, LargerFacts DEF NextRevision
<1>3. revision' = n /\ reported' = [reported EXCEPT ![s] = Larger(@, n)]
      /\ stored' = [saved EXCEPT !.revision = n]
  BY <1>1 DEF SendCheckpoint
<1> HIDE DEF n
<1>4. stored' = [id |-> s, visible |-> saved.visible, revision |-> n]
  BY <1>3
<1>5. reported[s] \in Nat /\ Larger(reported[s], n) \in Nat
      /\ reported'[s] = Larger(reported[s], n)
      /\ reported' \in [Sessions -> Nat]
      /\ \A t \in Sessions : t # s => reported'[t] = reported[t]
  BY <1>1, <1>2, <1>3, LargerFacts
<1>6. s \notin left => reported[s] <= revision
  BY <1>1 DEF Inv, CheckpointsFresh, OnlyKnownReported
<1>7. s \notin left => reported'[s] <= n
  BY <1>1, <1>2, <1>5, <1>6 DEF Larger
<1>8. StoredRecord' /\ stored'.id = s /\ stored'.revision = n
  BY <1>2, <1>4 DEF StoredRecord
<1> QED BY <1>2, <1>3, <1>5, <1>7, <1>8

-----------------------------------------------------------------------------
(* The actions *)

LEMMA QuietActions ==
  ASSUME Inv,
         \/ Pick \/ OpenTune \/ Tune \/ Accept \/ Discard \/ DoneArrives \/ ErrorArrives
         \/ \E n \in 1..Variants : Dot(n)
         \/ \E s \in Sessions : Emit(s) \/ Write(s) \/ Answer(s) \/ Splice(s)
         \/ \E p \in posts : AcceptConfirmed(p) \/ AcceptFails(p) \/ Receive(p) \/ Refuse(p)
  PROVE  Inv'
<1>1. UNCHANGED <<cur, observer, held, anchor, revision, reported, stored, left>>
  <2>1. CASE Pick \/ OpenTune \/ Tune \/ Accept \/ Discard \/ DoneArrives \/ ErrorArrives
    BY <2>1 DEF Pick, OpenTune, Tune, Accept, Discard, DoneArrives, ErrorArrives,
                session, scroll, storage, history
  <2>2. CASE \E n \in 1..Variants : Dot(n)
    BY <2>2 DEF Dot, scroll, storage, history
  <2>3. CASE \E s \in Sessions : Emit(s) \/ Write(s) \/ Answer(s) \/ Splice(s)
    BY <2>3 DEF Emit, Write, Answer, Splice, session, scroll, storage, history
  <2>4. CASE \E p \in posts : AcceptConfirmed(p) \/ AcceptFails(p)
    BY <2>4 DEF AcceptConfirmed, AcceptFails, scroll, storage, history
  <2>5. CASE \E p \in posts : Receive(p) \/ Refuse(p)
    BY <2>5 DEF Receive, Refuse, session, scroll, storage, history
  <2> QED BY <2>1, <2>2, <2>3, <2>4, <2>5
<1> QED BY <1>1, QuietStep

LEMMA EndActions ==
  ASSUME Inv, Teardown \/ ConfirmTimer \/ \E p \in posts : DiscardConfirmed(p)
  PROVE  Inv'
<1>1. /\ cur' = None /\ observer' = None /\ held' = None /\ stored' = NoSession
      /\ left' = IF cur = None THEN left ELSE left \cup {cur}
      /\ revision' = revision /\ reported' = reported
  BY DEF Teardown, ConfirmTimer, DiscardConfirmed, Leave
<1>2. revision' \in Nat
  BY <1>1 DEF Inv, Counters
<1> QED BY <1>1, <1>2, EndStep

LEMMA SaveActions ==
  ASSUME Inv, Cycle \/ ServerLost
  PROVE  Inv'
<1>1. CASE Cycle
  <2>1. /\ stored' = Saved(cur, visible', revision)
        /\ UNCHANGED <<cur, anchor, revision, reported, left, observer, held>>
    BY <1>1 DEF Cycle, scroll, history
  <2> QED BY <2>1, SaveStep
<1>2. CASE ServerLost
  <2>1. /\ stored' = Saved(cur, visible, revision) /\ observer' = None /\ held' = None
        /\ UNCHANGED <<cur, anchor, revision, reported, left>>
    BY <1>2 DEF ServerLost, history
  <2> QED BY <2>1, SaveStep
<1> QED BY <1>1, <1>2

LEMMA ScrollAction ==
  ASSUME Inv, Scroll
  PROVE  Inv'
<1>1. /\ held # None /\ held' \in Places /\ held' # None /\ anchor' = held'
      /\ UNCHANGED <<cur, observer, revision, reported, stored, left>>
  BY ConstantsAssumption DEF Scroll, session, storage, history
<1>2. ObserverFollowsSession'
  BY <1>1 DEF Inv, ObserverFollowsSession
<1> QED BY <1>1, <1>2
        DEF Inv, CheckpointsFresh, StoredRecord, Counters, StoredFollows, OnlyKnownReported

\* A new session: what was current before has been left.
LEMMA GoAction ==
  ASSUME Inv, NEW s \in Sessions, Go(s)
  PROVE  Inv'
<1> DEFINE saved == Saved(s, 0, revision)
<1>1. /\ saved = [id |-> saved.id, visible |-> saved.visible, revision |-> saved.revision]
      /\ saved.revision \in Nat /\ saved.id = s /\ s # None
  BY ConstantsAssumption, SavedFacts DEF Inv, Counters
<1>2. /\ SendCheckpoint(s, saved) /\ cur' = s /\ observer' = s
      /\ left' = IF cur = None THEN left ELSE left \cup {cur}
      /\ held' \in Places /\ anchor' = held'
  BY DEF Go
<1> HIDE DEF saved
<1>3. /\ StoredRecord' /\ stored'.id = s /\ stored'.revision = revision'
      /\ revision' \in Nat /\ reported' \in [Sessions -> Nat]
      /\ (s \notin left => reported'[s] <= revision')
      /\ \A t \in Sessions : t # s => reported'[t] = reported[t]
  BY <1>1, <1>2, ReportStep
<1>4. CheckpointsFresh' /\ StoredFollows' /\ Counters'
  BY <1>2, <1>3 DEF CheckpointsFresh, StoredFollows, Counters
<1>5. OnlyKnownReported'
  BY <1>2, <1>3, ConstantsAssumption DEF Inv, OnlyKnownReported
<1>6. ObserverFollowsSession'
  BY <1>1, <1>2, ConstantsAssumption DEF ObserverFollowsSession
<1> QED BY <1>3, <1>4, <1>5, <1>6 DEF Inv

LEMMA TimerAction ==
  ASSUME Inv, CheckpointTimer
  PROVE  Inv'
<1>1. UNCHANGED <<cur, observer, held, anchor, left>>
  BY DEF CheckpointTimer, session, scroll, history
<1>2. CASE cur = None
  <2>1. UNCHANGED <<revision, stored, reported>>
    BY <1>2 DEF CheckpointTimer
  <2> QED BY <1>1, <2>1, QuietStep
<1>3. CASE cur # None
  <2>1. cur \in Sessions /\ SendCheckpoint(cur, stored) /\ StoredRecord /\ stored.id = cur
    BY <1>3 DEF CheckpointTimer, Inv, Counters, StoredFollows
  <2>2. /\ StoredRecord' /\ stored'.id = cur /\ stored'.revision = revision'
        /\ revision' \in Nat /\ reported' \in [Sessions -> Nat]
        /\ (cur \notin left => reported'[cur] <= revision')
        /\ \A t \in Sessions : t # cur => reported'[t] = reported[t]
    BY <2>1, ReportStep DEF StoredRecord
  <2>3. CheckpointsFresh' /\ StoredFollows' /\ Counters'
    BY <1>1, <2>1, <2>2 DEF CheckpointsFresh, StoredFollows, Counters
  <2>4. OnlyKnownReported'
    BY <1>1, <2>2 DEF Inv, OnlyKnownReported
  <2>5. ObserverFollowsSession'
    BY <1>1 DEF Inv, ObserverFollowsSession
  <2> QED BY <2>2, <2>3, <2>4, <2>5 DEF Inv
<1> QED BY <1>2, <1>3

\* The document changes: a session is resumed, its variants are seen, or
\* nobody looks.
LEMMA DocumentStep ==
  ASSUME Inv, NEW d, DocumentBecomes(d), reported' = reported
  PROVE  Inv'
<1>1. CASE \E s \in Sessions : Resumed(s, d, revision, values)
  <2>1. PICK s \in Sessions : Resumed(s, d, revision, values)
    BY <1>1
  <2>2. revision \in Nat
    BY DEF Inv, Counters
  <2> QED BY <2>1, <2>2, ResumedStep
<1>2. CASE Observed(d)
  <2>1. CASE MoreVariants(d)
    <3>1. /\ stored' = Saved(cur, visible', revision)
          /\ UNCHANGED <<cur, observer, held, anchor, revision, left>>
      BY <1>2, <2>1 DEF Observed, scroll
    <3> QED BY <3>1, SaveStep
  <2>2. CASE ~MoreVariants(d)
    <3>1. UNCHANGED <<cur, observer, held, anchor, revision, reported, stored, left>>
      BY <1>2, <2>2 DEF Observed, session, scroll
    <3> QED BY <3>1, QuietStep
  <2> QED BY <2>1, <2>2
<1> QED BY <1>1, <1>2 DEF DocumentBecomes

LEMMA DocumentActions ==
  ASSUME Inv, NEW s \in Sessions, HotUpdate(s) \/ SwapTimer(s)
  PROVE  Inv'
<1>1. reported' = reported
  BY DEF HotUpdate, SwapTimer
<1> QED BY <1>1, DocumentStep DEF HotUpdate, SwapTimer

LEMMA ReloadAction ==
  ASSUME Inv, Reload
  PROVE  Inv'
<1>1. reported' = reported
  BY DEF Reload
<1>2. CASE /\ cur' = None /\ observer' = None /\ held' = None /\ revision' = 0
           /\ stored' = NoSession \/ stored' = stored
           /\ left' = IF cur = None THEN left ELSE left \cup {cur}
  BY <1>1, <1>2, EndStep
<1>3. CASE \E s \in Sessions : Resumed(s, dom', 0, NoValues)
  <2>1. PICK s \in Sessions : Resumed(s, dom', 0, NoValues)
    BY <1>3
  <2> DEFINE d == dom'
  <2>2. Resumed(s, d, 0, NoValues)
    BY <2>1
  <2> QED BY <1>1, <2>2, ResumedStep
<1> QED BY <1>2, <1>3 DEF Reload

-----------------------------------------------------------------------------
(* The theorems *)

LEMMA InvStep == Inv /\ [Next]_vars => Inv'
<1> SUFFICES ASSUME Inv, [Next]_vars PROVE Inv'
  OBVIOUS
<1>1. CASE Listeners
  BY <1>1, QuietActions, EndActions, SaveActions, ScrollAction, GoAction DEF Listeners
<1>2. CASE Continuations
  BY <1>2, QuietActions, EndActions, TimerAction DEF Continuations
<1>3. CASE Document
  BY <1>3, DocumentActions DEF Document
<1>4. CASE Reload
  BY <1>4, ReloadAction
<1>5. CASE Outside
  BY <1>5, QuietActions DEF Outside
<1>6. CASE UNCHANGED vars
  <2>1. UNCHANGED <<cur, observer, held, anchor, revision, reported, stored, left>>
    BY <1>6 DEF vars, session, scroll, storage, history
  <2> QED BY <2>1, QuietStep
<1> QED BY <1>1, <1>2, <1>3, <1>4, <1>5, <1>6 DEF Next

LEMMA InvHolds == Spec => []Inv
BY InitInv, InvStep, PTL DEF Spec

\* variantObserver and the scroll lock belong to the current session or to
\* none, for any number of sessions, reloads and late answers: what remains of
\* an earlier session (its timers, its wrapper in the document) cannot keep
\* either of them.
THEOREM ObserverFollowed == Spec => []ObserverFollowsSession
<1>1. Inv => ObserverFollowsSession
  BY DEF Inv
<1> QED BY <1>1, InvHolds, PTL

\* checkpointRevision is never behind what was posted for the current session,
\* unless the page has left it before: sendCheckpoint saves the counter and
\* loadSession lifts it, whatever else was saved and cleared in between.
THEOREM CheckpointsStayFresh == Spec => []CheckpointsFresh
<1>1. Inv => CheckpointsFresh
  BY DEF Inv
<1> QED BY <1>1, InvHolds, PTL

-----------------------------------------------------------------------------
(* Types *)

Values == [id : Sessions \cup {None}, variant : 0..Variants]

SavedSessions == [id : Sessions \cup {None}, visible : 0..Variants, revision : 0..MaxRevision]

LEMMA RefreshedType ==
  ASSUME NEW st, NEW s \in Sessions \cup {None}, NEW n \in 0..Variants, NEW d
  PROVE  Refreshed(st, s, n, d) \in Values
<1>1. NoValues \in Values
  BY ConstantsAssumption DEF NoValues, Values
<1>2. [id |-> s, variant |-> n] \in Values
  BY DEF Values
<1> QED BY <1>1, <1>2 DEF Refreshed

LEMMA ShownType ==
  ASSUME NEW st, NEW s \in Sessions \cup {None}, NEW n \in 0..Variants, NEW d,
         NEW before \in Values
  PROVE  ShownInDOM(st, s, n, d, before) \in Values
BY RefreshedType DEF ShownInDOM

\* The variant to resume with is there, if there is any.
LEMMA SavedVisibleFacts ==
  ASSUME TypeOK, NEW s, NEW n \in 0..Variants
  PROVE  /\ SavedVisible(s, n) \in 0..Variants
         /\ SavedVisible(s, n) <= n
         /\ n > 0 => SavedVisible(s, n) \in 1..n
<1>1. stored.visible \in 0..Variants /\ Variants \in Nat
  BY ConstantsAssumption DEF TypeOK
<1>2. CASE stored.id = s /\ stored.visible \in 1..n
  <2>1. SavedVisible(s, n) = stored.visible
    BY <1>2 DEF SavedVisible
  <2> QED BY <1>1, <1>2, <2>1
<1>3. CASE ~(stored.id = s /\ stored.visible \in 1..n)
  <2>1. SavedVisible(s, n) = IF n > 0 THEN 1 ELSE 0
    BY <1>3 DEF SavedVisible
  <2> QED BY <1>1, <2>1
<1> QED BY <1>2, <1>3

LEMMA SavedType ==
  ASSUME TypeOK, NEW s \in Sessions \cup {None}, NEW v \in 0..Variants,
         NEW r \in 0..MaxRevision
  PROVE  Saved(s, v, r) \in SavedSessions
BY DEF Saved, SavedSessions, TypeOK

LEMMA SendCheckpointType ==
  ASSUME TypeOK, NEW s \in Sessions, NEW saved \in SavedSessions, SendCheckpoint(s, saved)
  PROVE  /\ revision' \in 0..MaxRevision
         /\ stored' \in SavedSessions
         /\ reported' \in [Sessions -> 0..MaxRevision]
<1> DEFINE n == NextRevision(saved)
<1>1. revision \in 0..MaxRevision /\ reported \in [Sessions -> 0..MaxRevision] /\ MaxRevision \in Nat
      /\ saved.revision \in 0..MaxRevision
  BY ConstantsAssumption DEF TypeOK, SavedSessions
<1>2. n <= MaxRevision /\ revision' = n /\ reported' = [reported EXCEPT ![s] = Larger(@, n)]
      /\ stored' = IF saved.id = None THEN saved ELSE [saved EXCEPT !.revision = n]
  BY DEF SendCheckpoint
<1>3. n \in 0..MaxRevision
  BY <1>1, <1>2 DEF NextRevision, Larger
<1> HIDE DEF n
<1>4. stored' \in SavedSessions
  BY <1>2, <1>3 DEF SavedSessions
<1>5. Larger(reported[s], n) \in 0..MaxRevision
  BY <1>1, <1>3 DEF Larger
<1>6. reported' \in [Sessions -> 0..MaxRevision]
  BY <1>1, <1>2, <1>5
<1> QED BY <1>2, <1>3, <1>4, <1>6

LEMMA PostType ==
  ASSUME NEW type \in {"generate", "accept", "discard"}, NEW s \in Sessions,
         NEW n \in 1..(MaxDiscards + 1), NEW status \in {"sent", "ok", "failed", "orphan"}
  PROVE  Post(type, s, n, status) \in Posts
BY DEF Post, Posts

LEMMA InitType == Init => TypeOK
<1> SUFFICES ASSUME Init PROVE TypeOK
  OBVIOUS
<1>1. values \in [id : Sessions \cup {None}, variant : 0..Variants]
      /\ stored \in [id : Sessions \cup {None}, visible : 0..Variants, revision : 0..MaxRevision]
  BY ConstantsAssumption DEF Init, NoSession, NoValues
<1>2. reported \in [Sessions -> 0..MaxRevision] /\ dom \in Wrappers /\ source \in Wrappers
  BY ConstantsAssumption DEF Init, Wrappers
<1>3. /\ {MaxReloads, MaxRevision, MaxDiscards} \subseteq Nat /\ Variants \in Nat
      /\ 0 \in 0..Variants /\ 0 \in 0..MaxRevision /\ 0 \in 0..MaxReloads
  BY ConstantsAssumption
<1>4. /\ posts \subseteq Posts /\ asked \subseteq Sessions /\ decided \subseteq Sessions
      /\ news \subseteq {"done", "error", "closed"} /\ overtaken \subseteq {"left", "begun"}
      /\ used \subseteq Sessions /\ left \subseteq Sessions
      /\ swapping \subseteq Sessions /\ capturing \subseteq Sessions
  BY DEF Init
<1> QED BY <1>1, <1>2, <1>3, <1>4 DEF Init, TypeOK

\* What the user does to the session.
LEMMA TypeOfUserSteps ==
  ASSUME TypeOK,
         \/ Pick \/ Scroll \/ Cycle \/ OpenTune \/ Tune \/ Accept \/ Discard \/ Teardown
         \/ \E n \in 1..Variants : Dot(n)
  PROVE  TypeOK'
<1>1. CASE Pick \/ Scroll \/ Tune
  BY <1>1 DEF TypeOK, Pick, Scroll, Tune, session, page, scroll, timers, storage, world, history
<1>2. CASE Cycle
  <2>1. /\ visible' \in 0..Variants /\ revision \in 0..MaxRevision
        /\ cur \in Sessions \cup {None} /\ values \in Values
    BY <1>2, ConstantsAssumption DEF Cycle, TypeOK, Values
  <2>2. values' \in Values
    <3> DEFINE w == visible'
    <3>1. w \in 0..Variants /\ values' = ShownInDOM(state, cur, w, dom, values)
      BY <1>2, <2>1 DEF Cycle
    <3> HIDE DEF w
    <3> QED BY <2>1, <3>1, ShownType
  <2>3. stored' \in SavedSessions
    BY <1>2, <2>1, SavedType DEF Cycle
  <2> QED BY <1>2, <2>1, <2>2, <2>3 DEF TypeOK, Cycle, Values, SavedSessions, scroll, world, history
<1>3. CASE OpenTune
  <2>1. values' \in Values
    BY <1>3, RefreshedType DEF OpenTune, TypeOK
  <2> QED BY <1>3, <2>1
          DEF TypeOK, OpenTune, Values, session, scroll, timers, storage, world, history
<1>4. CASE Accept
  <2>1. Post("accept", cur, 1, "sent") \in Posts
    BY <1>4, PostType, ConstantsAssumption DEF Accept, TypeOK
  <2>2. visible' \in 0..Variants
    BY <1>4, ConstantsAssumption DEF Accept, Shown, TypeOK
  <2> QED BY <1>4, <2>1, <2>2
          DEF TypeOK, Accept, page, scroll, timers, storage, world, history
<1>5. CASE Discard
  <2>1. PICK n \in 1..MaxDiscards : posts' = posts \cup {Post("discard", cur, n, "sent")}
    BY <1>5 DEF Discard
  <2>2. Post("discard", cur, n, "sent") \in Posts
    BY <1>5, PostType, ConstantsAssumption DEF Discard, TypeOK
  <2> QED BY <1>5, <2>1, <2>2
          DEF TypeOK, Discard, session, page, scroll, timers, storage, world, history
<1>6. CASE Teardown
  <2>1. NoValues \in Values /\ NoSession \in SavedSessions
    BY ConstantsAssumption DEF NoValues, NoSession, Values, SavedSessions
  <2> QED BY <1>6, <2>1 DEF TypeOK, Teardown, Values, SavedSessions
<1>7. CASE \E n \in 1..Variants : Dot(n)
  <2>1. PICK n \in 1..Variants : Dot(n)
    BY <1>7
  <2>2. visible' = n /\ n \in 0..Variants
    BY <2>1 DEF Dot
  <2>3. values' \in Values
    BY <2>1, <2>2, ShownType DEF Dot, TypeOK, Values
  <2> QED BY <2>1, <2>2, <2>3 DEF TypeOK, Dot, Values, scroll, timers, storage, world, history
<1> QED BY <1>1, <1>2, <1>3, <1>4, <1>5, <1>6, <1>7

\* A new session.
LEMMA TypeOfGo ==
  ASSUME TypeOK, NEW s \in Sessions, Go(s)
  PROVE  TypeOK'
<1> DEFINE saved == Saved(s, 0, revision)
<1>1. saved \in SavedSessions /\ SendCheckpoint(s, saved)
  BY SavedType, ConstantsAssumption DEF Go, TypeOK
<1> HIDE DEF saved
<1>2. /\ revision' \in 0..MaxRevision /\ stored' \in SavedSessions
      /\ reported' \in [Sessions -> 0..MaxRevision]
  BY <1>1, SendCheckpointType
<1>3. arrived' = 0 /\ visible' = 0 /\ 0 \in 0..Variants
  BY ConstantsAssumption DEF Go
<1>4. overtaken' \subseteq {"left", "begun"}
  BY DEF Go, Overtaken, TypeOK
<1>5. used' \subseteq Sessions /\ left' \subseteq Sessions /\ capturing' \subseteq Sessions
  BY DEF Go, TypeOK
<1> QED BY <1>2, <1>3, <1>4, <1>5 DEF TypeOK, Go, SavedSessions, page, world

\* Continuations and timers.
LEMMA TypeOfContinuations ==
  ASSUME TypeOK, Continuations
  PROVE  TypeOK'
<1>1. ASSUME NEW s \in Sessions, Emit(s) PROVE TypeOK'
  <2>1. Post("generate", s, 1, "sent") \in Posts
    BY PostType, ConstantsAssumption
  <2> QED BY <1>1, <2>1
          DEF TypeOK, Emit, session, page, scroll, storage, world, history
<1>2. ASSUME NEW p \in posts, AcceptConfirmed(p) PROVE TypeOK'
  <2>1. p.id \in Sessions
    BY DEF TypeOK, Posts
  <2>2. confirming' \in Nat
    BY <1>2 DEF AcceptConfirmed, TypeOK
  <2> QED BY <1>2, <2>1, <2>2 DEF TypeOK, AcceptConfirmed, page, scroll, world, history
<1>3. ASSUME NEW p \in posts, AcceptFails(p) PROVE TypeOK'
  BY <1>3 DEF TypeOK, AcceptFails, page, scroll, timers, storage, world, history
<1>4. ASSUME Leave
      PROVE  /\ observer' = None /\ cur' = None /\ state' = "PICKING"
             /\ held' = None /\ anchor' = None
             /\ values' \in Values /\ stored' \in SavedSessions
             /\ left' \subseteq Sessions /\ overtaken' \subseteq {"left", "begun"}
  <2>1. NoValues \in Values /\ NoSession \in SavedSessions
    BY ConstantsAssumption DEF NoValues, NoSession, Values, SavedSessions
  <2> QED BY <1>4, <2>1 DEF Leave, Overtaken, TypeOK
<1>5. ASSUME NEW p \in posts, DiscardConfirmed(p) PROVE TypeOK'
  <2>1. Leave
    BY <1>5 DEF DiscardConfirmed
  <2>2. posts' \subseteq Posts /\ swapping' \subseteq Sessions /\ handled' \in Sessions \cup {None}
    BY <1>5 DEF DiscardConfirmed, TypeOK
  <2> QED BY <1>5, <2>1, <2>2, <1>4 DEF TypeOK, DiscardConfirmed, Values, SavedSessions, world
<1>6. CASE ConfirmTimer
  <2>1. Leave /\ confirming' \in Nat
    BY <1>6 DEF ConfirmTimer, TypeOK
  <2> QED BY <1>6, <2>1, <1>4 DEF TypeOK, ConfirmTimer, Values, SavedSessions, world
<1>7. CASE CheckpointTimer
  <2>1. /\ revision' \in 0..MaxRevision /\ stored' \in SavedSessions
        /\ reported' \in [Sessions -> 0..MaxRevision]
    <3>1. stored \in SavedSessions
      BY DEF TypeOK, SavedSessions
    <3>2. CASE cur = None
      BY <1>7, <3>1, <3>2 DEF CheckpointTimer, TypeOK
    <3>3. CASE cur # None
      <4>1. cur \in Sessions /\ SendCheckpoint(cur, stored)
        BY <1>7, <3>3 DEF CheckpointTimer, TypeOK
      <4> QED BY <4>1, <3>1, SendCheckpointType
    <3> QED BY <3>2, <3>3
  <2> QED BY <1>7, <2>1
          DEF TypeOK, CheckpointTimer, SavedSessions, session, page, scroll, world, history
<1> QED BY <1>1, <1>2, <1>3, <1>5, <1>6, <1>7 DEF Continuations

\* What resuming and observing change.
SessionTypeOK ==
  /\ state \in {"IDLE", "PICKING", "CONFIGURING", "GENERATING", "CYCLING", "SAVING", "CONFIRMED"}
  /\ cur \in Sessions \cup {None} /\ observer \in Sessions \cup {None}
  /\ arrived \in 0..Variants /\ visible \in 0..Variants
  /\ values \in Values
  /\ held \in Places \cup {None} /\ anchor \in Places \cup {None}
  /\ revision \in 0..MaxRevision
  /\ checkpoint \in BOOLEAN
  /\ stored \in SavedSessions
  /\ left \subseteq Sessions

\* An observer that finds more has a wrapper with variants.
LEMMA MoreVariantsFacts ==
  ASSUME TypeOK, NEW d \in Wrappers, MoreVariants(d)
  PROVE  /\ observer \in Sessions /\ observer # None
         /\ d[observer] > 0 /\ d[observer] - 1 \in 1..Variants
         /\ d[observer] - 1 > arrived
<1>1. observer \in Sessions /\ observer # None
  BY DEF MoreVariants, TypeOK
<1>2. d[observer] \in 0..(1 + Variants) /\ arrived \in 0..Variants /\ Variants \in Nat
  BY <1>1, ConstantsAssumption DEF TypeOK, Wrappers
<1>3. d[observer] > 0 /\ d[observer] - 1 > arrived
  BY <1>1 DEF MoreVariants
<1> QED BY <1>1, <1>2, <1>3

LEMMA TypeOfResumed ==
  ASSUME TypeOK, NEW s \in Sessions, NEW d \in Wrappers, d[s] > 0,
         NEW rev \in 0..MaxRevision, NEW before \in Values, Resumed(s, d, rev, before)
  PROVE  SessionTypeOK'
<1>1. cur' = s /\ observer' = s /\ checkpoint' = TRUE /\ left' \subseteq Sessions
  BY DEF Resumed, TypeOK
<1>2. d[s] \in 0..(1 + Variants) /\ Variants \in Nat /\ MaxRevision \in Nat
      /\ stored.revision \in 0..MaxRevision
  BY ConstantsAssumption DEF Wrappers, TypeOK
<1> DEFINE n == arrived'  v == visible'  r == revision'  st == state'
<1>3. n \in 0..Variants
  BY <1>2 DEF Resumed
<1>4. v \in 0..Variants
  <2>1. v = SavedVisible(s, n)
    BY DEF Resumed
  <2> HIDE DEF n, v
  <2> QED BY <1>3, <2>1, SavedVisibleFacts
<1>5. r \in 0..MaxRevision
  BY <1>2 DEF Resumed, Larger
<1>6. stored' = Saved(s, v, r)
  BY DEF Resumed
<1>7. values' \in {before, Refreshed(st, s, v, d)}
  BY DEF Resumed
<1> HIDE DEF n, v, r, st
<1>8. stored' \in SavedSessions /\ values' \in Values
  BY <1>4, <1>5, <1>6, <1>7, SavedType, RefreshedType
<1>9. st \in {"CYCLING", "GENERATING"}
  BY DEF Resumed, st
<1>10. held' \in Places \cup {None} /\ anchor' \in Places \cup {None}
  BY DEF Resumed, HeldAgain, TypeOK
<1> QED BY <1>1, <1>3, <1>4, <1>5, <1>8, <1>9, <1>10 DEF SessionTypeOK, n, v, r, st

LEMMA TypeOfObserved ==
  ASSUME TypeOK, NEW d \in Wrappers, Observed(d)
  PROVE  SessionTypeOK'
<1>1. SessionTypeOK
  BY DEF SessionTypeOK, TypeOK, Values, SavedSessions
<1>2. CASE ~MoreVariants(d)
  BY <1>1, <1>2 DEF Observed, SessionTypeOK, session, scroll
<1>3. CASE MoreVariants(d)
  <2> DEFINE n == arrived'  v == visible'  st == state'
  <2>1. n \in 0..Variants
    BY <1>3, MoreVariantsFacts DEF Observed
  <2>2. v = IF visible = 0 THEN SavedVisible(observer, n) ELSE visible
    BY <1>3 DEF Observed
  <2>3. /\ values' \in {values, Refreshed(st, cur, v, d), ShownInDOM(st, cur, v, d, values)}
        /\ stored' = Saved(cur, v, revision)
    BY <1>3 DEF Observed
  <2>4. st \in {"CYCLING", state}
    BY <1>3 DEF Observed
  <2>5. /\ UNCHANGED <<cur, observer, held, anchor, revision, left>>
        /\ checkpoint' \in BOOLEAN
    BY <1>3 DEF Observed, scroll
  <2> HIDE DEF n, v, st
  <2>6. v \in 0..Variants
    BY <2>1, <2>2, SavedVisibleFacts DEF TypeOK
  <2>7. values' \in Values /\ stored' \in SavedSessions
    BY <1>1, <2>3, <2>6, RefreshedType, ShownType, SavedType DEF SessionTypeOK
  <2> QED BY <1>1, <2>1, <2>4, <2>5, <2>6, <2>7 DEF SessionTypeOK, n, v, st
<1> QED BY <1>2, <1>3

LEMMA TypeOfDocument ==
  ASSUME TypeOK, NEW s \in Sessions, HotUpdate(s) \/ SwapTimer(s)
  PROVE  TypeOK'
<1>1. ASSUME NEW d \in Wrappers, DocumentBecomes(d)
      PROVE  SessionTypeOK' /\ dom' \in Wrappers /\ scout' \in BOOLEAN /\ live' \in BOOLEAN
  <2>1. CASE \E t \in Sessions : d[t] > 0 /\ Resumed(t, d, revision, values)
    <3>1. revision \in 0..MaxRevision /\ values \in Values
      BY DEF TypeOK, Values
    <3> QED BY <2>1, <3>1, <1>1, TypeOfResumed DEF DocumentBecomes, TypeOK
  <2>2. CASE Observed(d)
    BY <2>2, <1>1, TypeOfObserved DEF DocumentBecomes, TypeOK
  <2> QED BY <1>1, <2>1, <2>2 DEF DocumentBecomes
<1>2. /\ [dom EXCEPT ![s] = source[s]] \in Wrappers
      /\ [dom EXCEPT ![s] = 0] \in Wrappers
  BY ConstantsAssumption DEF TypeOK, Wrappers
<1>3. SessionTypeOK' /\ dom' \in Wrappers /\ scout' \in BOOLEAN /\ live' \in BOOLEAN
  BY <1>1, <1>2 DEF HotUpdate, SwapTimer
<1>4. swapping' \subseteq Sessions
      /\ UNCHANGED <<confirming, capturing, handled, posts, reported, world, used, overtaken, reloads>>
  BY DEF HotUpdate, SwapTimer, TypeOK
<1> QED BY <1>3, <1>4 DEF TypeOK, SessionTypeOK, Values, SavedSessions, world

LEMMA TypeOfReload ==
  ASSUME TypeOK, Reload
  PROVE  TypeOK'
<1> DEFINE d == dom'
<1>1. d \in Wrappers
  BY ConstantsAssumption DEF Reload, FreshDocuments, TypeOK, Wrappers
<1>2. NoValues \in Values /\ NoSession \in SavedSessions /\ 0 \in 0..MaxRevision /\ 0 \in 0..Variants
  BY ConstantsAssumption DEF NoValues, NoSession, Values, SavedSessions
<1>3. SessionTypeOK
  BY DEF SessionTypeOK, TypeOK, Values, SavedSessions
<1>4. SessionTypeOK' /\ scout' \in BOOLEAN /\ handled' \in Sessions \cup {None}
  <2>1. CASE /\ state' = "IDLE" /\ cur' = None /\ observer' = None /\ arrived' = 0 /\ visible' = 0
             /\ values' = NoValues /\ held' = None /\ revision' = 0 /\ checkpoint' = FALSE
             /\ left' = IF cur = None THEN left ELSE left \cup {cur}
             /\ anchor' = anchor /\ stored' \in {stored, NoSession}
             /\ scout' = TRUE /\ handled' \in {handled, None}
    BY <2>1, <1>2, <1>3 DEF SessionTypeOK, TypeOK
  <2>2. CASE /\ \E s \in Sessions : d[s] > 0 /\ Resumed(s, d, 0, NoValues)
             /\ scout' = FALSE /\ handled' = handled
    <3>1. PICK s \in Sessions : d[s] > 0 /\ Resumed(s, d, 0, NoValues)
      BY <2>2
    <3> HIDE DEF d
    <3> QED BY <1>1, <1>2, <2>2, <3>1, TypeOfResumed DEF TypeOK
  <2> QED BY <2>1, <2>2 DEF Reload
<1>5. posts' \subseteq Posts
  BY DEF Reload, TypeOK, Posts
<1>6. reloads' \in 0..MaxReloads
  BY ConstantsAssumption DEF Reload, TypeOK
<1>7. /\ live' = TRUE /\ confirming' = 0 /\ swapping' = {} /\ capturing' = {}
      /\ news' = {} /\ overtaken' = {} /\ UNCHANGED <<reported, asked, decided, source, used>>
  BY DEF Reload
<1> QED BY <1>1, <1>4, <1>5, <1>6, <1>7 DEF TypeOK, SessionTypeOK, Values, SavedSessions

\* An answer is an accept or a discard of the page, and a POST still.
LEMMA AnsweredFacts ==
  ASSUME NEW p \in Posts, NEW status \in {"ok", "failed"}
  PROVE  /\ Answered(p, status) \subseteq Posts
         /\ \A q \in Answered(p, status) :
              q.type = p.type /\ q.id = p.id /\ q.status = status /\ p.status # "orphan"
<1> DEFINE q == [p EXCEPT !.status = status]
<1>1. q \in Posts /\ q.type = p.type /\ q.id = p.id /\ q.status = status
  BY DEF Posts
<1>2. Answered(p, status) = {} \/ (Answered(p, status) = {q} /\ p.status # "orphan")
  BY DEF Answered
<1> HIDE DEF q
<1> QED BY <1>1, <1>2

LEMMA TypeOfOutside ==
  ASSUME TypeOK, Outside \/ DoneArrives \/ ErrorArrives \/ ServerLost
  PROVE  TypeOK'
<1>1. ASSUME NEW p \in posts, Receive(p) PROVE TypeOK'
  <2>1. p \in Posts /\ p.id \in Sessions
    BY DEF TypeOK, Posts
  <2>2. PICK status \in {"ok", "failed"} : posts' = (posts \ {p}) \cup Answered(p, status)
    BY <1>1 DEF Receive
  <2>3. posts' \subseteq Posts
    BY <2>1, <2>2, AnsweredFacts DEF TypeOK
  <2>4. asked' \subseteq Sessions /\ decided' \subseteq Sessions
    BY <1>1, <2>1 DEF Receive, TypeOK
  <2> QED BY <1>1, <2>3, <2>4 DEF TypeOK, Receive, session, page, scroll, timers, storage, history
<1>2. ASSUME NEW p \in posts, Refuse(p) PROVE TypeOK'
  <2>1. p \in Posts /\ posts' = (posts \ {p}) \cup Answered(p, "failed")
    BY <1>2 DEF Refuse, TypeOK
  <2>2. posts' \subseteq Posts
    BY <2>1, AnsweredFacts DEF TypeOK
  <2> QED BY <1>2, <2>2
          DEF TypeOK, Refuse, session, page, scroll, timers, storage, world, history
<1>3. ASSUME NEW s \in Sessions, Write(s) \/ Splice(s) PROVE TypeOK'
  <2>1. source' \in Wrappers
    <3>1. source \in Wrappers /\ source[s] \in 0..(1 + Variants) /\ Variants \in Nat
      BY ConstantsAssumption DEF TypeOK, Wrappers
    <3>2. CASE Write(s)
      <4>1. source[s] + 1 \in 0..(1 + Variants) /\ source' = [source EXCEPT ![s] = source[s] + 1]
        BY <3>1, <3>2 DEF Write
      <4> QED BY <3>1, <4>1 DEF Wrappers
    <3>3. CASE Splice(s)
      BY <3>1, <3>3 DEF Splice, Wrappers
    <3> QED BY <1>3, <3>2, <3>3
  <2>2. decided' \subseteq Sessions
    BY <1>3 DEF Write, Splice, TypeOK
  <2> QED BY <1>3, <2>1, <2>2
          DEF TypeOK, Write, Splice, session, page, scroll, timers, storage, history
<1>4. ASSUME NEW s \in Sessions, Answer(s) PROVE TypeOK'
  <2>1. news' \subseteq {"done", "error", "closed"} /\ asked' \subseteq Sessions
    BY <1>4 DEF Answer, Broadcast, TypeOK
  <2> QED BY <1>4, <2>1 DEF TypeOK, Answer, session, page, scroll, timers, storage, history
<1>5. CASE DoneArrives
  <2>1. values' \in Values
    BY <1>5, RefreshedType DEF DoneArrives, TypeOK, Values
  <2> QED BY <1>5, <2>1 DEF TypeOK, DoneArrives, Values, scroll, timers, storage, history
<1>6. CASE ErrorArrives
  BY <1>6 DEF TypeOK, ErrorArrives, page, scroll, timers, storage, history
<1>7. CASE ServerLost
  <2>1. stored' \in SavedSessions
    BY <1>7, SavedType DEF ServerLost, TypeOK
  <2> QED BY <1>7, <2>1 DEF TypeOK, ServerLost, SavedSessions, page, timers, history
<1> QED BY <1>1, <1>2, <1>3, <1>4, <1>5, <1>6, <1>7 DEF Outside

LEMMA TypeStep == TypeOK /\ [Next]_vars => TypeOK'
<1> SUFFICES ASSUME TypeOK, [Next]_vars PROVE TypeOK'
  OBVIOUS
<1>1. CASE Listeners
  BY <1>1, TypeOfUserSteps, TypeOfGo, TypeOfOutside DEF Listeners
<1>2. CASE Continuations
  BY <1>2, TypeOfContinuations
<1>3. CASE Document
  BY <1>3, TypeOfDocument DEF Document
<1>4. CASE Reload
  BY <1>4, TypeOfReload
<1>5. CASE Outside
  BY <1>5, TypeOfOutside
<1>6. CASE UNCHANGED vars
  BY <1>6 DEF TypeOK, vars, session, page, scroll, timers, storage, world, history
<1> QED BY <1>1, <1>2, <1>3, <1>4, <1>5, <1>6 DEF Next

\* The page's variables keep their types for any number of sessions, variants,
\* reloads and checkpoints; in particular the number of variants that have
\* arrived, which is read off the document, is never negative, and the variant
\* that is shown, which is read back from storage, is one there can be.
THEOREM BrowserTypeCorrect == Spec => []TypeOK
BY InitType, TypeStep, PTL DEF Spec

-----------------------------------------------------------------------------
(* The session and the variant that the overlay shows *)

\* init's observer is there until the first wrapper: before it nothing has
\* arrived that could be accepted.
ScoutIsFirst == scout => arrived = 0 /\ ~Unanswered

\* A page that was torn down does not watch.
TornDownUnwatched == ~live => observer = None

\* A variant is shown as soon as there is one.
ShownIsArrived == visible <= arrived /\ (arrived > 0 => visible > 0)

\* What an accept that fails comes back to.
AcceptedHasArrived == Unanswered => arrived > 0 \/ "begun" \in overtaken

AcceptedHasSession == live /\ Unanswered => cur # None \/ "left" \in overtaken

Overlay ==
  /\ TypeOK /\ Inv
  /\ ScoutIsFirst /\ TornDownUnwatched /\ ShownIsArrived
  /\ AcceptedHasArrived /\ AcceptedHasSession
  /\ ActiveHasSession /\ ShownVariantExists

\* The new parts.
Shows ==
  /\ ScoutIsFirst /\ TornDownUnwatched /\ ShownIsArrived
  /\ AcceptedHasArrived /\ AcceptedHasSession
  /\ ActiveHasSession /\ ShownVariantExists

Numbers == arrived \in Nat /\ visible \in Nat /\ Variants \in Nat \ {0}

LEMMA OverlayFacts ==
  ASSUME Overlay
  PROVE  /\ TypeOK /\ Inv /\ Shows /\ Numbers
         /\ observer \in {None, cur}
         /\ None \notin Sessions
BY ConstantsAssumption DEF Overlay, Shows, TypeOK, Numbers, Inv, ObserverFollowsSession

LEMMA InitShows == Init => Shows
BY DEF Init, Shows, ScoutIsFirst, TornDownUnwatched, ShownIsArrived, AcceptedHasArrived,
       AcceptedHasSession, ActiveHasSession, ShownVariantExists, Unanswered

\* Steps that keep the session, send no accept, and begin no state that has
\* the buttons of a session.
LEMMA KeepStep ==
  ASSUME Shows, Numbers,
         UNCHANGED <<cur, live, arrived, overtaken>>,
         scout' = scout \/ scout' = FALSE,
         observer' \in {observer, None},
         visible' = visible \/ visible' \in 1..arrived,
         state' \in {state, "IDLE", "PICKING", "CONFIGURING", "CONFIRMED"},
         Unanswered' => Unanswered
  PROVE  Shows'
<1>1. ScoutIsFirst' /\ TornDownUnwatched' /\ AcceptedHasArrived' /\ AcceptedHasSession'
  BY DEF Shows, ScoutIsFirst, TornDownUnwatched, AcceptedHasArrived, AcceptedHasSession
<1>2. ShownIsArrived' /\ ShownVariantExists'
  BY DEF Shows, ShownIsArrived, ShownVariantExists, Numbers
<1>3. ActiveHasSession'
  BY DEF Shows, ActiveHasSession
<1> QED BY <1>1, <1>2, <1>3 DEF Shows

\* They leave the session.
LEMMA LeaveStep ==
  ASSUME Shows, Numbers, Leave, Unanswered' => Unanswered,
         UNCHANGED <<arrived, visible, scout, live>>
  PROVE  Shows'
<1>1. /\ observer' = None /\ cur' = None /\ state' = "PICKING"
      /\ overtaken \subseteq overtaken' /\ (Unanswered => "left" \in overtaken')
  BY DEF Leave, Overtaken
<1>2. ScoutIsFirst' /\ TornDownUnwatched' /\ AcceptedHasArrived' /\ AcceptedHasSession'
  BY <1>1 DEF Shows, ScoutIsFirst, TornDownUnwatched, AcceptedHasArrived, AcceptedHasSession
<1>3. ShownIsArrived' /\ ShownVariantExists' /\ ActiveHasSession'
  BY <1>1 DEF Shows, ShownIsArrived, ShownVariantExists, ActiveHasSession
<1> QED BY <1>2, <1>3 DEF Shows

\* They begin one.
LEMMA BeginStep ==
  ASSUME Shows, NEW s \in Sessions, None \notin Sessions, Go(s), live
  PROVE  Shows'
<1>1. /\ cur' = s /\ state' = "GENERATING" /\ arrived' = 0 /\ visible' = 0
      /\ scout' = scout /\ live' = live
      /\ overtaken \subseteq overtaken' /\ (Unanswered => "begun" \in overtaken')
      /\ Unanswered' <=> Unanswered
  BY DEF Go, Overtaken, page, Unanswered
<1>2. ScoutIsFirst' /\ TornDownUnwatched' /\ AcceptedHasArrived' /\ AcceptedHasSession'
  BY <1>1 DEF Shows, ScoutIsFirst, TornDownUnwatched, AcceptedHasArrived, AcceptedHasSession
<1>3. ShownIsArrived' /\ ShownVariantExists' /\ ActiveHasSession'
  BY <1>1 DEF Shows, ShownIsArrived, ShownVariantExists, ActiveHasSession
<1> QED BY <1>2, <1>3 DEF Shows

\* They resume one, when nothing waits for an answer.
LEMMA ResumeStep ==
  ASSUME TypeOK, Numbers, NEW s \in Sessions, None \notin Sessions, NEW d \in Wrappers, d[s] > 0,
         NEW rev, NEW before, Resumed(s, d, rev, before),
         ~Unanswered', scout' = FALSE, live'
  PROVE  Shows'
<1>1. cur' = s
  BY DEF Resumed
<1> DEFINE n == arrived'  v == visible'
<1>2. n \in 0..Variants /\ v = SavedVisible(s, n)
  <2>1. d[s] \in 0..(1 + Variants) /\ Variants \in Nat
    BY DEF Wrappers, Numbers
  <2> QED BY <2>1 DEF Resumed
<1>3. state' = IF n >= Variants THEN "CYCLING" ELSE "GENERATING"
  BY DEF Resumed
<1> HIDE DEF n, v
<1>4. v <= n /\ v \in 0..Variants /\ (n > 0 => v \in 1..n)
  BY <1>2, SavedVisibleFacts
<1>5. ShownIsArrived'
  BY <1>2, <1>4 DEF ShownIsArrived, n, v
<1>6. state' = "CYCLING" => v \in 1..n
  BY <1>2, <1>3, <1>4 DEF Numbers
<1>7. ShownVariantExists'
  BY <1>6 DEF ShownVariantExists, n, v
<1>8. ScoutIsFirst' /\ TornDownUnwatched' /\ AcceptedHasArrived' /\ AcceptedHasSession'
      /\ ActiveHasSession'
  BY <1>1 DEF ScoutIsFirst, TornDownUnwatched, AcceptedHasArrived, AcceptedHasSession,
              ActiveHasSession
<1> QED BY <1>5, <1>7, <1>8 DEF Shows

\* They see more variants, or none.
LEMMA ObserveStep ==
  ASSUME Overlay, NEW d \in Wrappers, Observed(d), Unanswered' => Unanswered,
         UNCHANGED <<live, overtaken>>,
         scout' = scout \/ scout' = FALSE, live /\ scout' => ~MoreVariants(d)
  PROVE  Shows'
<1>1. Shows /\ Numbers /\ TypeOK /\ observer \in {None, cur}
  BY OverlayFacts
<1>2. CASE ~MoreVariants(d)
  <2>1. UNCHANGED <<state, cur, observer, arrived, visible>>
    BY <1>2 DEF Observed, session
  <2> QED BY <1>1, <2>1, KeepStep
<1>3. CASE MoreVariants(d)
  <2> DEFINE n == arrived'  v == visible'
  <2>1. /\ cur # None /\ UNCHANGED <<cur, observer>>
        /\ live /\ ~scout'
    <3>1. observer # None
      BY <1>1, <1>3, MoreVariantsFacts
    <3>2. live
      BY <1>1, <3>1 DEF Shows, TornDownUnwatched
    <3>3. ~scout'
      BY <1>3, <3>2
    <3>4. UNCHANGED <<cur, observer>>
      BY <1>3 DEF Observed
    <3> QED BY <1>1, <3>1, <3>2, <3>3, <3>4
  <2>2. n = d[observer] - 1 /\ v = IF visible = 0 THEN SavedVisible(observer, n) ELSE visible
    BY <1>3 DEF Observed
  <2>3. state' \in {"CYCLING", state}
    BY <1>3 DEF Observed
  <2> HIDE DEF n, v
  <2>4. n \in 1..Variants /\ n > arrived
    BY <1>1, <1>3, <2>2, MoreVariantsFacts
  <2>5. v \in 1..n
    <3>1. CASE visible = 0
      <4>1. n \in 0..Variants /\ n > 0 /\ v = SavedVisible(observer, n)
        BY <1>1, <2>2, <2>4, <3>1 DEF Numbers
      <4> QED BY <1>1, <4>1, SavedVisibleFacts
    <3>2. CASE visible # 0
      BY <1>1, <2>2, <2>4, <3>2 DEF Shows, ShownIsArrived, Numbers
    <3> QED BY <3>1, <3>2
  <2>6. ShownIsArrived' /\ ShownVariantExists'
    BY <2>4, <2>5 DEF ShownIsArrived, ShownVariantExists, n, v
  <2>7. arrived' > 0
    BY <2>4 DEF n
  <2>8. ScoutIsFirst' /\ TornDownUnwatched' /\ AcceptedHasArrived' /\ AcceptedHasSession'
        /\ ActiveHasSession'
    BY <2>1, <2>7 DEF ScoutIsFirst, TornDownUnwatched, AcceptedHasArrived, AcceptedHasSession,
                ActiveHasSession
  <2> QED BY <2>6, <2>8 DEF Shows
<1> QED BY <1>2, <1>3

\* An accept is sent.
LEMMA AcceptStep ==
  ASSUME Overlay, live, Accept
  PROVE  Shows'
<1>1. Shows /\ Numbers /\ TypeOK
  BY OverlayFacts
<1>2. /\ state' = "SAVING" /\ cur # None /\ arrived > 0 /\ visible' \in {visible, 1}
      /\ UNCHANGED <<cur, observer, arrived, overtaken>>
  BY DEF Accept, Shown, history
<1>3. live' = live /\ scout' = scout
  BY DEF Accept, page
<1>4. visible' <= arrived' /\ visible' > 0 /\ arrived' > 0
  BY <1>1, <1>2 DEF Shows, ShownIsArrived, Numbers
<1>5. ShownIsArrived' /\ ShownVariantExists'
  BY <1>2, <1>4 DEF ShownIsArrived, ShownVariantExists
<1>6. ~scout'
  <2>1. ~(arrived = 0)
    BY <1>1, <1>2 DEF Numbers
  <2> QED BY <1>1, <1>3, <2>1 DEF Shows, ScoutIsFirst
<1>7. AcceptedHasArrived' /\ AcceptedHasSession' /\ ActiveHasSession'
  BY <1>2, <1>4 DEF AcceptedHasArrived, AcceptedHasSession, ActiveHasSession
<1>8. TornDownUnwatched' /\ ScoutIsFirst'
  BY <1>3, <1>6 DEF TornDownUnwatched, ScoutIsFirst
<1> QED BY <1>5, <1>7, <1>8 DEF Shows

\* An accept fails, whatever the overlay has come to meanwhile.
LEMMA AcceptFailsStep ==
  ASSUME Overlay, NEW p \in posts, AcceptFails(p)
  PROVE  Shows'
<1>1. Shows /\ Numbers /\ TypeOK
  BY OverlayFacts
<1>2. /\ state' = "CYCLING"
      /\ UNCHANGED <<cur, observer, arrived, visible, overtaken>>
      /\ live' = live /\ scout' = scout
  BY DEF AcceptFails, history, page
<1>3. Unanswered /\ (Unanswered' => Unanswered)
  BY DEF AcceptFails, Unanswered
<1>4. ScoutIsFirst' /\ TornDownUnwatched' /\ AcceptedHasArrived' /\ AcceptedHasSession'
  BY <1>1, <1>2, <1>3
     DEF Shows, ScoutIsFirst, TornDownUnwatched, AcceptedHasArrived, AcceptedHasSession
<1>5. ActiveHasSession'
  BY <1>1, <1>2, <1>3 DEF Shows, ActiveHasSession, AcceptedHasSession
<1>6. ShownIsArrived' /\ ShownVariantExists'
  BY <1>1, <1>2, <1>3
     DEF Shows, ShownIsArrived, ShownVariantExists, AcceptedHasArrived, Numbers
<1> QED BY <1>4, <1>5, <1>6 DEF Shows

\* The agent is done: the overlay cycles if everything has arrived.
LEMMA DoneStep ==
  ASSUME Overlay, DoneArrives
  PROVE  Shows'
<1>1. Shows /\ Numbers /\ TypeOK
  BY OverlayFacts
<1>2. /\ UNCHANGED <<cur, observer, arrived, visible, posts, overtaken>>
      /\ live' = live /\ scout' = scout
  BY DEF DoneArrives, history
<1>3. Unanswered' <=> Unanswered
  BY <1>2 DEF Unanswered
<1>4. CASE state' = state
  BY <1>1, <1>2, <1>3, <1>4, KeepStep
<1>5. CASE state' # state
  <2>1. state = "GENERATING" /\ arrived >= Variants /\ state' = "CYCLING"
    BY <1>5 DEF DoneArrives
  <2>2. ShownIsArrived' /\ ShownVariantExists'
    BY <1>1, <1>2, <2>1 DEF Shows, ShownIsArrived, ShownVariantExists, Numbers
  <2>3. ActiveHasSession'
    BY <1>1, <1>2, <2>1 DEF Shows, ActiveHasSession
  <2>4. ScoutIsFirst' /\ TornDownUnwatched' /\ AcceptedHasArrived' /\ AcceptedHasSession'
    BY <1>1, <1>2, <1>3
       DEF Shows, ScoutIsFirst, TornDownUnwatched, AcceptedHasArrived, AcceptedHasSession
  <2> QED BY <2>2, <2>3, <2>4 DEF Shows
<1> QED BY <1>4, <1>5

\* The overlay is torn down.
LEMMA TeardownStep ==
  ASSUME Overlay, Teardown
  PROVE  Shows'
<1>1. Shows
  BY OverlayFacts
<1>2. /\ live' = FALSE /\ observer' = None /\ state' = "IDLE"
      /\ UNCHANGED <<arrived, visible, scout, posts, overtaken>>
  BY DEF Teardown
<1>3. Unanswered' <=> Unanswered
  BY <1>2 DEF Unanswered
<1>4. ScoutIsFirst' /\ TornDownUnwatched' /\ AcceptedHasArrived' /\ AcceptedHasSession'
  BY <1>1, <1>2, <1>3
     DEF Shows, ScoutIsFirst, TornDownUnwatched, AcceptedHasArrived, AcceptedHasSession
<1>5. ShownIsArrived' /\ ShownVariantExists' /\ ActiveHasSession'
  BY <1>1, <1>2 DEF Shows, ShownIsArrived, ShownVariantExists, ActiveHasSession
<1> QED BY <1>4, <1>5 DEF Shows

\* The document changes.
LEMMA DocumentShows ==
  ASSUME Overlay, NEW s \in Sessions, HotUpdate(s) \/ SwapTimer(s)
  PROVE  Shows'
<1>1. Shows /\ Numbers /\ TypeOK /\ None \notin Sessions /\ observer \in {None, cur}
  BY OverlayFacts
<1>2. /\ [dom EXCEPT ![s] = source[s]] \in Wrappers
      /\ [dom EXCEPT ![s] = 0] \in Wrappers
  BY <1>1, ConstantsAssumption DEF TypeOK, Wrappers
<1>3. PICK d \in Wrappers : DocumentBecomes(d)
  BY <1>2 DEF HotUpdate, SwapTimer
<1>4. UNCHANGED <<posts, overtaken>> /\ live' = live
  BY <1>3 DEF HotUpdate, SwapTimer, DocumentBecomes
<1>5. Unanswered' <=> Unanswered
  BY <1>4 DEF Unanswered
<1>6. CASE live /\ scout /\ \E t \in Sessions : d[t] > 0
  <2>1. scout' = FALSE
    BY <1>3, <1>6 DEF DocumentBecomes
  <2>2. ~Unanswered
    BY <1>1, <1>6 DEF Shows, ScoutIsFirst
  <2>3. PICK t \in Sessions : d[t] > 0 /\ (Resumed(t, d, revision, values) \/ Observed(d))
    BY <1>3, <1>6 DEF DocumentBecomes
  <2>4. CASE Resumed(t, d, revision, values)
    <3>1. live' /\ ~Unanswered'
      BY <1>4, <1>5, <1>6, <2>2
    <3> QED BY <1>1, <2>1, <2>3, <2>4, <3>1, ResumeStep
  <2>5. CASE Observed(d)
    BY <1>4, <1>5, <2>1, <2>5, ObserveStep
  <2> QED BY <2>3, <2>4, <2>5
<1>7. CASE ~(live /\ scout /\ \E t \in Sessions : d[t] > 0)
  <2>1. Observed(d) /\ scout' = scout
    BY <1>3, <1>7 DEF DocumentBecomes
  <2>2. ASSUME live, scout' PROVE ~MoreVariants(d)
    <3>1. ~(\E t \in Sessions : d[t] > 0)
      BY <1>7, <2>1, <2>2
    <3>2. ASSUME MoreVariants(d) PROVE FALSE
      BY <1>1, <3>1, <3>2, MoreVariantsFacts
    <3> QED BY <3>2
  <2> QED BY <1>4, <1>5, <2>1, <2>2, ObserveStep
<1> QED BY <1>6, <1>7

\* The page is loaded again: nobody waits for an answer.
LEMMA ReloadShows ==
  ASSUME Overlay, Reload
  PROVE  Shows'
<1>1. Numbers /\ TypeOK /\ None \notin Sessions
  BY OverlayFacts
<1>2. ~Unanswered'
  <2>1. posts' = {[p EXCEPT !.status = "orphan"] : p \in {q \in posts : q.status \in {"sent", "orphan"}}}
    BY DEF Reload
  <2>2. ASSUME NEW p \in posts' PROVE p.status = "orphan"
    BY <1>1, <2>1 DEF TypeOK, Posts
  <2> QED BY <2>2 DEF Unanswered
<1>3. live' = TRUE
  BY DEF Reload
<1>4. CASE state' = "IDLE" /\ observer' = None /\ arrived' = 0 /\ visible' = 0
  BY <1>2, <1>3, <1>4
     DEF Shows, ScoutIsFirst, TornDownUnwatched, ShownIsArrived, AcceptedHasArrived,
         AcceptedHasSession, ActiveHasSession, ShownVariantExists
<1>5. CASE scout' = FALSE /\ \E s \in Sessions : dom'[s] > 0 /\ Resumed(s, dom', 0, NoValues)
  <2> DEFINE d == dom'
  <2>1. d \in Wrappers
    BY <1>1, ConstantsAssumption DEF Reload, FreshDocuments, TypeOK, Wrappers
  <2>2. PICK s \in Sessions : d[s] > 0 /\ Resumed(s, d, 0, NoValues)
    BY <1>5
  <2> HIDE DEF d
  <2> QED BY <1>1, <1>2, <1>3, <1>5, <2>1, <2>2, ResumeStep
<1> QED BY <1>4, <1>5 DEF Reload

\* The rest keeps the session.
LEMMA KeepActions ==
  ASSUME Overlay,
         \/ Pick \/ Scroll \/ Cycle \/ OpenTune \/ Tune \/ Discard \/ ErrorArrives \/ ServerLost
         \/ \E n \in 1..Variants : Dot(n)
         \/ \E s \in Sessions : Emit(s) \/ Write(s) \/ Answer(s) \/ Splice(s)
         \/ \E p \in posts : AcceptConfirmed(p) \/ Receive(p) \/ Refuse(p)
         \/ CheckpointTimer \/ UNCHANGED vars
  PROVE  Shows'
<1> DEFINE Kept ==
      /\ UNCHANGED <<cur, live, arrived, overtaken>>
      /\ scout' = scout
      /\ observer' \in {observer, None}
      /\ visible' = visible \/ visible' \in 1..arrived
      /\ state' \in {state, "IDLE", "PICKING", "CONFIGURING", "CONFIRMED"}
<1>1. Shows /\ Numbers /\ TypeOK
  BY OverlayFacts
<1>2. CASE Pick \/ Scroll \/ OpenTune \/ Tune \/ CheckpointTimer \/ UNCHANGED vars
  <2>1. Kept /\ posts' = posts
    BY <1>2 DEF Pick, Scroll, OpenTune, Tune, CheckpointTimer, vars, session, page, history
  <2>2. Unanswered' <=> Unanswered
    BY <2>1 DEF Unanswered
  <2> QED BY <1>1, <2>1, <2>2, KeepStep
<1>3. CASE Cycle \/ ErrorArrives \/ ServerLost \/ \E n \in 1..Variants : Dot(n)
  <2>1. Kept /\ posts' = posts
    <3>1. CASE Cycle
      BY <3>1 DEF Cycle, history
    <3>2. CASE ErrorArrives
      BY <3>2 DEF ErrorArrives, page, history
    <3>3. CASE ServerLost
      BY <3>3 DEF ServerLost, page, history
    <3>4. CASE \E n \in 1..Variants : Dot(n)
      <4>1. PICK n \in 1..Variants : Dot(n)
        BY <3>4
      <4>2. visible' \in 1..arrived
        BY <4>1, <1>1 DEF Dot, Numbers
      <4> QED BY <4>1, <4>2 DEF Dot, history
    <3> QED BY <1>3, <3>1, <3>2, <3>3, <3>4
  <2>2. Unanswered' <=> Unanswered
    BY <2>1 DEF Unanswered
  <2> QED BY <1>1, <2>1, <2>2, KeepStep
<1>4. CASE \E s \in Sessions : Write(s) \/ Answer(s) \/ Splice(s)
  <2>1. Kept /\ posts' = posts
    BY <1>4 DEF Write, Answer, Splice, session, page, history
  <2>2. Unanswered' <=> Unanswered
    BY <2>1 DEF Unanswered
  <2> QED BY <1>1, <2>1, <2>2, KeepStep
<1>5. CASE Discard \/ \E s \in Sessions : Emit(s)
  <2>1. Kept
    BY <1>5 DEF Discard, Emit, session, page, history
  <2>2. PICK q : posts' = posts \cup {q} /\ q.type \in {"generate", "discard"}
    <3>1. ASSUME NEW type, NEW s, NEW n PROVE Post(type, s, n, "sent").type = type
      BY DEF Post
    <3>2. CASE Discard
      <4>1. PICK n : posts' = posts \cup {Post("discard", cur, n, "sent")}
        BY <3>2 DEF Discard
      <4> QED BY <3>1, <4>1
    <3>3. CASE \E s \in Sessions : Emit(s)
      <4>1. PICK s : posts' = posts \cup {Post("generate", s, 1, "sent")}
        BY <3>3 DEF Emit
      <4> QED BY <3>1, <4>1
    <3> QED BY <1>5, <3>2, <3>3
  <2>3. Unanswered' => Unanswered
    BY <2>2 DEF Unanswered
  <2> QED BY <1>1, <2>1, <2>3, KeepStep
<1>6. CASE \E p \in posts : AcceptConfirmed(p)
  <2>1. Kept /\ posts' \subseteq posts
    BY <1>6 DEF AcceptConfirmed, page, history
  <2>2. Unanswered' => Unanswered
    BY <2>1 DEF Unanswered
  <2> QED BY <1>1, <2>1, <2>2, KeepStep
<1>7. CASE \E p \in posts : Receive(p) \/ Refuse(p)
  <2>1. PICK p \in posts : Receive(p) \/ Refuse(p)
    BY <1>7
  <2>2. Kept
    BY <2>1 DEF Receive, Refuse, session, page, history
  <2>3. PICK status \in {"ok", "failed"} : posts' = (posts \ {p}) \cup Answered(p, status)
    BY <2>1 DEF Receive, Refuse
  <2>4. p \in Posts /\ p.status \in {"sent", "orphan"}
    BY <1>1, <2>1 DEF TypeOK, Receive, Refuse
  <2>5. \A q \in Answered(p, status) : q.type = p.type /\ p.status = "sent"
    BY <2>4, AnsweredFacts
  <2>6. Unanswered' => Unanswered
    BY <2>1, <2>3, <2>5 DEF Unanswered
  <2> QED BY <1>1, <2>2, <2>6, KeepStep
<1> QED BY <1>2, <1>3, <1>4, <1>5, <1>6, <1>7

LEMMA LeaveActions ==
  ASSUME Overlay, ConfirmTimer \/ \E p \in posts : DiscardConfirmed(p)
  PROVE  Shows'
<1>1. Leave /\ posts' \subseteq posts /\ UNCHANGED <<arrived, visible, scout, live>>
  BY DEF ConfirmTimer, DiscardConfirmed
<1>2. Unanswered' => Unanswered
  BY <1>1 DEF Unanswered
<1> QED BY <1>1, <1>2, OverlayFacts, LeaveStep

LEMMA ShowsStep ==
  ASSUME Overlay, [Next]_vars
  PROVE  Shows'
<1>1. CASE Listeners
  <2>1. ASSUME NEW s \in Sessions, Go(s) PROVE Shows'
    BY <1>1, <2>1, OverlayFacts, BeginStep DEF Listeners
  <2> QED BY <1>1, <2>1, KeepActions, AcceptStep, TeardownStep, DoneStep DEF Listeners
<1>2. CASE Continuations
  BY <1>2, KeepActions, AcceptFailsStep, LeaveActions DEF Continuations
<1>3. CASE Document
  BY <1>3, DocumentShows DEF Document
<1>4. CASE Reload
  BY <1>4, ReloadShows
<1>5. CASE Outside
  BY <1>5, KeepActions DEF Outside
<1>6. CASE UNCHANGED vars
  BY <1>6, KeepActions
<1> QED BY <1>1, <1>2, <1>3, <1>4, <1>5, <1>6 DEF Next

LEMMA OverlayHolds == Spec => []Overlay
<1>1. Init => Overlay
  BY InitType, InitInv, InitShows DEF Overlay, Shows
<1>2. Overlay /\ [Next]_vars => Overlay'
  BY TypeStep, InvStep, ShowsStep DEF Overlay, Shows
<1> QED BY <1>1, <1>2, PTL DEF Spec

\* A page with a state that has the buttons of a session has a session, for any
\* number of sessions whose timers and late answers cross, unless a timer or a
\* discard left the session of an accept that was still unanswered: only then
\* can handleAccept's failure bring the buttons back to nothing.
THEOREM ActiveStatesHaveSession == Spec => []ActiveHasSession
<1>1. Overlay => ActiveHasSession
  BY DEF Overlay
<1> QED BY <1>1, OverlayHolds, PTL

\* While the overlay cycles, the variant that an accept would name has arrived,
\* for any number of sessions, late variants, hot updates and reloads, unless a
\* session was begun before an accept of an earlier one was answered.
THEOREM ShownVariantsExist == Spec => []ShownVariantExists
<1>1. Overlay => ShownVariantExists
  BY DEF Overlay
<1> QED BY <1>1, OverlayHolds, PTL

-----------------------------------------------------------------------------
(* The values of the panel *)

\* What ValuesFollowVariant says of a step.
Follows ==
  state' = "CYCLING" /\ cur' # None /\ (\A p \in posts \ posts' : p.type # "accept")
    /\ <<state, cur, visible>>' # <<state, cur, visible>>
    /\ visible' \in Knobs /\ visible' < dom'[cur']
  => values' = [id |-> cur', variant |-> visible']

\* The defaults of a variant that is there and has parameters.
LEMMA TunableValues ==
  ASSUME NEW s, s # None, NEW n \in Knobs, NEW d, n < d[s]
  PROVE  Refreshed("CYCLING", s, n, d) = [id |-> s, variant |-> n]
BY DEF Refreshed, Tunable

LEMMA ShownValues ==
  ASSUME NEW s \in Sessions, s # None, NEW n \in Knobs, NEW d \in Wrappers, n < d[s], NEW before
  PROVE  ShownInDOM("CYCLING", s, n, d, before) = [id |-> s, variant |-> n]
<1>1. d[s] > 0
  BY ConstantsAssumption DEF Wrappers
<1> QED BY <1>1, TunableValues DEF ShownInDOM

LEMMA ResumedFollows ==
  ASSUME NEW s \in Sessions, NEW d, dom' = d, NEW rev, NEW before, Resumed(s, d, rev, before)
  PROVE  Follows
<1> SUFFICES ASSUME state' = "CYCLING", cur' # None, visible' \in Knobs, visible' < d[cur']
             PROVE  values' = [id |-> cur', variant |-> visible']
  BY DEF Follows
<1>1. cur' = s /\ s # None /\ Variants \in Nat \ {0}
  BY ConstantsAssumption DEF Resumed
<1> DEFINE v == visible'
<1>2. v \in Knobs /\ v < d[s]
  BY <1>1
<1>3. ~(arrived' = 0)
  BY <1>1 DEF Resumed
<1>4. values' = Refreshed("CYCLING", s, v, d)
  BY <1>3 DEF Resumed
<1> HIDE DEF v
<1>5. values' = [id |-> s, variant |-> v]
  BY <1>1, <1>2, <1>4, TunableValues
<1> QED BY <1>1, <1>5 DEF v

LEMMA ObservedFollows ==
  ASSUME TypeOK, NEW d \in Wrappers, dom' = d, Observed(d)
  PROVE  Follows
<1> SUFFICES ASSUME state' = "CYCLING", cur' # None, visible' \in Knobs, visible' < d[cur'],
                    <<state, cur, visible>>' # <<state, cur, visible>>
             PROVE  values' = [id |-> cur', variant |-> visible']
  BY DEF Follows
<1>1. MoreVariants(d)
  BY DEF Observed, session
<1>2. cur' = cur /\ cur \in Sessions /\ cur # None
  BY <1>1 DEF Observed, TypeOK
<1> DEFINE v == visible'
<1>3. v \in Knobs /\ v < d[cur]
  BY <1>2
<1>4. CASE arrived' >= Variants
  <2>1. values' = Refreshed("CYCLING", cur, v, d)
    BY <1>1, <1>4 DEF Observed
  <2> HIDE DEF v
  <2>2. values' = [id |-> cur, variant |-> v]
    BY <1>2, <1>3, <2>1, TunableValues
  <2> QED BY <1>2, <2>2 DEF v
<1>5. CASE ~(arrived' >= Variants)
  <2>1. state' = state
    BY <1>1, <1>5 DEF Observed
  <2>2. visible = 0
    BY <1>1, <1>2, <2>1 DEF Observed
  <2>3. values' = ShownInDOM("CYCLING", cur, v, d, values)
    BY <1>1, <1>5, <2>1, <2>2 DEF Observed
  <2> HIDE DEF v
  <2>4. values' = [id |-> cur, variant |-> v]
    BY <1>2, <1>3, <2>3, ShownValues
  <2> QED BY <1>2, <2>4 DEF v
<1> QED BY <1>4, <1>5

\* Steps that do not show a variant.
LEMMA NothingShown ==
  ASSUME \/ UNCHANGED <<state, cur, visible>>
         \/ state' # "CYCLING"
         \/ \E p \in posts : p \notin posts' /\ p.type = "accept"
  PROVE  Follows
BY DEF Follows

LEMMA CycleFollows ==
  ASSUME TypeOK, Cycle \/ \E n \in 1..Variants : Dot(n)
  PROVE  Follows
<1> DEFINE v == visible'
<1>1. /\ state = "CYCLING" /\ UNCHANGED <<state, cur, dom>>
      /\ values' = ShownInDOM("CYCLING", cur, v, dom, values)
  <2>1. CASE Cycle
    BY <2>1 DEF Cycle
  <2>2. CASE \E n \in 1..Variants : Dot(n)
    BY <2>2 DEF Dot, timers
  <2> QED BY <2>1, <2>2
<1> SUFFICES ASSUME cur # None, v \in Knobs, v < dom[cur]
             PROVE  values' = [id |-> cur, variant |-> v]
  BY <1>1 DEF Follows
<1> HIDE DEF v
<1>2. cur \in Sessions /\ dom \in Wrappers
  BY DEF TypeOK
<1> QED BY <1>1, <1>2, ShownValues

LEMMA DoneFollows ==
  ASSUME TypeOK, DoneArrives
  PROVE  Follows
<1>1. UNCHANGED <<cur, visible, dom>>
  BY DEF DoneArrives, timers
<1>2. CASE state' = state
  BY <1>1, <1>2, NothingShown
<1>3. CASE state' # state
  <2>1. values' = Refreshed("CYCLING", cur, visible, dom)
    BY <1>3 DEF DoneArrives
  <2> QED BY <1>1, <2>1, TunableValues DEF Follows
<1> QED BY <1>2, <1>3

LEMMA DocumentFollows ==
  ASSUME TypeOK, NEW s \in Sessions, HotUpdate(s) \/ SwapTimer(s)
  PROVE  Follows
<1>1. /\ [dom EXCEPT ![s] = source[s]] \in Wrappers
      /\ [dom EXCEPT ![s] = 0] \in Wrappers
  BY ConstantsAssumption DEF TypeOK, Wrappers
<1>2. PICK d \in Wrappers : DocumentBecomes(d)
  BY <1>1 DEF HotUpdate, SwapTimer
<1>3. dom' = d /\ (Observed(d) \/ \E t \in Sessions : Resumed(t, d, revision, values))
  BY <1>2 DEF DocumentBecomes
<1> QED BY <1>3, ObservedFollows, ResumedFollows

LEMMA ReloadFollows ==
  ASSUME Reload
  PROVE  Follows
<1>1. CASE state' = "IDLE"
  BY <1>1, NothingShown
<1>2. CASE \E s \in Sessions : Resumed(s, dom', 0, NoValues)
  <2> DEFINE d == dom'
  <2>1. PICK s \in Sessions : Resumed(s, d, 0, NoValues)
    BY <1>2
  <2>2. dom' = d
    OBVIOUS
  <2> HIDE DEF d
  <2> QED BY <2>1, <2>2, ResumedFollows
<1> QED BY <1>1, <1>2 DEF Reload

LEMMA FollowsStep ==
  ASSUME TypeOK, [Next]_vars
  PROVE  Follows
<1>1. CASE Listeners
  <2>1. CASE Pick \/ Accept \/ Teardown \/ ErrorArrives \/ \E s \in Sessions : Go(s)
    BY <2>1, NothingShown DEF Pick, Accept, Teardown, ErrorArrives, Go
  <2>2. CASE Scroll \/ OpenTune \/ Tune \/ Discard \/ ServerLost
    <3>1. state' # "CYCLING" \/ UNCHANGED <<state, cur, visible>>
      BY <2>2 DEF Scroll, OpenTune, Tune, Discard, ServerLost, session
    <3> QED BY <3>1, NothingShown
  <2>3. CASE Cycle \/ \E n \in 1..Variants : Dot(n)
    BY <2>3, CycleFollows
  <2>4. CASE DoneArrives
    BY <2>4, DoneFollows
  <2> QED BY <1>1, <2>1, <2>2, <2>3, <2>4 DEF Listeners
<1>2. CASE Continuations
  <2>1. CASE CheckpointTimer \/ \E s \in Sessions : Emit(s)
    BY <2>1, NothingShown DEF CheckpointTimer, Emit, session
  <2>2. CASE ConfirmTimer \/ \E p \in posts : AcceptConfirmed(p) \/ DiscardConfirmed(p)
    BY <2>2, NothingShown DEF ConfirmTimer, AcceptConfirmed, DiscardConfirmed, Leave
  <2>3. CASE \E p \in posts : AcceptFails(p)
    <3>1. \E p \in posts : p \notin posts' /\ p.type = "accept"
      BY <2>3 DEF AcceptFails
    <3> QED BY <3>1, NothingShown
  <2> QED BY <1>2, <2>1, <2>2, <2>3 DEF Continuations
<1>3. CASE Document
  BY <1>3, DocumentFollows DEF Document
<1>4. CASE Reload
  BY <1>4, ReloadFollows
<1>5. CASE Outside
  BY <1>5, NothingShown DEF Outside, Receive, Refuse, Write, Answer, Splice, session
<1>6. CASE UNCHANGED vars
  BY <1>6, NothingShown DEF vars, session
<1> QED BY <1>1, <1>2, <1>3, <1>4, <1>5, <1>6 DEF Next

\* paramsCurrentValues is of the variant that is shown whenever another one
\* comes on show or the overlay begins to cycle: by cycleVariant, a dot,
\* resumeSession, the variant observer, or SSE done; for any number of
\* sessions and variants.
THEOREM ValuesFollow == Spec => ValuesFollowVariant
<1>1. TypeOK /\ [Next]_vars => Follows
  BY FollowsStep
<1>2. Follows
       => [state' = "CYCLING" /\ cur' # None /\ (\A p \in posts \ posts' : p.type # "accept")
             /\ <<state, cur, visible>>' # <<state, cur, visible>>
             /\ visible' \in Knobs /\ visible' < dom'[cur']
           => values' = [id |-> cur', variant |-> visible']]_vars
  BY DEF Follows
<1> QED BY <1>1, <1>2, BrowserTypeCorrect, PTL DEF Spec, ValuesFollowVariant

=============================================================================
