----------------------------- MODULE LiveServer -----------------------------
(***************************************************************************)
(* The live helper (live-server.mjs) between the browser overlay and the   *)
(* coding agent, with the CLIs of the agent (live-poll, live-complete,     *)
(* live-resume).  The server runs on one thread: an action is a request    *)
(* handler, a timer callback, or the death of a process.                   *)
(*                                                                         *)
(* A browser event is appended to the journal of its session and queued.   *)
(* A poll takes the first entry that is not leased, and leases it; a poll  *)
(* that finds none is parked, with a timer at the end of the next lease.   *)
(* The agent's reply removes the first entry of the session, whatever its  *)
(* type, and journals the answer.                                          *)
(***************************************************************************)
EXTENDS LiveStore, Places, SequencesExt

CONSTANTS
  Ids,         \* sessions
  Agents,      \* processes that poll
  NoId,        \* an event without a session
  Uncertain,   \* the disk and the network may fail as well as the processes
  MaxClients,  \* browser tabs with an SSE stream
  MaxExits,    \* exit events in the queue
  MaxFaults    \* crashes, interruptions and failures

ASSUME ConstantsAssumption ==
  /\ IsFiniteSet(Ids)
  /\ IsFiniteSet(Agents)
  /\ NoId \notin Ids
  /\ Uncertain \in BOOLEAN
  /\ MaxClients \in Nat
  /\ MaxExits \in Nat
  /\ MaxFaults \in Nat

VARIABLES
  up,         \* the server is listening
  queue,      \* state.pendingEvents
  leaseTimer, \* state.leaseTimer is set
  clients,    \* the number of state.sseClients
  exitTimer,  \* state.exitTimer is running
  journal,    \* the journal of each session
  agent,      \* what each agent does, for which session
  source,     \* what the project's source holds of each session
  parted,     \* the sessions whose journal and queue a failed write has parted
  slipped,    \* a lease has ended while a handler was looking for one that had
  faults      \* how many faults there have been

server == <<queue, leaseTimer, clients, exitTimer>>
ghosts == <<parted, slipped, faults>>
vars   == <<up, server, journal, agent, source, ghosts>>

\* An agent: what is the type of the event it handles, or its answer.
Does(p, i, what) == [pc |-> p, id |-> i, what |-> what]
Idle == Does("idle", NoId, "none")

Init ==
  /\ up = TRUE
  /\ queue = <<>>
  /\ leaseTimer = FALSE
  /\ clients = 0
  /\ exitTimer = FALSE
  /\ journal = [i \in Ids |-> BaseSnapshot]
  /\ agent = [a \in Agents |-> Idle]
  /\ source = [i \in Ids |-> "plain"]
  /\ parted = {}
  /\ slipped = FALSE
  /\ faults = 0

\* The next step is a fault.
Fault ==
  /\ faults < MaxFaults
  /\ faults' = faults + 1

-----------------------------------------------------------------------------
(* The queue *)

Entry(i, type) == [id |-> i, type |-> type, lease |-> "free"]

\* Mutant: an event is queued although it is there already.
NeverQueued(q, i, type) == FALSE

\* enqueueEvent looks for an entry with the same id and type.
Queued(q, i, type) ==
  /\ i # NoId
  /\ \E k \in DOMAIN q : q[k].id = i /\ q[k].type = type

Held(q) == {k \in DOMAIN q : q[k].lease = "held"}

Available(q) == DOMAIN q \ Held(q)

\* pendingPolls: the polls that wait for an event.
Waiting(ags) == {a \in Agents : ags[a].pc = "waiting"}

\* The leases of the entries in S become l.
Mark(q, S, l) == [k \in DOMAIN q |-> IF k \in S THEN [q[k] EXCEPT !.lease = l] ELSE q[k]]

\* Mutant: what is handed out leaves the queue at once.
HandedOutOnce(q, S) == Picked(q, Available(q) \ S)

\* Mutant: an exit is leased like a request.
LeasedExits(q, S) == Mark(q, S, "held")

\* leaseEvent on the entries in S: an event without an id cannot be
\* acknowledged and leaves the queue.
Leased(q, S) == Picked(Mark(q, S, "held"), {k \in DOMAIN q : k \in S => q[k].id # NoId})

\* Mutant: a poll is parked without a timer.
NeverScheduled(q, ags) == FALSE

\* scheduleLeaseFlush sets a timer for the next lease that ends, if a poll
\* waits.
Scheduled(q, ags) == Waiting(ags) # {} /\ Held(q) # {}

\* The first n entries that are not leased.
FirstAvailable(q, n) ==
  {k \in Available(q) : Cardinality({j \in Available(q) : j < k}) < n}

\* Entry k of q goes to the agent to[k], for each k in to's domain.
HandOut(q, ags, to) ==
  /\ queue' = Leased(q, DOMAIN to)
  /\ agent' = [a \in Agents |->
                 IF a \in Range(to)
                 THEN LET e == q[CHOOSE k \in DOMAIN to : to[k] = a]
                      IN Does("handling", e.id, e.type)
                 ELSE ags[a]]

\* A handler looks at the leases more than once, and reads the clock each
\* time: the leases of the entries in late end after it has looked for an
\* available entry and before it sets the timer.
Slip(late) ==
  /\ late = {} \/ Uncertain
  /\ slipped' = (slipped \/ late # {})

\* flushPendingPolls with the queue q and the agents ags: the first
\* available entries go to the polls that wait.  Which of two waiting polls
\* goes first is left open.
Flush(q, ags) ==
  \E late \in SUBSET Held(q),
     to \in Injection(FirstAvailable(q, Cardinality(Waiting(ags))), Waiting(ags)) :
    /\ Slip(late)
    /\ HandOut(Mark(q, late, "expired"), ags, to)
    /\ leaseTimer' = Scheduled(queue', agent')

\* enqueueEvent, with the queue q: nothing more happens to an event that is
\* there already.
Enqueue(i, type) ==
  IF Queued(queue, i, type)
  THEN UNCHANGED <<queue, agent, leaseTimer, slipped>>
  ELSE Flush(Append(queue, Entry(i, type)), agent)

\* Mutant: an answer takes every entry of its session away.
AcknowledgedAll(q, i) == Picked(q, {k \in DOMAIN q : q[k].id # i})

\* acknowledgePendingEvent removes the first entry with this id.
Acknowledged(q, i) ==
  Picked(q, {k \in DOMAIN q : q[k].id = i => \E j \in DOMAIN q : j < k /\ q[j].id = i})

-----------------------------------------------------------------------------
(* What the browser sends *)

\* The overlay makes a new id for each generate, and speaks of a session
\* only after it.
Speaks(i, type) == (type = "generate") <=> (journal[i].phase = "new")

\* POST /events: first the journal, then the queue.
Post(i, type) ==
  /\ up
  /\ Speaks(i, type)
  /\ journal' = [journal EXCEPT ![i] = Requested(@, type)]
  /\ Enqueue(i, type)
  /\ UNCHANGED <<up, clients, exitTimer, source, parted, faults>>

\* appendEvent writes the line and then the snapshot file; if the second
\* write throws, the browser gets a 500 and nothing is queued.
PostHalfFails(i, type) ==
  /\ up /\ Uncertain /\ Fault
  /\ Speaks(i, type)
  /\ journal' = [journal EXCEPT ![i] = Requested(@, type)]
  /\ parted' = parted \cup {i}
  /\ UNCHANGED <<up, server, agent, source, slipped>>

\* POST /events with a checkpoint: it is journaled and not queued.
PostCheckpoint(i, phase) ==
  /\ up
  /\ journal[i].phase # "new"
  /\ journal' = [journal EXCEPT ![i] = Checkpointed(@, phase, @.revision, @.visible)]
  /\ UNCHANGED <<up, server, agent, source, ghosts>>

Exits(q) == {k \in DOMAIN q : q[k].id = NoId}

\* POST /events with exit, from the overlay's exit button.
PostExit ==
  /\ up
  /\ clients > 0
  /\ Cardinality(Exits(queue)) < MaxExits
  /\ Enqueue(NoId, "exit")
  /\ UNCHANGED <<up, clients, exitTimer, journal, source, parted, faults>>

\* GET /events: a tab opens its SSE stream.
Connect ==
  /\ up
  /\ clients < MaxClients
  /\ clients' = clients + 1
  /\ exitTimer' = FALSE
  /\ UNCHANGED <<up, queue, leaseTimer, journal, agent, source, ghosts>>

\* A stream closes; the last one starts the exit timer.
Disconnect ==
  /\ up
  /\ clients > 0
  /\ clients' = clients - 1
  /\ exitTimer' = (clients = 1)
  /\ UNCHANGED <<up, queue, leaseTimer, journal, agent, source, ghosts>>

\* Eight seconds without a stream.
ExitTimerFires ==
  /\ up
  /\ exitTimer
  /\ Cardinality(Exits(queue)) < MaxExits
  /\ exitTimer' = FALSE
  /\ IF clients = 0
     THEN Enqueue(NoId, "exit")
     ELSE UNCHANGED <<queue, agent, leaseTimer, slipped>>
  /\ UNCHANGED <<up, clients, journal, source, parted, faults>>

-----------------------------------------------------------------------------
(* Polls and leases *)

\* GET /poll: the first available entry, or parked.
PollGet(a) ==
  /\ up
  /\ agent[a].pc = "idle"
  /\ IF Available(queue) # {}
     THEN /\ \E k \in FirstAvailable(queue, 1) : HandOut(queue, agent, [j \in {k} |-> a])
          /\ UNCHANGED <<leaseTimer, slipped>>
     ELSE \E late \in SUBSET Held(queue) :
            /\ Slip(late)
            /\ queue' = Mark(queue, late, "expired")
            /\ agent' = [agent EXCEPT ![a] = Does("waiting", NoId, "none")]
            /\ leaseTimer' = Scheduled(queue', agent')
  /\ UNCHANGED <<up, clients, exitTimer, journal, source, parted, faults>>

\* The slice of a parked poll is over: the CLI polls again.
PollTimeout(a) ==
  /\ agent[a].pc = "waiting"
  /\ agent' = [agent EXCEPT ![a] = Idle]
  /\ UNCHANGED <<up, server, journal, source, ghosts>>

\* leaseUntil is in the past.
LeaseEnds(k) ==
  /\ k \in Held(queue)
  /\ queue' = Mark(queue, {k}, "expired")
  /\ UNCHANGED <<up, leaseTimer, clients, exitTimer, journal, agent, source, ghosts>>

\* The timer of scheduleLeaseFlush.  A timer may be early by a fraction of a
\* millisecond, so that no lease has ended yet.
LeaseTimerFires ==
  /\ up
  /\ leaseTimer
  /\ Flush(queue, agent)
  /\ UNCHANGED <<up, clients, exitTimer, journal, source, parted, faults>>

-----------------------------------------------------------------------------
(* The agent *)

\* The agent has been handed a request of one of these types.
Handles(a, types) == agent[a].pc = "handling" /\ agent[a].what \in types

\* POST /poll with an answer for the session of agent a, which then does next.
Reply(a, ans, next) ==
  /\ up
  /\ Flush(Acknowledged(queue, agent[a].id), [agent EXCEPT ![a] = next])
  /\ UNCHANGED <<up, clients, exitTimer>>
  /\ \/ /\ journal' = [journal EXCEPT ![agent[a].id] = Settled(@, ans)]
        /\ UNCHANGED <<parted, faults>>
     \/ \* The reply path is best effort: an append that throws is ignored.
        /\ Uncertain /\ Fault
        /\ parted' = parted \cup {agent[a].id}
        /\ UNCHANGED journal

\* The agent wraps the element and writes the variants.
WriteVariants(a) ==
  /\ Handles(a, {"generate"})
  /\ source' = [source EXCEPT ![agent[a].id] = "variants"]
  /\ UNCHANGED <<up, server, journal, agent, ghosts>>

\* It replies done, or gives up and replies error, with the port and the token
\* that it reads then.
Generate(a) ==
  /\ Handles(a, {"generate"})
  /\ \/ source[agent[a].id] = "variants" /\ Reply(a, "agent_done", Idle)
     \/ Reply(a, "agent_error", Idle)
  /\ UNCHANGED source

\* live-poll runs live-accept.mjs, and completionTypeForAcceptResult turns
\* its result into an answer.  An accept may leave CSS to be folded in.  A
\* session that is not in the source cannot be spliced; one in a generated
\* file is left to the agent in the same way.
Splice(a) ==
  /\ Handles(a, {"accept", "discard"})
  /\ LET i == agent[a].id
         result(src, ans) ==
           /\ source' = [source EXCEPT ![i] = src]
           /\ agent' = [agent EXCEPT ![a] = Does("replying", i, ans)]
     IN IF source[i] = "variants"
        THEN \/ agent[a].what = "discard" /\ result("plain", "discarded")
             \/ agent[a].what = "accept" /\ result("plain", "complete")
             \/ agent[a].what = "accept" /\ result("carbonize", "carbonize")
        ELSE \/ agent[a].what = "discard" /\ result(source[i], "agent_error")
             \/ agent[a].what = "accept" /\ result(source[i], "agent_done")
  /\ UNCHANGED <<up, server, journal, ghosts>>

\* live-accept.mjs throws or takes too long, before it has written the file.
SpliceFails(a) ==
  /\ Uncertain /\ Fault
  /\ Handles(a, {"accept", "discard"})
  /\ agent' = [agent EXCEPT ![a] = Does("replying", agent[a].id, "agent_error")]
  /\ UNCHANGED <<up, server, journal, source, parted, slipped>>

\* live-poll posts the answer.
PostReply(a) ==
  /\ agent[a].pc = "replying"
  /\ Reply(a, agent[a].what,
           IF agent[a].what = "carbonize" THEN Does("cleanup", agent[a].id, "none") ELSE Idle)
  /\ UNCHANGED source

\* The agent folds the accepted CSS into the source and runs live-complete,
\* which posts complete to the server.
Complete(a) ==
  /\ agent[a].pc = "cleanup"
  /\ source' = [source EXCEPT ![agent[a].id] = "plain"]
  /\ Reply(a, "complete", Idle)

\* live-complete without an answer from a server writes the journal itself.
CompleteOffline(a) ==
  /\ agent[a].pc = "cleanup"
  /\ IF up THEN Uncertain /\ Fault ELSE UNCHANGED faults
  /\ source' = [source EXCEPT ![agent[a].id] = "plain"]
  /\ journal' = [journal EXCEPT ![agent[a].id] = Settled(@, "complete")]
  /\ agent' = [agent EXCEPT ![a] = Idle]
  /\ UNCHANGED <<up, server, parted, slipped>>

\* After an interruption live-resume tells the agent to finish a cleanup.
Resume(a) ==
  /\ agent[a].pc = "idle"
  /\ \E i \in Ids :
       /\ NextAction(journal[i]) = "carbonize"
       /\ agent' = [agent EXCEPT ![a] = Does("cleanup", i, "none")]
  /\ UNCHANGED <<up, server, journal, source, ghosts>>

\* The agent or its CLI is interrupted, or the response to a poll is lost.
\* The server takes a parked poll off its list when the connection closes.
Interrupt(a) ==
  /\ Fault
  /\ agent[a].pc # "idle"
  /\ agent' = [agent EXCEPT ![a] = Idle]
  /\ UNCHANGED <<up, server, journal, source, parted, slipped>>

-----------------------------------------------------------------------------
(* The life of the server *)

\* The process ends.  Parked polls get exit or an error; a live-poll that is
\* between its event and its reply holds the old port and token, and its
\* reply can only fail.
Down(ags) ==
  /\ up
  /\ up' = FALSE
  /\ queue' = <<>>
  /\ leaseTimer' = FALSE
  /\ clients' = 0
  /\ exitTimer' = FALSE
  /\ slipped' = FALSE
  /\ agent' = [a \in Agents |-> IF ags[a].pc \in {"waiting", "replying"} THEN Idle ELSE ags[a]]
  /\ UNCHANGED <<journal, source, parted>>

Crash == Fault /\ Down(agent)

\* The agent stops the server when it is handed exit.
Stop(a) ==
  /\ Handles(a, {"exit"})
  /\ IF up
     THEN Down([agent EXCEPT ![a] = Idle])
     ELSE /\ agent' = [agent EXCEPT ![a] = Idle]
          /\ UNCHANGED <<up, server, journal, source, parted, slipped>>
  /\ UNCHANGED faults

\* Mutant: a restart begins with an empty queue.
NothingToRestore == {}

\* restorePendingEventsFromStore asks listActiveSessions for these.
ToRestore == {i \in Ids : IsActive(journal[i]) /\ journal[i].pending # "none"}

\* In which order sessions are restored, by their ids, is left open.
Restart ==
  /\ ~up
  /\ up' = TRUE
  /\ \E order \in SetToSeqs(ToRestore) :
       queue' = [k \in DOMAIN order |-> Entry(order[k], journal[order[k]].pending)]
  /\ parted' = {}
  /\ UNCHANGED <<leaseTimer, clients, exitTimer, journal, agent, source, slipped, faults>>

-----------------------------------------------------------------------------
Browser ==
  \/ \E i \in Ids, type \in Requests : Post(i, type) \/ PostHalfFails(i, type)
  \/ \E i \in Ids, phase \in {"cycling"} : PostCheckpoint(i, phase)
  \/ PostExit \/ Connect \/ Disconnect

Agent(a) ==
  \/ PollGet(a) \/ PollTimeout(a)
  \/ Generate(a) \/ WriteVariants(a) \/ Splice(a) \/ SpliceFails(a) \/ PostReply(a)
  \/ Complete(a) \/ CompleteOffline(a) \/ Resume(a) \/ Interrupt(a) \/ Stop(a)

Next ==
  \/ Browser
  \/ \E a \in Agents : Agent(a)
  \/ \E k \in DOMAIN queue : LeaseEnds(k)
  \/ ExitTimerFires \/ LeaseTimerFires
  \/ Crash \/ Restart

Spec == Init /\ [][Next]_vars

\* Timers fire, the agent keeps polling, answers what it is handed and, if it
\* has stopped the server, starts it again.
Serving ==
  /\ WF_vars(Restart)
  /\ WF_vars(LeaseTimerFires)
  /\ \A k \in 1..(3 * Cardinality(Ids) + MaxExits) : WF_vars(k \in DOMAIN queue /\ LeaseEnds(k))
  /\ \A a \in Agents :
       /\ WF_vars(PollGet(a)) /\ WF_vars(PollTimeout(a))
       /\ WF_vars(Generate(a)) /\ WF_vars(Splice(a)) /\ WF_vars(PostReply(a))
       /\ WF_vars(Complete(a) \/ CompleteOffline(a)) /\ WF_vars(Stop(a))

ServingSpec == Spec /\ Serving

-----------------------------------------------------------------------------
(* Properties *)

Entries ==
  [id : Ids, type : Requests, lease : {"free", "held", "expired"}] \cup
  [id : {NoId}, type : {"exit"}, lease : {"free"}]

AgentStates ==
  [pc : {"idle", "waiting"}, id : {NoId}, what : {"none"}] \cup
  [pc : {"handling"}, id : {NoId}, what : {"exit"}] \cup
  [pc : {"handling"}, id : Ids, what : Requests] \cup
  [pc : {"replying"}, id : Ids, what : Answers] \cup
  [pc : {"cleanup"}, id : Ids, what : {"none"}]

TypeOK ==
  /\ up \in BOOLEAN
  /\ queue \in Seq(Entries)
  /\ leaseTimer \in BOOLEAN
  /\ clients \in 0..MaxClients
  /\ exitTimer \in BOOLEAN
  /\ journal \in [Ids -> Snapshots({0}, {0})]
  /\ agent \in [Agents -> AgentStates]
  /\ source \in [Ids -> {"plain", "variants", "carbonize"}]
  /\ parted \subseteq Ids
  /\ slipped \in BOOLEAN
  /\ faults \in 0..MaxFaults

\* A request is queued once, however often the browser sends it and whatever
\* was restored: the agent is not handed two copies of it at a time.
QueuedOnce ==
  \A k, l \in DOMAIN queue :
    queue[k].id # NoId /\ queue[k].id = queue[l].id /\ queue[k].type = queue[l].type => k = l

\* While the server runs, the request that a journal remembers is in the
\* queue, so that live-resume's advice to poll for it is never in vain,
\* unless a failed write has parted the two.
ResumeFindsWork ==
  \A i \in Ids \ parted :
    up /\ NextAction(journal[i]) = "poll" =>
      \E k \in DOMAIN queue : queue[k].id = i /\ queue[k].type = journal[i].pending

\* A poll does not wait while there is an event that nobody was handed, and
\* while it waits for a lease the timer is set, unless a lease ended between
\* two looks of one handler.
NoMissedWakeup ==
  Waiting(agent) # {} =>
    /\ \A k \in DOMAIN queue : queue[k].lease # "free"
    /\ Held(queue) # {} => leaseTimer \/ slipped

Delivery == INSTANCE LiveDelivery WITH
  outstanding <- {<<queue[k].id, queue[k].type>> : k \in DOMAIN queue \ Exits(queue)},
  remembered <- [i \in Ids |-> journal[i].pending]

\* The server implements LiveDelivery: leases, polls, timers, interrupted
\* agents and replies that go astray neither lose nor invent a request.
KeepsDelivery == Delivery!Spec

\* A session that waits for an answer gets one, whatever process dies in
\* between, unless a failed write has parted journal and queue; and no request
\* is handed out for ever.  The answer need not be the one to the last request:
\* the slot says that some request of the session waits, any answer empties it,
\* and what is then still in the queue can be lost with the server.
SessionsAreAnswered ==
  \A i \in Ids :
    /\ []<>(journal[i].pending = "none" \/ i \in parted)
    /\ \A type \in Requests : []<>~Queued(queue, i, type)
=============================================================================
