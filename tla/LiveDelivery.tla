---------------------------- MODULE LiveDelivery ----------------------------
(***************************************************************************)
(* What the live helper promises about the browser's requests, without     *)
(* polls, leases and timers: a request is outstanding from its arrival to  *)
(* an answer for its session, whoever it was handed to in between; a       *)
(* session remembers its last request durably, until an answer; and a new  *)
(* server starts with exactly what is remembered.  Delivery is             *)
(* at-least-once, and one answer may clear the memory of a request that    *)
(* arrived after the one it answers: the code does not promise more.       *)
(***************************************************************************)
EXTENDS LiveStore

CONSTANT Ids

VARIABLES
  outstanding,  \* the requests <<id, type>> that the server would hand out
  remembered    \* the request that each session's journal remembers, or "none"

vars == <<outstanding, remembered>>

Init ==
  /\ outstanding = {}
  /\ remembered = [i \in Ids |-> "none"]

Request(i, type) ==
  /\ remembered' = [remembered EXCEPT ![i] = type]
  /\ outstanding' = outstanding \cup {<<i, type>>}

\* The disk fails between the two halves of a request.
HalfRequest(i, type) ==
  /\ remembered' = [remembered EXCEPT ![i] = type]
  /\ UNCHANGED outstanding

\* An answer takes one request of the session away, if there is one; it may
\* fail to be recorded.
Answer(i) ==
  /\ \/ outstanding' = outstanding /\ \A type \in Requests : <<i, type>> \notin outstanding
     \/ \E type \in Requests :
          /\ <<i, type>> \in outstanding
          /\ outstanding' = outstanding \ {<<i, type>>}
  /\ remembered' \in {remembered, [remembered EXCEPT ![i] = "none"]}

\* The answer is written into the journal behind the server's back.
AnswerOffline(i) ==
  /\ remembered' = [remembered EXCEPT ![i] = "none"]
  /\ UNCHANGED outstanding

Crash ==
  /\ outstanding' = {}
  /\ UNCHANGED remembered

Restart ==
  /\ outstanding = {}
  /\ outstanding' = {<<i, remembered[i]>> : i \in {j \in Ids : remembered[j] # "none"}}
  /\ UNCHANGED remembered

Next ==
  \/ \E i \in Ids, type \in Requests : Request(i, type) \/ HalfRequest(i, type)
  \/ \E i \in Ids : Answer(i) \/ AnswerOffline(i)
  \/ Crash
  \/ Restart

Spec == Init /\ [][Next]_vars
=============================================================================
