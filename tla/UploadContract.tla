--------------------------- MODULE UploadContract ---------------------------
(***************************************************************************)
(* What the zoo server promises about uploads, without rows, requests or   *)
(* workers: a file's place in the dedup index is a lock that one upload    *)
(* holds at a time, an object once stored stays, and a file is published   *)
(* only for an upload whose object is stored.  Publishing is not           *)
(* exactly-once: the code does not provide it.                             *)
(***************************************************************************)
EXTENDS Naturals

CONSTANTS Uploads, Hashes, FileHash

VARIABLES
  holders,   \* the uploads that hold the place of each hash
  stored,    \* the uploads whose object is in S3
  published  \* how many files rows each upload has

vars == <<holders, stored, published>>

Init ==
  /\ holders = [h \in Hashes |-> {}]
  /\ stored = {}
  /\ published = [u \in Uploads |-> 0]

\* u becomes active; nobody else is.
Take(u) ==
  /\ holders[FileHash[u]] = {}
  /\ holders' = [holders EXCEPT ![FileHash[u]] = {u}]
  /\ UNCHANGED <<stored, published>>

\* u leaves the active statuses.
Release(u) ==
  /\ u \in holders[FileHash[u]]
  /\ holders' = [holders EXCEPT ![FileHash[u]] = @ \ {u}]
  /\ UNCHANGED <<stored, published>>

\* S3 assembles u's object.
Store(u) ==
  /\ u \notin stored
  /\ stored' = stored \cup {u}
  /\ UNCHANGED <<holders, published>>

\* A files row is inserted for u.
Publish(u) ==
  /\ u \in stored
  /\ published' = [published EXCEPT ![u] = @ + 1]
  /\ UNCHANGED <<holders, stored>>

Next == \E u \in Uploads : Take(u) \/ Release(u) \/ Store(u) \/ Publish(u)

Spec == Init /\ [][Next]_vars
=============================================================================
