----------------------------- MODULE ZooUploads -----------------------------
(***************************************************************************)
(* The upload lifecycle of the zoo server: the handlers of                 *)
(* crates/zoo/src/api/uploads.rs, the stall detector and the garbage       *)
(* collector, all of them working on one uploads table without             *)
(* transactions.  A handler reads the row, decides, and writes it in a     *)
(* later statement; here every SQL statement and every S3 call that        *)
(* changes something is a step, and the steps of handlers and workers      *)
(* interleave.                                                             *)
(*                                                                         *)
(* A row is created for one (user_id, file_hash) pair: its FileHash.       *)
(* Requests of users who do not own a row are answered 403 or 404 and      *)
(* change nothing; they are left out, and so are requests that fail        *)
(* validation.  Parts and their bitmask are another component.             *)
(***************************************************************************)
EXTENDS UploadStatus, Sequences

CONSTANTS
  Uploads,       \* ids gen_random_uuid() may give to rows
  Hashes,        \* (user_id, file_hash) pairs
  FileHash,      \* the pair each row is created for
  Requests,      \* handler tasks the server may have in flight
  NoTask,        \* an idle handler slot
  Endpoints,     \* the requests the clients send
  PatchTargets,  \* the strings the clients PATCH a status to
  WaitForS3,     \* clients report s3_completed only after S3 has the object
  MaxMultiparts, \* bound: CreateMultipartUpload calls per row
  MaxFiles       \* bound: files rows inserted per uploads row

AllEndpoints ==
  {"create", "patch", "complete", "register", "cancel", "fail", "presign",
   "heartbeat"}

\* A handler between two statements: the statement it executes next, its
\* row, the status it will write ("none": it writes none) and the id of the
\* multipart upload it opened (0: none).
Task ==
  [at     : {"open_multipart", "save_s3_info", "insert_file", "write_status"},
   upload : Uploads,
   to     : RawStatuses \cup {"none"},
   m      : Nat]

ASSUME ConstantsAssumption ==
  /\ FileHash \in [Uploads -> Hashes]
  /\ Endpoints \subseteq AllEndpoints
  /\ PatchTargets \subseteq RawStatuses
  /\ WaitForS3 \in BOOLEAN
  /\ MaxMultiparts \in Nat
  /\ MaxFiles \in Nat

ASSUME NoTaskAssumption == NoTask \notin Task

VARIABLES
  status,     \* uploads.status; "absent" before the row is inserted
  s3Id,       \* uploads.upload_id_s3, as the index of a multipart; 0 is NULL
  stalledAt,  \* uploads.stalled_at IS NOT NULL
  silent,     \* uploads.last_heartbeat_at is older than the stall timeout
  expired,    \* uploads.expires_at has passed
  files,      \* number of files rows inserted for the upload
  multiparts, \* S3: the multipart uploads opened under the row's object_key
  task,       \* the handlers in flight
  marking,    \* rows the stall detector has listed and not marked yet
  reaping     \* rows the garbage collector has listed and not failed yet

row  == <<status, s3Id, stalledAt, silent, expired>>
vars == <<row, files, multiparts, task, marking, reaping>>

-----------------------------------------------------------------------------
(* The database and S3 *)

Exists(u) == status[u] # "absent"

\* Mutant: the index covers pending only.
DedupConflictPendingOnly(u, raw) ==
  /\ raw = "pending"
  /\ \E v \in Uploads \ {u} : FileHash[v] = FileHash[u] /\ status[v] = "pending"

\* The unique violation of idx_uploads_dedup: u may not enter the active
\* statuses while another active row has its hash.
DedupConflict(u, raw) ==
  /\ raw \in Active
  /\ \E v \in Uploads \ {u} : FileHash[v] = FileHash[u] /\ status[v] \in Active

\* patch_upload_status: an unconditional UPDATE ... WHERE id = u.
patch_upload_status(u, raw) ==
  /\ Exists(u)
  /\ ~DedupConflict(u, raw)
  /\ status' = [status EXCEPT ![u] = raw]
  /\ UNCHANGED <<s3Id, stalledAt, silent, expired>>

\* A multipart upload is open from CreateMultipartUpload on; a client can
\* finish it once its complete_url has been handed out.
OpenMultipart == {"created", "offered"}
MultipartStates == OpenMultipart \cup {"completed", "aborted"}

\* CompleteMultipartUpload has made an object under the row's object_key.
HasObject(u) == \E m \in DOMAIN multiparts[u] : multiparts[u][m] = "completed"

Idle(r) == task[r] = NoTask
At(r, step) == task[r] # NoTask /\ task[r].at = step

Launch(r, step, u, to, m) ==
  task' = [task EXCEPT ![r] = [at |-> step, upload |-> u, to |-> to, m |-> m]]
Advance(r, step) == Launch(r, step, task[r].upload, task[r].to, task[r].m)
Finish(r) == task' = [task EXCEPT ![r] = NoTask]

Init ==
  /\ status     = [u \in Uploads |-> "absent"]
  /\ s3Id       = [u \in Uploads |-> 0]
  /\ stalledAt  = [u \in Uploads |-> FALSE]
  /\ silent     = [u \in Uploads |-> FALSE]
  /\ expired    = [u \in Uploads |-> FALSE]
  /\ files      = [u \in Uploads |-> 0]
  /\ multiparts = [u \in Uploads |-> <<>>]
  /\ task       = [r \in Requests |-> NoTask]
  /\ marking    = {}
  /\ reaping    = {}

-----------------------------------------------------------------------------
(* The handlers *)

\* create, first statement: the row is inserted 'pending', or the request
\* ends with 409.
Create(r, u) ==
  /\ "create" \in Endpoints
  /\ Idle(r)
  /\ ~Exists(u)
  /\ ~DedupConflict(u, "pending")
  /\ status' = [status EXCEPT ![u] = "pending"]
  /\ Launch(r, "open_multipart", u, "pending", 0)
  /\ UNCHANGED <<s3Id, stalledAt, silent, expired, files, multiparts, marking, reaping>>

\* presign and presign_refresh, up to the S3 call: the status is not looked at.
Presign(r, u) ==
  /\ "presign" \in Endpoints
  /\ Idle(r)
  /\ Exists(u)
  /\ Launch(r, "open_multipart", u, "none", 0)
  /\ UNCHANGED <<row, files, multiparts, marking, reaping>>

\* generate_presigned_urls: every call opens a new multipart upload.
OpenNewMultipart(r) ==
  /\ At(r, "open_multipart")
  /\ LET u == task[r].upload IN
       /\ Len(multiparts[u]) < MaxMultiparts
       /\ multiparts' = [multiparts EXCEPT ![u] = Append(@, "created")]
       /\ Launch(r, "save_s3_info", u, task[r].to, Len(multiparts[u]) + 1)
  /\ UNCHANGED <<row, files, marking, reaping>>

\* Mutant: presign goes on like create and writes a status.
SaveS3InfoAlwaysWrites(r) ==
  /\ At(r, "save_s3_info")
  /\ s3Id' = [s3Id EXCEPT ![task[r].upload] = task[r].m]
  /\ Advance(r, "write_status")
  /\ UNCHANGED <<status, stalledAt, silent, expired, files, multiparts, marking, reaping>>

\* update_s3_info: the row refers to the new multipart upload, whose
\* complete_url is now known to the clients.  create goes on to patch the
\* status; presign is done.
SaveS3Info(r) ==
  /\ At(r, "save_s3_info")
  /\ LET u == task[r].upload
         m == task[r].m
     IN /\ s3Id' = [s3Id EXCEPT ![u] = m]
        /\ multiparts' = [multiparts EXCEPT ![u][m] =
                            IF @ = "created" THEN "offered" ELSE @]
  /\ IF task[r].to = "none" THEN Finish(r) ELSE Advance(r, "write_status")
  /\ UNCHANGED <<status, stalledAt, silent, expired, files, marking, reaping>>

\* The read half of a handler that checks the status it read against the
\* status `target` and will then run `step`, writing the string `raw`.
ReadAndValidate(r, u, target, step, raw) ==
  /\ Idle(r)
  /\ Exists(u)
  /\ validate_transition(parse_status(status[u]), target)
  /\ Launch(r, step, u, raw, 0)
  /\ UNCHANGED <<row, files, multiparts, marking, reaping>>

\* What a client that waits for S3 makes sure of before it reports s3_completed.
MayReport(u, raw) == WaitForS3 /\ raw = "s3_completed" => HasObject(u)

\* patch_status: the string sent is parsed for the check and stored as it is.
PatchStatus(r, u, raw) ==
  /\ "patch" \in Endpoints
  /\ MayReport(u, raw)
  /\ ReadAndValidate(r, u, parse_status(raw), "write_status", raw)

Complete(r, u) ==
  /\ "complete" \in Endpoints
  /\ MayReport(u, "s3_completed")
  /\ ReadAndValidate(r, u, "s3_completed", "write_status", "s3_completed")

Cancel(r, u) ==
  /\ "cancel" \in Endpoints
  /\ ReadAndValidate(r, u, "failed", "write_status", "failed")

\* Mutant: register does not look at the status.
RegisterFileUnchecked(r, u) ==
  /\ "register" \in Endpoints
  /\ Idle(r)
  /\ Exists(u)
  /\ Launch(r, "insert_file", u, "done", 0)
  /\ UNCHANGED <<row, files, multiparts, marking, reaping>>

\* Mutant: done is written before the files row is inserted.
RegisterFileWritesFirst(r, u) ==
  /\ "register" \in Endpoints
  /\ ReadAndValidate(r, u, "registering", "write_status", "done")

\* register_file checks the step to registering, inserts, and writes done.
RegisterFile(r, u) ==
  /\ "register" \in Endpoints
  /\ ReadAndValidate(r, u, "registering", "insert_file", "done")

\* insert_file_record: no key of files mentions the upload, so a second row
\* is accepted.
InsertFile(r) ==
  /\ At(r, "insert_file")
  /\ files[task[r].upload] < MaxFiles
  /\ files' = [files EXCEPT ![task[r].upload] = @ + 1]
  /\ Advance(r, "write_status")
  /\ UNCHANGED <<row, multiparts, marking, reaping>>

\* The write half: it does not look at the status again.
WriteStatus(r) ==
  /\ At(r, "write_status")
  /\ patch_upload_status(task[r].upload, task[r].to)
  /\ Finish(r)
  /\ UNCHANGED <<files, multiparts, marking, reaping>>

\* The handler ends early: its statement fails (a unique violation of the
\* write half is answered 500), S3 answers an error, or the client hangs up
\* and the task is dropped.
Drop(r) ==
  /\ ~Idle(r)
  /\ Finish(r)
  /\ UNCHANGED <<row, files, multiparts, marking, reaping>>

\* fail: one UPDATE, without a read before it.
Fail(u) ==
  /\ "fail" \in Endpoints
  /\ patch_upload_status(u, "failed")
  /\ UNCHANGED <<files, multiparts, task, marking, reaping>>

\* heartbeat: last_heartbeat_at = NOW(), in any status.
Heartbeat(u) ==
  /\ "heartbeat" \in Endpoints
  /\ Exists(u)
  /\ silent' = [silent EXCEPT ![u] = FALSE]
  /\ UNCHANGED <<status, s3Id, stalledAt, expired, files, multiparts, task, marking, reaping>>

-----------------------------------------------------------------------------
(* The stall detector *)

\* Mutant: last_heartbeat_at is compared the wrong way round.
ListStalledReversed ==
  /\ marking = {}
  /\ marking' = {u \in Uploads : status[u] = "uploading" /\ ~silent[u] /\ ~stalledAt[u]}
  /\ marking' # {}
  /\ UNCHANGED <<row, files, multiparts, task, reaping>>

\* list_stalled_uploads.  The row locks of FOR UPDATE end with the statement.
ListStalled ==
  /\ marking = {}
  /\ marking' = {u \in Uploads : status[u] = "uploading" /\ silent[u] /\ ~stalledAt[u]}
  /\ marking' # {}
  /\ UNCHANGED <<row, files, multiparts, task, reaping>>

\* mark_stalled: unconditional, whatever became of the row since the list.
MarkStalled(u) ==
  /\ u \in marking
  /\ marking' = marking \ {u}
  /\ status' = [status EXCEPT ![u] = "stalled"]
  /\ stalledAt' = [stalledAt EXCEPT ![u] = TRUE]
  /\ UNCHANGED <<s3Id, silent, expired, files, multiparts, task, reaping>>

-----------------------------------------------------------------------------
(* The garbage collector *)

\* Mutant: expires_at is not compared with the clock.
ListExpiredAnyAge ==
  /\ reaping = {}
  /\ reaping' = {[upload |-> u, m |-> s3Id[u], at |-> IF s3Id[u] = 0 THEN "fail" ELSE "abort"] :
                   u \in {v \in Uploads : Exists(v) /\ status[v] \notin Finished}}
  /\ reaping' # {}
  /\ UNCHANGED <<row, files, multiparts, task, marking>>

\* Mutant: rows without a multipart upload are passed over.
ListExpiredWithMultipart ==
  /\ reaping = {}
  /\ reaping' = {[upload |-> u, m |-> s3Id[u], at |-> "abort"] :
                   u \in {v \in Uploads : expired[v] /\ status[v] \notin Finished /\ s3Id[v] # 0}}
  /\ reaping' # {}
  /\ UNCHANGED <<row, files, multiparts, task, marking>>

\* list_expired_uploads.  The collector keeps the rows as they were read.
ListExpired ==
  /\ reaping = {}
  /\ reaping' = {[upload |-> u, m |-> s3Id[u], at |-> IF s3Id[u] = 0 THEN "fail" ELSE "abort"] :
                   u \in {v \in Uploads : Exists(v) /\ expired[v] /\ status[v] \notin Finished}}
  /\ reaping' # {}
  /\ UNCHANGED <<row, files, multiparts, task, marking>>

\* Mutant: an abort takes the assembled object with it.
AbortMultipartDeletes(i) ==
  /\ i \in reaping
  /\ i.at = "abort"
  /\ multiparts' = [multiparts EXCEPT ![i.upload][i.m] = "aborted"]
  /\ reaping' = (reaping \ {i}) \cup {[upload |-> i.upload, m |-> i.m, at |-> "fail"]}
  /\ UNCHANGED <<row, files, task, marking>>

\* abort_multipart_upload on the id that was read; its error is ignored.
\* The collector fails a row before it goes on to the next one.
AbortMultipart(i) ==
  /\ i \in reaping
  /\ i.at = "abort"
  /\ \A j \in reaping : j.at = "fail" => j.m = 0
  /\ multiparts' = [multiparts EXCEPT ![i.upload][i.m] =
                      IF @ \in OpenMultipart THEN "aborted" ELSE @]
  /\ reaping' = (reaping \ {i}) \cup {[upload |-> i.upload, m |-> i.m, at |-> "fail"]}
  /\ UNCHANGED <<row, files, task, marking>>

\* patch_upload_status(.., "failed"), whatever became of the row since.
FailExpired(i) ==
  /\ i \in reaping
  /\ i.at = "fail"
  /\ i.m = 0 => \A j \in reaping : j.at = "fail" => j.m = 0
  /\ patch_upload_status(i.upload, "failed")
  /\ reaping' = reaping \ {i}
  /\ UNCHANGED <<files, multiparts, task, marking>>

\* A statement of a tick fails: the rest of the tick is given up.
StallTickFails ==
  /\ marking # {}
  /\ marking' = {}
  /\ UNCHANGED <<row, files, multiparts, task, reaping>>

GCTickFails ==
  /\ reaping # {}
  /\ reaping' = {}
  /\ UNCHANGED <<row, files, multiparts, task, marking>>

-----------------------------------------------------------------------------
(* The environment *)

\* A client posts to a complete_url it was given.
ClientCompletesMultipart(u, m) ==
  /\ multiparts[u][m] = "offered"
  /\ multiparts' = [multiparts EXCEPT ![u][m] = "completed"]
  /\ UNCHANGED <<row, files, task, marking, reaping>>

\* The stall timeout passes without a heartbeat.
FallSilent(u) ==
  /\ Exists(u)
  /\ ~silent[u]
  /\ silent' = [silent EXCEPT ![u] = TRUE]
  /\ UNCHANGED <<status, s3Id, stalledAt, expired, files, multiparts, task, marking, reaping>>

\* expires_at passes: 24 hours after create, never extended.
Expire(u) ==
  /\ Exists(u)
  /\ ~expired[u]
  /\ expired' = [expired EXCEPT ![u] = TRUE]
  /\ UNCHANGED <<status, s3Id, stalledAt, silent, files, multiparts, task, marking, reaping>>

\* The server process stops and starts again: handlers and worker ticks are
\* lost, the tables and S3 are not.
Restart ==
  /\ task' = [r \in Requests |-> NoTask]
  /\ marking' = {}
  /\ reaping' = {}
  /\ UNCHANGED <<row, files, multiparts>>

Handle(r) ==
  \/ \E u \in Uploads : Create(r, u)
  \/ \E u \in Uploads : Presign(r, u)
  \/ \E u \in Uploads, raw \in PatchTargets : PatchStatus(r, u, raw)
  \/ \E u \in Uploads : Complete(r, u)
  \/ \E u \in Uploads : Cancel(r, u)
  \/ \E u \in Uploads : RegisterFile(r, u)
  \/ OpenNewMultipart(r)
  \/ SaveS3Info(r)
  \/ InsertFile(r)
  \/ WriteStatus(r)
  \/ Drop(r)

Next ==
  \/ \E r \in Requests : Handle(r)
  \/ \E u \in Uploads : Fail(u)
  \/ \E u \in Uploads : Heartbeat(u)
  \/ ListStalled
  \/ \E u \in Uploads : MarkStalled(u)
  \/ ListExpired
  \/ \E i \in reaping : AbortMultipart(i)
  \/ \E i \in reaping : FailExpired(i)
  \/ StallTickFails
  \/ GCTickFails
  \/ \E u \in Uploads : \E m \in DOMAIN multiparts[u] : ClientCompletesMultipart(u, m)
  \/ \E u \in Uploads : FallSilent(u)
  \/ \E u \in Uploads : Expire(u)
  \/ Restart

Spec == Init /\ [][Next]_vars

\* What the scheduling promises: the worker loops tick for ever, a tick does
\* not fail every time it gets to the same row.
Ticking(u) ==
  /\ WF_vars(ListStalled)
  /\ SF_vars(MarkStalled(u))
  /\ SF_vars(ListExpired)
  /\ SF_vars(\E i \in reaping : i.upload = u /\ AbortMultipart(i))
  /\ SF_vars(\E i \in reaping : i.upload = u /\ FailExpired(i))

TickingSpec == Spec /\ \A u \in Uploads : Ticking(u)

-----------------------------------------------------------------------------
(* Properties *)

TypeOK ==
  /\ status \in [Uploads -> RawStatuses \cup {"absent"}]
  /\ s3Id \in [Uploads -> Nat]
  /\ stalledAt \in [Uploads -> BOOLEAN]
  /\ silent \in [Uploads -> BOOLEAN]
  /\ expired \in [Uploads -> BOOLEAN]
  /\ files \in [Uploads -> Nat]
  /\ multiparts \in [Uploads -> Seq(MultipartStates)]
  /\ task \in [Requests -> Task \cup {NoTask}]
  /\ marking \subseteq Uploads
  /\ reaping \subseteq [upload : Uploads, m : Nat, at : {"abort", "fail"}]

\* At any time one file is being uploaded by one row at most, although rows
\* enter and leave the active statuses through create, PATCH, both workers
\* and the late second write of create.
OneActivePerHash ==
  \A u, v \in Uploads :
    u # v /\ FileHash[u] = FileHash[v] => ~(status[u] \in Active /\ status[v] \in Active)

\* If clients report s3_completed only after S3 has assembled the object, no
\* files row ever refers to an object S3 does not have, whatever presigns,
\* aborts, cancellations and restarts come between the report and the insert.
FileHasObject == \A u \in Uploads : files[u] > 0 => HasObject(u)

\* If no client PATCHes done, an upload that is done has its files row, also
\* when the register handler is interrupted between its two statements.
DoneHasFile == \A u \in Uploads : status[u] = "done" => files[u] > 0

\* The collector works from a stale list, but no multipart upload of a row
\* whose 24 hours are not over is ever aborted.
AbortsOnlyExpired ==
  \A u \in Uploads : \A m \in DOMAIN multiparts[u] :
    multiparts[u][m] = "aborted" => expired[u]

\* The server keeps the contract of UploadContract: each step of a handler, a
\* worker or a client is one step of it or leaves it alone.  The publishing
\* half needs clients that report s3_completed after S3 has the object.
Contract == INSTANCE UploadContract WITH
  holders   <- [h \in Hashes |-> {u \in Uploads : FileHash[u] = h /\ status[u] \in Active}],
  stored    <- {u \in Uploads : HasObject(u)},
  published <- files

KeepsContract == Contract!Spec

\* A row whose 24 hours are over gives up its file's place in the dedup index,
\* also a row left behind by a create that died midway.
SlotIsReleased ==
  \A u \in Uploads : status[u] \in Active /\ expired[u] ~> status[u] \notin Active

\* An upload that falls silent for the first time does not stay uploading.
SilenceIsNoticed ==
  \A u \in Uploads :
    status[u] = "uploading" /\ silent[u] /\ ~stalledAt[u] ~>
      status[u] # "uploading" \/ ~silent[u] \/ stalledAt[u]
=============================================================================
