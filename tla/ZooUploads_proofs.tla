-------------------------- MODULE ZooUploads_proofs --------------------------
(***************************************************************************)
(* Proofs about ZooUploads, for any number of uploads, hashes and requests *)
(* in flight and without the bounds of the TLC instances.                  *)
(***************************************************************************)
EXTENDS ZooUploads, SequenceTheorems, TLAPS

\* Every reference to a multipart upload, in a row, in a handler or in the
\* collector's list, names one that was opened.
References ==
  /\ \A u \in Uploads : s3Id[u] \in 0 .. Len(multiparts[u])
  /\ \A r \in Requests :
       At(r, "save_s3_info") => task[r].m \in 1 .. Len(multiparts[task[r].upload])
  /\ \A i \in reaping :
       /\ i.m \in 0 .. Len(multiparts[i.upload])
       /\ i.at = "abort" => i.m # 0

\* What a handler is going to write at each of its statements.
Intentions ==
  \A r \in Requests :
    /\ At(r, "open_multipart") \/ At(r, "save_s3_info") => task[r].to \in {"none", "pending"}
    /\ At(r, "insert_file") => task[r].to = "done"
    /\ At(r, "write_status") => task[r].to # "none"

\* The typing invariant that is inductive.
TypeInv == TypeOK /\ References /\ Intentions

-----------------------------------------------------------------------------
(* What the shared steps of the handlers do to the types *)

\* Launch gives a slot a well-formed task and leaves the other slots alone.
LEMMA LaunchType ==
  ASSUME TypeOK, NEW r \in Requests,
         NEW step \in {"open_multipart", "save_s3_info", "insert_file", "write_status"},
         NEW u \in Uploads, NEW to \in RawStatuses \cup {"none"}, NEW m \in Nat,
         Launch(r, step, u, to, m)
  PROVE  /\ task' \in [Requests -> Task \cup {NoTask}]
         /\ task'[r] = [at |-> step, upload |-> u, to |-> to, m |-> m]
         /\ \A q \in Requests \ {r} : task'[q] = task[q]
         /\ task'[r] # NoTask
BY NoTaskAssumption DEF TypeOK, Launch, Task

\* Finish frees a slot and leaves the other slots alone.
LEMMA FinishType ==
  ASSUME TypeOK, NEW r \in Requests, Finish(r)
  PROVE  /\ task' \in [Requests -> Task \cup {NoTask}]
         /\ task'[r] = NoTask
         /\ \A q \in Requests \ {r} : task'[q] = task[q]
BY DEF TypeOK, Finish

\* The UPDATE of the status column keeps the column's type.
LEMMA PatchType ==
  ASSUME TypeOK, NEW u \in Uploads, NEW raw \in RawStatuses, patch_upload_status(u, raw)
  PROVE  status' \in [Uploads -> RawStatuses \cup {"absent"}]
BY DEF TypeOK, patch_upload_status

\* A task in flight is a record of Task.
LEMMA TaskType ==
  ASSUME TypeOK, NEW r \in Requests, task[r] # NoTask
  PROVE  /\ task[r] \in Task
         /\ task[r].upload \in Uploads
         /\ task[r].to \in RawStatuses \cup {"none"}
         /\ task[r].m \in Nat
BY DEF TypeOK, Task

\* A step that leaves tasks, references and S3 alone keeps what is said of them.
LEMMA Untouched ==
  ASSUME References, Intentions,
         s3Id' = s3Id, multiparts' = multiparts, task' = task, reaping' \subseteq reaping
  PROVE  References' /\ Intentions'
BY DEF References, Intentions, At

\* A handler whose first statement is a read of the row.
LEMMA ReadAndValidateType ==
  ASSUME TypeInv, NEW r \in Requests, NEW u \in Uploads,
         NEW target, NEW step \in {"insert_file", "write_status"},
         NEW raw \in RawStatuses, step = "insert_file" => raw = "done",
         ReadAndValidate(r, u, target, step, raw)
  PROVE  TypeInv'
<1>1. /\ task' \in [Requests -> Task \cup {NoTask}]
      /\ task'[r] = [at |-> step, upload |-> u, to |-> raw, m |-> 0]
      /\ \A q \in Requests \ {r} : task'[q] = task[q]
  BY LaunchType DEF TypeInv, ReadAndValidate
<1>2. TypeOK'
  BY <1>1 DEF TypeInv, TypeOK, ReadAndValidate, row
<1>3. References' /\ Intentions'
  BY <1>1 DEF TypeInv, References, Intentions, At, ReadAndValidate, row, RawStatuses, Statuses
<1>4. QED
  BY <1>2, <1>3 DEF TypeInv

-----------------------------------------------------------------------------
(* The typing invariant, handler by handler *)

\* The INSERT of create adds a well-typed row and launches a well-typed task.
LEMMA CreateType ==
  ASSUME TypeInv, NEW r \in Requests, NEW u \in Uploads, Create(r, u)
  PROVE  TypeInv'
<1>1. /\ task' \in [Requests -> Task \cup {NoTask}]
      /\ task'[r] = [at |-> "open_multipart", upload |-> u, to |-> "pending", m |-> 0]
      /\ \A q \in Requests \ {r} : task'[q] = task[q]
  <2>1. Launch(r, "open_multipart", u, "pending", 0) /\ "pending" \in RawStatuses
    BY DEF Create, RawStatuses, Statuses
  <2>2. QED
    BY <2>1, LaunchType DEF TypeInv
<1>2. TypeOK'
  BY <1>1 DEF TypeInv, TypeOK, Create, RawStatuses, Statuses
<1>3. References' /\ Intentions'
  BY <1>1 DEF TypeInv, References, Intentions, At, Create
<1>4. QED
  BY <1>2, <1>3 DEF TypeInv

\* The first half of presign launches a task that refers to no multipart upload yet.
LEMMA PresignType ==
  ASSUME TypeInv, NEW r \in Requests, NEW u \in Uploads, Presign(r, u)
  PROVE  TypeInv'
<1>1. /\ task' \in [Requests -> Task \cup {NoTask}]
      /\ task'[r] = [at |-> "open_multipart", upload |-> u, to |-> "none", m |-> 0]
      /\ \A q \in Requests \ {r} : task'[q] = task[q]
  BY LaunchType DEF TypeInv, Presign
<1>2. TypeOK'
  BY <1>1 DEF TypeInv, TypeOK, Presign, row
<1>3. References' /\ Intentions'
  BY <1>1 DEF TypeInv, References, Intentions, At, Presign, row
<1>4. QED
  BY <1>2, <1>3 DEF TypeInv

\* A new multipart upload lengthens the list of one row: what rows, handlers
\* and the collector refer to is still there.
LEMMA OpenNewMultipartType ==
  ASSUME TypeInv, NEW r \in Requests, OpenNewMultipart(r)
  PROVE  TypeInv'
<1> DEFINE u == task[r].upload
           n == Len(multiparts[u]) + 1
<1>1. /\ u \in Uploads
      /\ task[r].to \in RawStatuses \cup {"none"}
      /\ task[r].to \in {"none", "pending"}
  BY TaskType DEF TypeInv, OpenNewMultipart, At, Intentions
<1>2. /\ multiparts[u] \in Seq(MultipartStates)
      /\ "created" \in MultipartStates
      /\ n \in Nat
  BY <1>1, LenProperties DEF TypeInv, TypeOK, MultipartStates, OpenMultipart
<1>3. /\ task' \in [Requests -> Task \cup {NoTask}]
      /\ task'[r] = [at |-> "save_s3_info", upload |-> u, to |-> task[r].to, m |-> n]
      /\ \A q \in Requests \ {r} : task'[q] = task[q]
  <2>1. Launch(r, "save_s3_info", u, task[r].to, n)
    BY DEF OpenNewMultipart
  <2>2. QED
    BY <1>1, <1>2, <2>1 DEF TypeInv, TypeOK, Launch, Task
<1>4. /\ Append(multiparts[u], "created") \in Seq(MultipartStates)
      /\ Len(Append(multiparts[u], "created")) = n
  BY <1>2, AppendProperties
<1>5. /\ multiparts' \in [Uploads -> Seq(MultipartStates)]
      /\ multiparts'[u] = Append(multiparts[u], "created")
      /\ \A v \in Uploads \ {u} : multiparts'[v] = multiparts[v]
  BY <1>1, <1>4 DEF TypeInv, TypeOK, OpenNewMultipart
<1>6. TypeOK'
  BY <1>3, <1>5 DEF TypeInv, TypeOK, OpenNewMultipart, row
<1>7. \A v \in Uploads : Len(multiparts[v]) \in Nat /\ Len(multiparts'[v]) \in Nat
                        /\ Len(multiparts[v]) <= Len(multiparts'[v])
  <2>1. ASSUME NEW v \in Uploads
        PROVE  multiparts[v] \in Seq(MultipartStates) /\ multiparts'[v] \in Seq(MultipartStates)
    BY <1>5 DEF TypeInv, TypeOK
  <2>2. \A v \in Uploads : Len(multiparts[v]) \in Nat /\ Len(multiparts'[v]) \in Nat
    BY <2>1, LenProperties
  <2>3. QED
    BY <1>4, <1>5, <2>2
<1>8. References'
  <2>1. s3Id' = s3Id /\ reaping' = reaping
    BY DEF OpenNewMultipart, row
  <2>2. \A v \in Uploads : s3Id'[v] \in 0 .. Len(multiparts'[v])
    BY <1>7, <2>1 DEF TypeInv, References
  <2>3. \A i \in reaping' : i.m \in 0 .. Len(multiparts'[i.upload]) /\ (i.at = "abort" => i.m # 0)
    BY <1>7, <2>1 DEF TypeInv, TypeOK, References
  <2>4. ASSUME NEW q \in Requests, At(q, "save_s3_info")'
        PROVE  task'[q].m \in 1 .. Len(multiparts'[task'[q].upload])
    <3>1. CASE q = r
      BY <1>1, <1>2, <1>3, <1>4, <1>5, <3>1
    <3>2. CASE q # r
      BY <1>3, <1>7, <2>4, <3>2, TaskType DEF TypeInv, References, At
    <3>3. QED
      BY <3>1, <3>2
  <2>5. QED
    BY <2>2, <2>3, <2>4 DEF References
<1>9. Intentions'
  BY <1>1, <1>3 DEF TypeInv, Intentions, At
<1>10. QED
  BY <1>6, <1>8, <1>9 DEF TypeInv

\* Overwriting the state of one opened multipart upload.
LEMMA MultipartUpdate ==
  ASSUME TypeOK, NEW u \in Uploads, NEW m \in 1 .. Len(multiparts[u]),
         NEW e \in MultipartStates,
         multiparts' = [multiparts EXCEPT ![u][m] = e]
  PROVE  /\ multiparts' \in [Uploads -> Seq(MultipartStates)]
         /\ \A v \in Uploads : Len(multiparts'[v]) = Len(multiparts[v])
         /\ \A v \in Uploads : \A k \in 1 .. Len(multiparts[v]) :
              multiparts'[v][k] = IF v = u /\ k = m THEN e ELSE multiparts[v][k]
<1>1. multiparts[u] \in Seq(MultipartStates)
  BY DEF TypeOK
<1>2. /\ [multiparts[u] EXCEPT ![m] = e] \in Seq(MultipartStates)
      /\ Len([multiparts[u] EXCEPT ![m] = e]) = Len(multiparts[u])
      /\ \A k \in 1 .. Len(multiparts[u]) :
           [multiparts[u] EXCEPT ![m] = e][k] = IF k = m THEN e ELSE multiparts[u][k]
  BY <1>1, ExceptSeq
<1>3. multiparts' = [multiparts EXCEPT ![u] = [multiparts[u] EXCEPT ![m] = e]]
  OBVIOUS
<1>4. /\ multiparts'[u] = [multiparts[u] EXCEPT ![m] = e]
      /\ \A v \in Uploads \ {u} : multiparts'[v] = multiparts[v]
  BY <1>3 DEF TypeOK
<1>5. multiparts' \in [Uploads -> Seq(MultipartStates)]
  BY <1>2, <1>3 DEF TypeOK
<1>6. QED
  BY <1>2, <1>4, <1>5

\* update_s3_info makes the row refer to the multipart upload its handler carries.
LEMMA SaveS3InfoType ==
  ASSUME TypeInv, NEW r \in Requests, SaveS3Info(r)
  PROVE  TypeInv'
<1> DEFINE u == task[r].upload
           m == task[r].m
<1>1. /\ u \in Uploads
      /\ m \in 1 .. Len(multiparts[u])
      /\ task[r].to \in {"none", "pending"}
      /\ task[r].to \in RawStatuses \cup {"none"}
      /\ task[r] # NoTask
      /\ m \in Nat
  BY TaskType DEF TypeInv, References, Intentions, SaveS3Info, At
<1>2. /\ multiparts' \in [Uploads -> Seq(MultipartStates)]
      /\ \A v \in Uploads : Len(multiparts'[v]) = Len(multiparts[v])
  <2> DEFINE e == IF multiparts[u][m] = "created" THEN "offered" ELSE multiparts[u][m]
  <2>1. multiparts' = [multiparts EXCEPT ![u][m] = e]
    BY <1>1 DEF SaveS3Info, TypeInv, TypeOK
  <2>2. e \in MultipartStates
    BY <1>1, ElementOfSeq DEF TypeInv, TypeOK, MultipartStates, OpenMultipart
  <2>3. QED
    BY <1>1, <2>1, <2>2, MultipartUpdate DEF TypeInv
<1>3. /\ task' \in [Requests -> Task \cup {NoTask}]
      /\ task'[r] = NoTask \/ (task'[r].at = "write_status" /\ task'[r].to # "none")
      /\ \A q \in Requests \ {r} : task'[q] = task[q]
  <2>1. CASE task[r].to = "none"
    BY <2>1, FinishType DEF TypeInv, SaveS3Info
  <2>2. CASE task[r].to # "none"
    <3>1. Launch(r, "write_status", u, task[r].to, m)
      BY <2>2 DEF SaveS3Info, Advance
    <3>2. QED
      BY <1>1, <2>2, <3>1 DEF TypeInv, TypeOK, Launch, Task
  <2>3. QED
    BY <2>1, <2>2
<1>4. s3Id' = [s3Id EXCEPT ![u] = m]
  BY DEF SaveS3Info
<1>5. TypeOK'
  BY <1>1, <1>2, <1>3, <1>4 DEF TypeInv, TypeOK, SaveS3Info
<1>6. References'
  <2>1. \A v \in Uploads : s3Id'[v] \in 0 .. Len(multiparts'[v])
    BY <1>1, <1>2, <1>4 DEF TypeInv, TypeOK, References
  <2>2. \A i \in reaping' : i.m \in 0 .. Len(multiparts'[i.upload]) /\ (i.at = "abort" => i.m # 0)
    BY <1>2 DEF TypeInv, TypeOK, References, SaveS3Info
  <2>3. ASSUME NEW q \in Requests, At(q, "save_s3_info")'
        PROVE  task'[q].m \in 1 .. Len(multiparts'[task'[q].upload])
    <3>1. q # r
      BY <1>3, <2>3 DEF At
    <3>2. QED
      BY <1>2, <1>3, <2>3, <3>1, TaskType DEF TypeInv, References, At
  <2>4. QED
    BY <2>1, <2>2, <2>3 DEF References
<1>7. Intentions'
  BY <1>3 DEF TypeInv, Intentions, At
<1>8. QED
  BY <1>5, <1>6, <1>7 DEF TypeInv

\* Inserting a files row counts it and moves the handler to its last statement.
LEMMA InsertFileType ==
  ASSUME TypeInv, NEW r \in Requests, InsertFile(r)
  PROVE  TypeInv'
<1>1. /\ task[r].upload \in Uploads
      /\ task[r].m \in Nat
      /\ task[r].to = "done"
      /\ "done" \in RawStatuses
  BY TaskType DEF TypeInv, Intentions, InsertFile, At, RawStatuses, Statuses
<1>2. /\ task' \in [Requests -> Task \cup {NoTask}]
      /\ task'[r].at = "write_status" /\ task'[r].to = "done"
      /\ \A q \in Requests \ {r} : task'[q] = task[q]
  <2>1. Launch(r, "write_status", task[r].upload, "done", task[r].m)
    BY <1>1 DEF InsertFile, Advance
  <2>2. QED
    BY <1>1, <2>1 DEF TypeInv, TypeOK, Launch, Task
<1>3. TypeOK'
  BY <1>1, <1>2 DEF TypeInv, TypeOK, InsertFile, row
<1>4. References' /\ Intentions'
  BY <1>2 DEF TypeInv, References, Intentions, At, InsertFile, row
<1>5. QED
  BY <1>3, <1>4 DEF TypeInv

\* The write half stores a string that a column may hold.
LEMMA WriteStatusType ==
  ASSUME TypeInv, NEW r \in Requests, WriteStatus(r)
  PROVE  TypeInv'
<1>1. /\ task[r].upload \in Uploads
      /\ task[r].to \in RawStatuses
  BY TaskType DEF TypeInv, Intentions, WriteStatus, At
<1>2. status' \in [Uploads -> RawStatuses \cup {"absent"}]
  BY <1>1, PatchType DEF TypeInv, WriteStatus
<1>3. /\ task' \in [Requests -> Task \cup {NoTask}]
      /\ task'[r] = NoTask
      /\ \A q \in Requests \ {r} : task'[q] = task[q]
  BY FinishType DEF TypeInv, WriteStatus
<1>4. TypeOK'
  BY <1>2, <1>3 DEF TypeInv, TypeOK, WriteStatus, patch_upload_status
<1>5. References' /\ Intentions'
  BY <1>3 DEF TypeInv, References, Intentions, At, WriteStatus, patch_upload_status
<1>6. QED
  BY <1>4, <1>5 DEF TypeInv

\* A handler that ends early leaves only a free slot.
LEMMA DropType ==
  ASSUME TypeInv, NEW r \in Requests, Drop(r)
  PROVE  TypeInv'
<1>1. /\ task' \in [Requests -> Task \cup {NoTask}]
      /\ task'[r] = NoTask
      /\ \A q \in Requests \ {r} : task'[q] = task[q]
  BY FinishType DEF TypeInv, Drop
<1>2. TypeOK'
  BY <1>1 DEF TypeInv, TypeOK, Drop, row
<1>3. References' /\ Intentions'
  BY <1>1 DEF TypeInv, References, Intentions, At, Drop, row
<1>4. QED
  BY <1>2, <1>3 DEF TypeInv

-----------------------------------------------------------------------------
(* The typing invariant: the other steps *)

\* A handler in flight takes one of its steps.
LEMMA HandleType ==
  ASSUME TypeInv, NEW r \in Requests, Handle(r)
  PROVE  TypeInv'
<1>1. CASE \E u \in Uploads, raw \in PatchTargets : PatchStatus(r, u, raw)
  <2>1. PICK u \in Uploads, raw \in PatchTargets : PatchStatus(r, u, raw)
    BY <1>1
  <2>2. /\ raw \in RawStatuses
        /\ ReadAndValidate(r, u, parse_status(raw), "write_status", raw)
    BY <2>1, ConstantsAssumption DEF PatchStatus
  <2>3. QED
    BY <2>2, ReadAndValidateType
<1>2. CASE \E u \in Uploads : Complete(r, u) \/ Cancel(r, u) \/ RegisterFile(r, u)
  <2>1. PICK u \in Uploads : Complete(r, u) \/ Cancel(r, u) \/ RegisterFile(r, u)
    BY <1>2
  <2>2. {"s3_completed", "failed", "done"} \subseteq RawStatuses
    BY DEF RawStatuses, Statuses
  <2>3. \/ ReadAndValidate(r, u, "s3_completed", "write_status", "s3_completed")
        \/ ReadAndValidate(r, u, "failed", "write_status", "failed")
        \/ ReadAndValidate(r, u, "registering", "insert_file", "done")
    BY <2>1 DEF Complete, Cancel, RegisterFile
  <2>4. CASE ReadAndValidate(r, u, "s3_completed", "write_status", "s3_completed")
    BY <2>2, <2>4, ReadAndValidateType
  <2>5. CASE ReadAndValidate(r, u, "failed", "write_status", "failed")
    BY <2>2, <2>5, ReadAndValidateType
  <2>6. CASE ReadAndValidate(r, u, "registering", "insert_file", "done")
    BY <2>2, <2>6, ReadAndValidateType
  <2>7. QED
    BY <2>3, <2>4, <2>5, <2>6
<1>3. QED
  BY <1>1, <1>2, CreateType, PresignType, OpenNewMultipartType, SaveS3InfoType,
     InsertFileType, WriteStatusType, DropType DEF Handle

\* The stall detector's list holds rows.
LEMMA ListStalledType == TypeInv /\ ListStalled => TypeInv'
BY Untouched DEF TypeInv, TypeOK, ListStalled, row

\* Marking a row stalled keeps the row typed.
LEMMA MarkStalledType ==
  ASSUME TypeInv, NEW u \in Uploads, MarkStalled(u)
  PROVE  TypeInv'
<1>1. TypeOK'
  BY DEF TypeInv, TypeOK, MarkStalled, RawStatuses, Statuses
<1>2. References' /\ Intentions'
  BY Untouched DEF TypeInv, MarkStalled
<1>3. QED
  BY <1>1, <1>2 DEF TypeInv

\* The collector's list copies references of rows, which name opened multipart uploads.
LEMMA ListExpiredType == TypeInv /\ ListExpired => TypeInv'
<1> SUFFICES ASSUME TypeInv, ListExpired
             PROVE  TypeInv'
  OBVIOUS
<1>1. \A i \in reaping' : \E u \in Uploads :
        i = [upload |-> u, m |-> s3Id[u], at |-> IF s3Id[u] = 0 THEN "fail" ELSE "abort"]
  BY DEF ListExpired
<1>2. reaping' \subseteq [upload : Uploads, m : Nat, at : {"abort", "fail"}]
  BY <1>1 DEF TypeInv, TypeOK
<1>3. TypeOK'
  BY <1>2 DEF TypeInv, TypeOK, ListExpired, row
<1>4. \A i \in reaping' : i.m \in 0 .. Len(multiparts'[i.upload]) /\ (i.at = "abort" => i.m # 0)
  BY <1>1 DEF TypeInv, References, ListExpired
<1>5. References' /\ Intentions'
  BY <1>4 DEF TypeInv, References, Intentions, At, ListExpired, row
<1>6. QED
  BY <1>3, <1>5 DEF TypeInv

\* Aborting overwrites the state of one opened multipart upload.
LEMMA AbortMultipartType ==
  ASSUME TypeInv, NEW i \in reaping, AbortMultipart(i)
  PROVE  TypeInv'
<1> DEFINE u == i.upload
           m == i.m
           e == IF multiparts[u][m] \in OpenMultipart THEN "aborted" ELSE multiparts[u][m]
<1>1. /\ u \in Uploads
      /\ m \in 1 .. Len(multiparts[u])
      /\ m \in Nat
      /\ multiparts[u] \in Seq(MultipartStates)
  BY LenProperties DEF TypeInv, TypeOK, References, AbortMultipart
<1>2. e \in MultipartStates
  BY <1>1, ElementOfSeq DEF MultipartStates
<1>3. multiparts' = [multiparts EXCEPT ![u][m] = e]
  BY <1>1 DEF AbortMultipart, TypeInv, TypeOK
<1>4. /\ multiparts' \in [Uploads -> Seq(MultipartStates)]
      /\ \A v \in Uploads : Len(multiparts'[v]) = Len(multiparts[v])
  BY <1>1, <1>2, <1>3, MultipartUpdate DEF TypeInv
<1>5. reaping' = (reaping \ {i}) \cup {[upload |-> u, m |-> m, at |-> "fail"]}
  BY DEF AbortMultipart
<1>6. TypeOK'
  BY <1>1, <1>4, <1>5 DEF TypeInv, TypeOK, AbortMultipart, row
<1>7. \A j \in reaping' : j.m \in 0 .. Len(multiparts'[j.upload]) /\ (j.at = "abort" => j.m # 0)
  BY <1>1, <1>4, <1>5 DEF TypeInv, TypeOK, References
<1>8. References'
  <2>1. s3Id' = s3Id /\ task' = task
    BY DEF AbortMultipart, row
  <2>2. \A q \in Requests :
          At(q, "save_s3_info")' => task'[q].m \in 1 .. Len(multiparts'[task'[q].upload])
    BY <1>4, <2>1, TaskType DEF TypeInv, References, At
  <2>3. QED
    BY <1>4, <1>7, <2>1, <2>2 DEF TypeInv, References
<1>9. Intentions'
  BY DEF TypeInv, Intentions, At, AbortMultipart
<1>10. QED
  BY <1>6, <1>8, <1>9 DEF TypeInv

\* Failing a listed row keeps the row typed.
LEMMA FailExpiredType ==
  ASSUME TypeInv, NEW i \in reaping, FailExpired(i)
  PROVE  TypeInv'
<1>1. i.upload \in Uploads /\ "failed" \in RawStatuses
  BY DEF TypeInv, TypeOK, RawStatuses, Statuses
<1>2. status' \in [Uploads -> RawStatuses \cup {"absent"}]
  BY <1>1, PatchType DEF TypeInv, FailExpired
<1>3. TypeOK'
  BY <1>2 DEF TypeInv, TypeOK, FailExpired, patch_upload_status
<1>4. References' /\ Intentions'
  BY Untouched DEF TypeInv, FailExpired, patch_upload_status
<1>5. QED
  BY <1>3, <1>4 DEF TypeInv

\* The fail endpoint keeps the row typed.
LEMMA FailType ==
  ASSUME TypeInv, NEW u \in Uploads, Fail(u)
  PROVE  TypeInv'
<1>1. status' \in [Uploads -> RawStatuses \cup {"absent"}]
  <2>1. "failed" \in RawStatuses
    BY DEF RawStatuses, Statuses
  <2>2. QED
    BY <2>1, PatchType DEF TypeInv, Fail
<1>2. TypeOK'
  BY <1>1 DEF TypeInv, TypeOK, Fail, patch_upload_status
<1>3. References' /\ Intentions'
  BY Untouched DEF TypeInv, Fail, patch_upload_status
<1>4. QED
  BY <1>2, <1>3 DEF TypeInv

\* Heartbeats, the passing of time and ticks that are given up.
LEMMA QuietType ==
  ASSUME TypeInv,
         \/ \E u \in Uploads : Heartbeat(u) \/ FallSilent(u) \/ Expire(u)
         \/ StallTickFails
         \/ GCTickFails
  PROVE  TypeInv'
<1>1. TypeOK'
  BY DEF TypeInv, TypeOK, Heartbeat, FallSilent, Expire, StallTickFails, GCTickFails, row
<1>2. References' /\ Intentions'
  BY Untouched DEF TypeInv, Heartbeat, FallSilent, Expire, StallTickFails, GCTickFails, row
<1>3. QED
  BY <1>1, <1>2 DEF TypeInv

\* A restart empties the task slots and both lists.
LEMMA RestartType == TypeInv /\ Restart => TypeInv'
BY DEF TypeInv, TypeOK, References, Intentions, At, Restart, row

\* A client completes one opened multipart upload.
LEMMA ClientCompletesType ==
  ASSUME TypeInv, NEW u \in Uploads, NEW m \in DOMAIN multiparts[u],
         ClientCompletesMultipart(u, m)
  PROVE  TypeInv'
<1>1. /\ multiparts[u] \in Seq(MultipartStates)
      /\ m \in 1 .. Len(multiparts[u])
  BY LenProperties DEF TypeInv, TypeOK
<1>2. "completed" \in MultipartStates
  BY DEF MultipartStates
<1>3. /\ multiparts' \in [Uploads -> Seq(MultipartStates)]
      /\ \A v \in Uploads : Len(multiparts'[v]) = Len(multiparts[v])
  BY <1>1, <1>2, MultipartUpdate DEF TypeInv, ClientCompletesMultipart
<1>4. TypeOK'
  BY <1>3 DEF TypeInv, TypeOK, ClientCompletesMultipart, row
<1>5. References'
  <2>1. s3Id' = s3Id /\ task' = task /\ reaping' = reaping
    BY DEF ClientCompletesMultipart, row
  <2>2. \A q \in Requests :
          At(q, "save_s3_info")' => task'[q].m \in 1 .. Len(multiparts'[task'[q].upload])
    BY <1>3, <2>1, TaskType DEF TypeInv, References, At
  <2>3. \A i \in reaping' : i.m \in 0 .. Len(multiparts'[i.upload]) /\ (i.at = "abort" => i.m # 0)
    BY <1>3, <2>1 DEF TypeInv, TypeOK, References
  <2>4. QED
    BY <1>3, <2>1, <2>2, <2>3 DEF TypeInv, References
<1>6. Intentions'
  BY DEF TypeInv, Intentions, At, ClientCompletesMultipart
<1>7. QED
  BY <1>4, <1>5, <1>6 DEF TypeInv

\* TypeInv is inductive.
LEMMA TypeInvStep == TypeInv /\ [Next]_vars => TypeInv'
<1> SUFFICES ASSUME TypeInv, [Next]_vars
             PROVE  TypeInv'
  OBVIOUS
<1>1. CASE UNCHANGED vars
  BY <1>1 DEF TypeInv, TypeOK, References, Intentions, At, vars, row
<1>2. CASE Next
  BY <1>2, HandleType, ListStalledType, MarkStalledType, ListExpiredType,
     AbortMultipartType, FailExpiredType, FailType, QuietType, RestartType,
     ClientCompletesType DEF Next
<1>3. QED
  BY <1>1, <1>2

\* TypeInv holds before the first request.
LEMMA TypeInvInit == Init => TypeInv
<1> SUFFICES ASSUME Init
             PROVE  TypeInv
  OBVIOUS
<1>1. <<>> \in Seq(MultipartStates) /\ Len(<<>>) = 0
  BY EmptySeq
<1>2. TypeOK
  BY <1>1 DEF Init, TypeOK
<1>3. References /\ Intentions
  BY <1>1 DEF Init, References, Intentions, At
<1>4. QED
  BY <1>2, <1>3 DEF TypeInv

\* Whatever requests, workers, clients and restarts do, the rows, S3, the
\* handlers in flight and the workers' lists stay well typed.
THEOREM TypeCorrect == Spec => []TypeOK
<1>1. Spec => []TypeInv
  BY TypeInvInit, TypeInvStep, PTL DEF Spec
<1>2. TypeInv => TypeOK
  BY DEF TypeInv
<1>3. QED
  BY <1>1, <1>2, PTL

-----------------------------------------------------------------------------
(* What a step may do to the status column, to files and to S3 *)

\* One row's status is overwritten: by a statement of create, a worker or the
\* fail endpoint, or by a handler with the status it decided on earlier.
StatusWrite(u, raw) ==
  /\ status' = [status EXCEPT ![u] = raw]
  /\ ~DedupConflict(u, raw)
  /\ \/ raw \in {"pending", "failed", "stalled"}
     \/ \E r \in Requests : At(r, "write_status") /\ task[r].upload = u /\ task[r].to = raw
  /\ UNCHANGED <<files, multiparts>>

\* A register handler inserts its row.
FileInsert(r) ==
  /\ At(r, "insert_file")
  /\ files' = [files EXCEPT ![task[r].upload] = @ + 1]
  /\ UNCHANGED <<status, multiparts>>

\* The collector has u on its list.
Listed(u) == \E i \in reaping : i.upload = u

\* S3 opens a multipart upload or one changes its state.
S3Step ==
  /\ UNCHANGED <<status, files>>
  /\ \E u \in Uploads : \A v \in Uploads \ {u} : multiparts'[v] = multiparts[v]
  /\ \A u \in Uploads : HasObject(u) => HasObject(u)'
  /\ \A u \in Uploads : \A m \in DOMAIN multiparts'[u] :
       multiparts'[u][m] = "aborted" =>
         \/ m \in DOMAIN multiparts[u] /\ multiparts[u][m] = "aborted"
         \/ Listed(u)

\* Every step is of one of these kinds.
StepKind ==
  \/ UNCHANGED <<status, files, multiparts>>
  \/ \E u \in Uploads, raw \in RawStatuses : StatusWrite(u, raw)
  \/ \E r \in Requests : FileInsert(r)
  \/ S3Step

\* The steps that write the uploads or files tables do so in one of the ways above.
LEMMA StatusSteps ==
  ASSUME TypeInv,
         \/ \E r \in Requests, u \in Uploads : Create(r, u)
         \/ \E r \in Requests : WriteStatus(r)
         \/ \E u \in Uploads : Fail(u) \/ MarkStalled(u)
         \/ \E i \in reaping : FailExpired(i)
  PROVE  \E u \in Uploads, raw \in RawStatuses : StatusWrite(u, raw)
<1>1. {"pending", "failed", "stalled"} \subseteq RawStatuses
  BY DEF RawStatuses, Statuses
<1>2. CASE \E r \in Requests, u \in Uploads : Create(r, u)
  BY <1>1, <1>2 DEF Create, StatusWrite
<1>3. CASE \E r \in Requests : WriteStatus(r)
  <2>1. PICK r \in Requests : WriteStatus(r)
    BY <1>3
  <2>2. task[r].upload \in Uploads /\ task[r].to \in RawStatuses
    BY <2>1, TaskType DEF TypeInv, Intentions, WriteStatus, At
  <2>3. StatusWrite(task[r].upload, task[r].to)
    BY <2>1 DEF WriteStatus, patch_upload_status, StatusWrite
  <2>4. QED
    BY <2>2, <2>3
<1>4. CASE \E u \in Uploads : Fail(u)
  BY <1>1, <1>4 DEF Fail, patch_upload_status, StatusWrite
<1>5. CASE \E u \in Uploads : MarkStalled(u)
  BY <1>1, <1>5 DEF MarkStalled, StatusWrite, DedupConflict, Active
<1>6. CASE \E i \in reaping : FailExpired(i)
  <2>1. PICK i \in reaping : FailExpired(i)
    BY <1>6
  <2>2. i.upload \in Uploads
    BY DEF TypeInv, TypeOK
  <2>3. StatusWrite(i.upload, "failed")
    BY <2>1 DEF FailExpired, patch_upload_status, StatusWrite
  <2>4. QED
    BY <1>1, <2>2, <2>3
<1>7. QED
  BY <1>2, <1>3, <1>4, <1>5, <1>6

\* Overwriting the state of a multipart upload that is not completed, with
\* anything but aborted, or by the collector.
LEMMA OverwriteIsS3Step ==
  ASSUME TypeInv, NEW u \in Uploads, NEW m \in 1 .. Len(multiparts[u]),
         NEW e \in MultipartStates,
         multiparts' = [multiparts EXCEPT ![u][m] = e],
         multiparts[u][m] = "completed" => e = "completed",
         e = "aborted" => multiparts[u][m] = "aborted" \/ Listed(u),
         UNCHANGED <<status, files>>
  PROVE  S3Step
<1>1. /\ multiparts' \in [Uploads -> Seq(MultipartStates)]
      /\ \A v \in Uploads : Len(multiparts'[v]) = Len(multiparts[v])
      /\ \A v \in Uploads : \A k \in 1 .. Len(multiparts[v]) :
           multiparts'[v][k] = IF v = u /\ k = m THEN e ELSE multiparts[v][k]
  <2>1. TypeOK
    BY DEF TypeInv
  <2>2. QED
    BY <2>1, MultipartUpdate DEF TypeOK
<1>2. \A v \in Uploads : /\ DOMAIN multiparts[v] = 1 .. Len(multiparts[v])
                         /\ DOMAIN multiparts'[v] = 1 .. Len(multiparts[v])
  <2>1. \A v \in Uploads : multiparts[v] \in Seq(MultipartStates) /\ multiparts'[v] \in Seq(MultipartStates)
    BY <1>1 DEF TypeInv, TypeOK
  <2>2. QED
    BY <1>1, <2>1, LenProperties
<1>3. \A v \in Uploads \ {u} : multiparts'[v] = multiparts[v]
  BY DEF TypeInv, TypeOK
<1>4. \A v \in Uploads : HasObject(v) => HasObject(v)'
  BY <1>1, <1>2 DEF HasObject
<1>5. \A v \in Uploads : \A k \in DOMAIN multiparts'[v] :
        multiparts'[v][k] = "aborted" =>
          \/ k \in DOMAIN multiparts[v] /\ multiparts[v][k] = "aborted"
          \/ Listed(v)
  BY <1>1, <1>2
<1>6. QED
  BY <1>3, <1>4, <1>5 DEF S3Step

\* The steps at S3 lose no object and abort only what the collector has listed.
LEMMA S3Steps ==
  ASSUME TypeInv,
         \/ \E r \in Requests : OpenNewMultipart(r) \/ SaveS3Info(r)
         \/ \E i \in reaping : AbortMultipart(i)
         \/ \E u \in Uploads : \E m \in DOMAIN multiparts[u] : ClientCompletesMultipart(u, m)
  PROVE  S3Step
<1>1. CASE \E r \in Requests : OpenNewMultipart(r)
  <2>1. PICK r \in Requests : OpenNewMultipart(r)
    BY <1>1
  <2>0. task[r].upload \in Uploads
    BY <2>1, TaskType DEF TypeInv, OpenNewMultipart, At
  <2>2. PICK u \in Uploads : /\ u = task[r].upload
                            /\ multiparts[u] \in Seq(MultipartStates)
                            /\ "created" \in MultipartStates
    BY <2>0 DEF TypeInv, TypeOK, MultipartStates, OpenMultipart
  <2>3. /\ multiparts'[u] = Append(multiparts[u], "created")
        /\ \A v \in Uploads \ {u} : multiparts'[v] = multiparts[v]
    BY <2>1, <2>2 DEF OpenNewMultipart, TypeInv, TypeOK
  <2>4. /\ DOMAIN multiparts[u] = 1 .. Len(multiparts[u])
        /\ Len(multiparts[u]) \in Nat
        /\ DOMAIN multiparts'[u] = 1 .. Len(multiparts[u]) + 1
        /\ \A k \in 1 .. Len(multiparts[u]) : multiparts'[u][k] = multiparts[u][k]
        /\ multiparts'[u][Len(multiparts[u]) + 1] = "created"
    BY <2>2, <2>3, LenProperties, AppendProperties
  <2>5. \A v \in Uploads : HasObject(v) => HasObject(v)'
    <3>1. SUFFICES ASSUME NEW v \in Uploads, NEW k \in DOMAIN multiparts[v],
                          multiparts[v][k] = "completed"
                   PROVE  k \in DOMAIN multiparts'[v] /\ multiparts'[v][k] = "completed"
      BY DEF HasObject
    <3>2. CASE v # u
      BY <2>3, <3>1, <3>2
    <3>3. CASE v = u
      <4>1. k \in 1 .. Len(multiparts[u])
        BY <2>4, <3>1, <3>3
      <4>2. multiparts'[u][k] = "completed"
        BY <2>4, <3>1, <3>3, <4>1
      <4>3. QED
        BY <2>4, <3>3, <4>1, <4>2
    <3>4. QED
      BY <3>2, <3>3
  <2>6. \A v \in Uploads : \A k \in DOMAIN multiparts'[v] :
          multiparts'[v][k] = "aborted" => k \in DOMAIN multiparts[v] /\ multiparts[v][k] = "aborted"
    BY <2>3, <2>4
  <2>7. UNCHANGED <<status, files>>
    BY <2>1 DEF OpenNewMultipart, row
  <2>8. QED
    BY <2>2, <2>3, <2>5, <2>6, <2>7 DEF S3Step
<1>2. CASE \E r \in Requests : SaveS3Info(r)
  <2>1. PICK r \in Requests : SaveS3Info(r)
    BY <1>2
  <2> DEFINE u == task[r].upload
             m == task[r].m
             e == IF multiparts[u][m] = "created" THEN "offered" ELSE multiparts[u][m]
  <2>2. /\ u \in Uploads
        /\ m \in 1 .. Len(multiparts[u])
        /\ multiparts[u] \in Seq(MultipartStates)
    BY <2>1, TaskType DEF TypeInv, TypeOK, References, SaveS3Info, At
  <2>3. e \in MultipartStates
    BY <2>2, ElementOfSeq DEF MultipartStates, OpenMultipart
  <2>4. /\ multiparts' = [multiparts EXCEPT ![u][m] = e]
        /\ UNCHANGED <<status, files>>
    BY <2>1, <2>2 DEF SaveS3Info, TypeInv, TypeOK
  <2>5. QED
    BY <2>2, <2>3, <2>4, OverwriteIsS3Step
<1>3. CASE \E i \in reaping : AbortMultipart(i)
  <2>1. PICK i \in reaping : AbortMultipart(i)
    BY <1>3
  <2> DEFINE u == i.upload
             m == i.m
             e == IF multiparts[u][m] \in OpenMultipart THEN "aborted" ELSE multiparts[u][m]
  <2>2. /\ u \in Uploads
        /\ m \in 1 .. Len(multiparts[u])
        /\ multiparts[u] \in Seq(MultipartStates)
    BY <2>1, LenProperties DEF TypeInv, TypeOK, References, AbortMultipart
  <2>3. e \in MultipartStates
    BY <2>2, ElementOfSeq DEF MultipartStates
  <2>4. /\ multiparts' = [multiparts EXCEPT ![u][m] = e]
        /\ UNCHANGED <<status, files>>
    BY <2>1, <2>2 DEF AbortMultipart, TypeInv, TypeOK, row
  <2>5. /\ multiparts[u][m] = "completed" => e = "completed"
        /\ Listed(u)
    BY DEF OpenMultipart, Listed
  <2>6. QED
    BY <2>2, <2>3, <2>4, <2>5, OverwriteIsS3Step
<1>4. CASE \E u \in Uploads : \E m \in DOMAIN multiparts[u] : ClientCompletesMultipart(u, m)
  <2>0. PICK u \in Uploads : \E m \in DOMAIN multiparts[u] : ClientCompletesMultipart(u, m)
    BY <1>4
  <2>1. PICK m \in DOMAIN multiparts[u] : ClientCompletesMultipart(u, m)
    BY <2>0
  <2>2. m \in 1 .. Len(multiparts[u]) /\ "completed" \in MultipartStates
    BY LenProperties DEF TypeInv, TypeOK, MultipartStates
  <2>3. /\ multiparts' = [multiparts EXCEPT ![u][m] = "completed"]
        /\ UNCHANGED <<status, files>>
    BY <2>1 DEF ClientCompletesMultipart, row
  <2>4. QED
    BY <2>2, <2>3, OverwriteIsS3Step
<1>5. QED
  BY <1>1, <1>2, <1>3, <1>4

\* Every step of the specification is of one of the kinds above.
LEMMA StepKinds == TypeInv /\ [Next]_vars => StepKind
<1> SUFFICES ASSUME TypeInv, [Next]_vars
             PROVE  StepKind
  OBVIOUS
<1>1. CASE UNCHANGED vars
  BY <1>1 DEF vars, row, StepKind
<1>2. CASE \E r \in Requests : Handle(r)
  <2>1. PICK r \in Requests : Handle(r)
    BY <1>2
  <2>2. CASE \/ \E u \in Uploads : Presign(r, u) \/ Complete(r, u) \/ Cancel(r, u) \/ RegisterFile(r, u)
             \/ \E u \in Uploads, raw \in PatchTargets : PatchStatus(r, u, raw)
             \/ Drop(r)
    BY <2>2 DEF Presign, Complete, Cancel, RegisterFile, PatchStatus, ReadAndValidate, Drop,
                row, StepKind
  <2>3. CASE InsertFile(r)
    BY <2>3 DEF InsertFile, FileInsert, row, StepKind
  <2>4. CASE (\E u \in Uploads : Create(r, u)) \/ WriteStatus(r)
    BY <2>4, StatusSteps DEF StepKind
  <2>5. CASE OpenNewMultipart(r) \/ SaveS3Info(r)
    BY <2>5, S3Steps DEF StepKind
  <2>6. QED
    BY <2>1, <2>2, <2>3, <2>4, <2>5 DEF Handle
<1>3. CASE \/ \E u \in Uploads : Fail(u) \/ MarkStalled(u)
           \/ \E i \in reaping : FailExpired(i)
  BY <1>3, StatusSteps DEF StepKind
<1>4. CASE \/ \E i \in reaping : AbortMultipart(i)
           \/ \E u \in Uploads : \E m \in DOMAIN multiparts[u] : ClientCompletesMultipart(u, m)
  BY <1>4, S3Steps DEF StepKind
<1>5. CASE \/ \E u \in Uploads : Heartbeat(u) \/ FallSilent(u) \/ Expire(u)
           \/ ListStalled \/ ListExpired \/ StallTickFails \/ GCTickFails \/ Restart
  BY <1>5 DEF Heartbeat, FallSilent, Expire, ListStalled, ListExpired, StallTickFails,
              GCTickFails, Restart, row, StepKind
<1>6. QED
  BY <1>1, <1>2, <1>3, <1>4, <1>5 DEF Next

\* An object that S3 has assembled is never lost.
LEMMA ObjectStays ==
  ASSUME TypeInv, [Next]_vars, NEW u \in Uploads, HasObject(u)
  PROVE  HasObject(u)'
<1>1. CASE multiparts' = multiparts
  BY <1>1 DEF HasObject
<1>2. CASE S3Step
  BY <1>2 DEF S3Step
<1>3. QED
  BY <1>1, <1>2, StepKinds DEF StepKind, StatusWrite, FileInsert

-----------------------------------------------------------------------------
(* One active row per hash *)

\* One active row per hash is preserved by each kind of step.
LEMMA OneActiveStep == TypeInv /\ OneActivePerHash /\ [Next]_vars => OneActivePerHash'
<1> SUFFICES ASSUME TypeInv, OneActivePerHash, [Next]_vars
             PROVE  OneActivePerHash'
  OBVIOUS
<1>1. CASE status' = status
  BY <1>1 DEF OneActivePerHash
<1>2. CASE \E u \in Uploads, raw \in RawStatuses : StatusWrite(u, raw)
  <2>1. PICK u \in Uploads, raw \in RawStatuses :
          status' = [status EXCEPT ![u] = raw] /\ ~DedupConflict(u, raw)
    BY <1>2 DEF StatusWrite
  <2>2. QED
    BY <2>1 DEF OneActivePerHash, DedupConflict, TypeInv, TypeOK
<1>3. QED
  BY <1>1, <1>2, StepKinds DEF StepKind, FileInsert, S3Step

\* The dedup index does its work for any number of concurrent handlers: two
\* rows for one file are never active together.
THEOREM DedupHolds == Spec => []OneActivePerHash
<1>1. Init => OneActivePerHash
  BY DEF Init, OneActivePerHash, Active
<1>2. Spec => []TypeInv
  BY TypeInvInit, TypeInvStep, PTL DEF Spec
<1>3. QED
  BY <1>1, <1>2, OneActiveStep, PTL DEF Spec

-----------------------------------------------------------------------------
-----------------------------------------------------------------------------
(* What a step may do to the tasks *)

\* Request r is at a step for row u, with the intention to write `to`.
Working(r, step, u, to) ==
  task[r] # NoTask /\ task[r].at = step /\ task[r].upload = u /\ task[r].to = to

\* How r may have come to be where it is after a step: it was there before,
\* it came from the previous statement of its handler, or it has just begun.
TaskStep(r) ==
  \A step, u, to : Working(r, step, u, to)' =>
    \/ Working(r, step, u, to)
    \/ step \in {"open_multipart", "save_s3_info"} /\ to \in {"none", "pending"}
    \/ step = "write_status" /\ Working(r, "save_s3_info", u, to)
    \/ /\ step = "write_status"
       /\ Working(r, "insert_file", u, to)
       /\ files' = [files EXCEPT ![u] = @ + 1]
    \/ /\ step = "write_status"
       /\ to \in PatchTargets \cup {"s3_completed", "failed"}
       /\ MayReport(u, to)
    \/ step = "insert_file" /\ to = "done" /\ status[u] = "s3_completed"

\* A slot that is launched works on what it was launched for.
LEMMA LaunchWorking ==
  ASSUME TypeOK, NEW q \in Requests, NEW r \in Requests, NEW step, NEW u, NEW to, NEW m,
         Launch(q, step, u, to, m)
  PROVE  /\ r # q => \A s, v, x : Working(r, s, v, x)' => Working(r, s, v, x)
         /\ r = q => \A s, v, x : Working(r, s, v, x)' => s = step /\ v = u /\ x = to
<1>1. /\ r # q => task'[r] = task[r]
      /\ r = q => task'[r] = [at |-> step, upload |-> u, to |-> to, m |-> m]
  BY DEF TypeOK, Launch
<1>2. QED
  BY <1>1 DEF Working

\* A slot that is freed works on nothing.
LEMMA FinishWorking ==
  ASSUME TypeOK, NEW q \in Requests, NEW r \in Requests, Finish(q)
  PROVE  \A s, v, x : Working(r, s, v, x)' => Working(r, s, v, x)
<1>1. task'[r] = IF r = q THEN NoTask ELSE task[r]
  BY DEF TypeOK, Finish
<1>2. QED
  BY <1>1 DEF Working

\* The statements a handler goes through.
LEMMA HandlerTasks ==
  ASSUME TypeInv, NEW q \in Requests, NEW r \in Requests,
         OpenNewMultipart(q) \/ SaveS3Info(q) \/ InsertFile(q) \/ WriteStatus(q) \/ Drop(q)
  PROVE  TaskStep(r)
<1>1. TypeOK
  BY DEF TypeInv
<1>2. CASE OpenNewMultipart(q)
  <2>1. task[q].to \in {"none", "pending"}
    BY <1>2 DEF OpenNewMultipart, TypeInv, Intentions
  <2>2. PICK u, to, m : Launch(q, "save_s3_info", u, to, m) /\ to \in {"none", "pending"}
    BY <1>2, <2>1 DEF OpenNewMultipart
  <2>3. QED
    BY <1>1, <2>2, LaunchWorking DEF TaskStep
<1>3. CASE SaveS3Info(q)
  <2>1. CASE Finish(q)
    BY <1>1, <2>1, FinishWorking DEF TaskStep
  <2>2. CASE Advance(q, "write_status")
    <3>1. PICK u, to, m : /\ Working(q, "save_s3_info", u, to)
                          /\ Launch(q, "write_status", u, to, m)
      BY <1>3, <2>2 DEF SaveS3Info, Advance, At, Working
    <3>2. QED
      BY <1>1, <3>1, LaunchWorking DEF TaskStep
  <2>3. QED
    BY <1>3, <2>1, <2>2 DEF SaveS3Info
<1>4. CASE InsertFile(q)
  <2>1. PICK u, to, m : /\ Working(q, "insert_file", u, to)
                        /\ Launch(q, "write_status", u, to, m)
                        /\ files' = [files EXCEPT ![u] = @ + 1]
    BY <1>4 DEF InsertFile, Advance, At, Working
  <2>2. SUFFICES ASSUME NEW s, NEW v, NEW x, Working(r, s, v, x)', ~Working(r, s, v, x)
                 PROVE  /\ s = "write_status"
                        /\ Working(r, "insert_file", v, x)
                        /\ files' = [files EXCEPT ![v] = @ + 1]
    BY DEF TaskStep
  <2>3. r = q /\ s = "write_status" /\ v = u /\ x = to
    BY <1>1, <2>1, <2>2, LaunchWorking
  <2>4. QED
    BY <2>1, <2>3
<1>5. CASE WriteStatus(q) \/ Drop(q)
  BY <1>1, <1>5, FinishWorking DEF TaskStep, WriteStatus, Drop
<1>6. QED
  BY <1>2, <1>3, <1>4, <1>5

\* The first halves of the handlers.
LEMMA FirstTasks ==
  ASSUME TypeInv, NEW q \in Requests, NEW r \in Requests, NEW u \in Uploads,
         \/ Create(q, u) \/ Presign(q, u)
         \/ \E raw \in PatchTargets : PatchStatus(q, u, raw)
         \/ Complete(q, u) \/ Cancel(q, u) \/ RegisterFile(q, u)
  PROVE  TaskStep(r)
<1>1. TypeOK
  BY DEF TypeInv
<1>2. CASE Create(q, u) \/ Presign(q, u)
  <2>1. PICK to \in {"none", "pending"} : Launch(q, "open_multipart", u, to, 0)
    BY <1>2 DEF Create, Presign
  <2>2. QED
    BY <1>1, <2>1, LaunchWorking DEF TaskStep
<1>3. CASE \/ \E raw \in PatchTargets : PatchStatus(q, u, raw)
           \/ Complete(q, u) \/ Cancel(q, u)
  <2>1. PICK to \in PatchTargets \cup {"s3_completed", "failed"} :
          Launch(q, "write_status", u, to, 0) /\ MayReport(u, to)
    <3>1. MayReport(u, "failed")
      BY DEF MayReport
    <3>2. QED
      BY <1>3, <3>1 DEF PatchStatus, Complete, Cancel, ReadAndValidate
  <2>2. QED
    BY <1>1, <2>1, LaunchWorking DEF TaskStep
<1>4. CASE RegisterFile(q, u)
  <2>1. Launch(q, "insert_file", u, "done", 0)
    BY <1>4 DEF RegisterFile, ReadAndValidate
  <2>2. status[u] = "s3_completed"
    <3>1. <<parse_status(status[u]), "registering">> \in Transitions
      BY <1>4 DEF RegisterFile, ReadAndValidate, validate_transition
    <3>2. parse_status(status[u]) = "s3_completed"
      BY <3>1 DEF Transitions
    <3>3. QED
      BY <3>2 DEF parse_status
  <2>3. QED
    BY <1>1, <2>1, <2>2, LaunchWorking DEF TaskStep
<1>5. QED
  BY <1>2, <1>3, <1>4

\* Every step treats every task so.
LEMMA TaskSteps ==
  ASSUME TypeInv, [Next]_vars, NEW r \in Requests
  PROVE  TaskStep(r)
<1>1. CASE task' = task
  BY <1>1 DEF TaskStep, Working
<1>2. CASE \E q \in Requests : Handle(q)
  BY <1>2, HandlerTasks, FirstTasks DEF Handle
<1>3. CASE Restart
  BY <1>3 DEF Restart, TaskStep, Working
<1>4. QED
  BY <1>1, <1>2, <1>3 DEF Next, vars, Fail, Heartbeat, ListStalled, MarkStalled, ListExpired,
     AbortMultipart, FailExpired, StallTickFails, GCTickFails, ClientCompletesMultipart,
     FallSilent, Expire

-----------------------------------------------------------------------------
(* What is published is stored *)

\* Under WaitForS3, the object of an upload is stored from the moment a
\* handler decides to write s3_completed on.  FileHasObject alone is not
\* inductive: the row and the handlers in flight carry the knowledge from the
\* client's report to the insert.
ObjectInv ==
  /\ \A u \in Uploads : status[u] = "s3_completed" => HasObject(u)
  /\ \A r \in Requests, u \in Uploads :
       Working(r, "write_status", u, "s3_completed") => HasObject(u)
  /\ \A r \in Requests, u \in Uploads : \A to :
       Working(r, "insert_file", u, to) => HasObject(u)
  /\ FileHasObject

\* Intentions, in terms of Working.
LEMMA WorkingIntentions ==
  ASSUME TypeInv, NEW r \in Requests, NEW u, NEW to
  PROVE  /\ Working(r, "open_multipart", u, to) => to \in {"none", "pending"}
         /\ Working(r, "save_s3_info", u, to) => to \in {"none", "pending"}
         /\ Working(r, "insert_file", u, to) => to = "done"
BY DEF TypeInv, Intentions, At, Working

\* A status is overwritten by a worker, by create, by fail, or by the handler
\* that works on it.
LEMMA WhoWrites ==
  ASSUME TypeInv, [Next]_vars, NEW u \in Uploads, status'[u] # status[u],
         status'[u] \notin {"pending", "failed", "stalled"}
  PROVE  \E r \in Requests : Working(r, "write_status", u, status'[u])
<1>1. PICK v \in Uploads, raw \in RawStatuses : StatusWrite(v, raw)
  BY StepKinds DEF StepKind, FileInsert, S3Step
<1>2. u = v /\ status'[u] = raw
  BY <1>1 DEF StatusWrite, TypeInv, TypeOK
<1>3. QED
  BY <1>1, <1>2 DEF StatusWrite, At, Working

\* A files row is inserted by the handler that works on it, and none is deleted.
LEMMA WhoInserts ==
  ASSUME TypeInv, [Next]_vars, NEW u \in Uploads
  PROVE  \/ files'[u] = files[u]
         \/ /\ files'[u] = files[u] + 1
            /\ \E r \in Requests : \E to : Working(r, "insert_file", u, to)
<1>1. CASE files' = files
  BY <1>1
<1>2. CASE \E r \in Requests : FileInsert(r)
  <2>1. PICK r \in Requests : FileInsert(r)
    BY <1>2
  <2>2. PICK v, to : Working(r, "insert_file", v, to) /\ files' = [files EXCEPT ![v] = @ + 1]
    BY <2>1 DEF FileInsert, At, Working
  <2>3. CASE u = v
    BY <2>2, <2>3 DEF TypeInv, TypeOK
  <2>4. CASE u # v
    BY <2>2, <2>4 DEF TypeInv, TypeOK
  <2>5. QED
    BY <2>3, <2>4
<1>3. QED
  BY <1>1, <1>2, StepKinds DEF StepKind, StatusWrite, S3Step

\* ObjectInv is inductive.
LEMMA ObjectStep ==
  ASSUME WaitForS3, TypeInv, ObjectInv, [Next]_vars
  PROVE  ObjectInv'
<1>1. ASSUME NEW u \in Uploads, status'[u] = "s3_completed"
      PROVE  HasObject(u)'
  <2>1. CASE status[u] = "s3_completed"
    BY <2>1, ObjectStays DEF ObjectInv
  <2>2. CASE status[u] # "s3_completed"
    BY <1>1, <2>2, WhoWrites, ObjectStays DEF ObjectInv
  <2>3. QED
    BY <2>1, <2>2
<1>2. ASSUME NEW r \in Requests, NEW u \in Uploads, Working(r, "write_status", u, "s3_completed")'
      PROVE  HasObject(u)'
  <2>1. TaskStep(r)
    BY TaskSteps
  <2>2. \/ Working(r, "write_status", u, "s3_completed")
        \/ Working(r, "save_s3_info", u, "s3_completed")
        \/ Working(r, "insert_file", u, "s3_completed")
        \/ MayReport(u, "s3_completed")
    BY <1>2, <2>1 DEF TaskStep
  <2>3. HasObject(u)
    BY <2>2, WorkingIntentions DEF ObjectInv, MayReport
  <2>4. QED
    BY <2>3, ObjectStays
<1>3. ASSUME NEW r \in Requests, NEW u \in Uploads, NEW to, Working(r, "insert_file", u, to)'
      PROVE  HasObject(u)'
  <2>1. TaskStep(r)
    BY TaskSteps
  <2>2. Working(r, "insert_file", u, to) \/ status[u] = "s3_completed"
    BY <1>3, <2>1 DEF TaskStep
  <2>3. QED
    BY <2>2, ObjectStays DEF ObjectInv
<1>4. ASSUME NEW u \in Uploads, files'[u] > 0
      PROVE  HasObject(u)'
  <2>1. HasObject(u)
    BY <1>4, WhoInserts DEF ObjectInv, FileHasObject
  <2>2. QED
    BY <2>1, ObjectStays
<1>5. QED
  BY <1>1, <1>2, <1>3, <1>4 DEF ObjectInv, FileHasObject

\* Clients that wait for S3 never see a file published without its object,
\* for any number of uploads, concurrent handlers, presigns and restarts.
THEOREM PublishedIsStored == WaitForS3 => (Spec => []FileHasObject)
<1> SUFFICES ASSUME WaitForS3
             PROVE  Spec => []FileHasObject
  OBVIOUS
<1>1. Init => ObjectInv
  BY DEF Init, ObjectInv, FileHasObject, Working
<1>2. Spec => []TypeInv
  BY TypeInvInit, TypeInvStep, PTL DEF Spec
<1>3. ObjectInv => FileHasObject
  BY DEF ObjectInv
<1>4. TypeInv /\ ObjectInv /\ [Next]_vars => ObjectInv'
  BY ObjectStep
<1>5. QED
  BY <1>1, <1>2, <1>3, <1>4, PTL DEF Spec

-----------------------------------------------------------------------------
(* What is done is published *)

\* A handler that is going to write done has inserted the files row.
DoneInv ==
  /\ \A r \in Requests, u \in Uploads : Working(r, "write_status", u, "done") => files[u] > 0
  /\ DoneHasFile

\* DoneInv is inductive if no client PATCHes done.
LEMMA DoneStep ==
  ASSUME "done" \notin PatchTargets, TypeInv, DoneInv, [Next]_vars
  PROVE  DoneInv'
<1>1. \A u \in Uploads : files[u] \in Nat /\ (files[u] > 0 => files'[u] > 0)
  <2>1. SUFFICES ASSUME NEW u \in Uploads
                 PROVE  files[u] \in Nat /\ (files[u] > 0 => files'[u] > 0)
    OBVIOUS
  <2>2. files[u] \in Nat
    BY DEF TypeInv, TypeOK
  <2>3. files'[u] = files[u] \/ files'[u] = files[u] + 1
    BY WhoInserts
  <2>4. QED
    BY <2>2, <2>3
<1>2. ASSUME NEW r \in Requests, NEW u \in Uploads, Working(r, "write_status", u, "done")'
      PROVE  files'[u] > 0
  <2>1. TaskStep(r)
    BY TaskSteps
  <2>2. \/ Working(r, "write_status", u, "done")
        \/ Working(r, "save_s3_info", u, "done")
        \/ files' = [files EXCEPT ![u] = @ + 1]
    BY <1>2, <2>1 DEF TaskStep
  <2>3. QED
    BY <1>1, <2>2, WorkingIntentions DEF DoneInv, TypeInv, TypeOK
<1>3. ASSUME NEW u \in Uploads, status'[u] = "done"
      PROVE  files'[u] > 0
  <2>1. files[u] > 0
    <3>1. CASE status[u] = "done"
      BY <3>1 DEF DoneInv, DoneHasFile
    <3>2. CASE status[u] # "done"
      BY <1>3, <3>2, WhoWrites DEF DoneInv
    <3>3. QED
      BY <3>1, <3>2
  <2>2. QED
    BY <1>1, <2>1
<1>4. QED
  BY <1>2, <1>3 DEF DoneInv, DoneHasFile

\* If no client PATCHes done, what is done has its files row, whatever
\* interrupts or repeats the register handler.
THEOREM DoneIsPublished == "done" \notin PatchTargets => (Spec => []DoneHasFile)
<1> SUFFICES ASSUME "done" \notin PatchTargets
             PROVE  Spec => []DoneHasFile
  OBVIOUS
<1>1. Init => DoneInv
  BY DEF Init, DoneInv, DoneHasFile, Working
<1>2. Spec => []TypeInv
  BY TypeInvInit, TypeInvStep, PTL DEF Spec
<1>3. DoneInv => DoneHasFile
  BY DEF DoneInv
<1>4. TypeInv /\ DoneInv /\ [Next]_vars => DoneInv'
  BY DoneStep
<1>5. QED
  BY <1>1, <1>2, <1>3, <1>4, PTL DEF Spec

-----------------------------------------------------------------------------
(* Only what has expired is aborted *)

\* The collector's list names expired rows only.
ExpiredInv ==
  /\ \A u \in Uploads : Listed(u) => expired[u]
  /\ AbortsOnlyExpired

\* expires_at never moves, and a row is listed after it has passed.
LEMMA ListedSteps ==
  ASSUME TypeInv, [Next]_vars, NEW u \in Uploads
  PROVE  /\ expired[u] => expired'[u]
         /\ Listed(u)' => Listed(u) \/ expired[u]
<1>1. CASE UNCHANGED <<expired, reaping>>
  BY <1>1 DEF Listed
<1>2. CASE ListExpired
  BY <1>2 DEF ListExpired, row, Listed
<1>3. CASE \E i \in reaping : AbortMultipart(i)
  BY <1>3 DEF AbortMultipart, row, Listed
<1>4. CASE \E i \in reaping : FailExpired(i)
  BY <1>4 DEF FailExpired, patch_upload_status, Listed
<1>5. CASE GCTickFails \/ Restart
  BY <1>5 DEF GCTickFails, Restart, row, Listed
<1>6. CASE \E v \in Uploads : Expire(v)
  BY <1>6 DEF Expire, Listed, TypeInv, TypeOK
<1>7. CASE \E r \in Requests : Handle(r)
  BY <1>1, <1>7 DEF Handle, Create, Presign, PatchStatus, Complete, Cancel, RegisterFile,
     ReadAndValidate, OpenNewMultipart, SaveS3Info, InsertFile, WriteStatus, Drop,
     patch_upload_status, row
<1>8. CASE \/ \E v \in Uploads : Fail(v) \/ Heartbeat(v) \/ MarkStalled(v) \/ FallSilent(v)
           \/ ListStalled \/ StallTickFails
           \/ \E v \in Uploads : \E m \in DOMAIN multiparts[v] : ClientCompletesMultipart(v, m)
  BY <1>1, <1>8 DEF Fail, Heartbeat, MarkStalled, FallSilent, ListStalled, StallTickFails,
     ClientCompletesMultipart, patch_upload_status, row
<1>9. QED
  BY <1>1, <1>2, <1>3, <1>4, <1>5, <1>6, <1>7, <1>8 DEF Next, vars, row

\* ExpiredInv is inductive.
LEMMA ExpiredStep ==
  ASSUME TypeInv, ExpiredInv, [Next]_vars
  PROVE  ExpiredInv'
<1>1. \A u \in Uploads : (Listed(u) => expired[u])'
  BY ListedSteps DEF ExpiredInv
<1>2. ASSUME NEW u \in Uploads, NEW m \in DOMAIN multiparts'[u], multiparts'[u][m] = "aborted"
      PROVE  expired'[u]
  <2>1. \/ m \in DOMAIN multiparts[u] /\ multiparts[u][m] = "aborted"
        \/ Listed(u)
    BY <1>2, StepKinds DEF StepKind, StatusWrite, FileInsert, S3Step
  <2>2. expired[u]
    BY <2>1 DEF ExpiredInv, AbortsOnlyExpired
  <2>3. QED
    BY <2>2, ListedSteps
<1>3. QED
  BY <1>1, <1>2 DEF ExpiredInv, AbortsOnlyExpired

\* The collector's stale list never costs a row its multipart upload before
\* its 24 hours are over.
THEOREM OnlyExpiredAborted == Spec => []AbortsOnlyExpired
<1>1. Init => ExpiredInv
  BY DEF Init, ExpiredInv, AbortsOnlyExpired, Listed
<1>2. Spec => []TypeInv
  BY TypeInvInit, TypeInvStep, PTL DEF Spec
<1>3. ExpiredInv => AbortsOnlyExpired
  BY DEF ExpiredInv
<1>4. TypeInv /\ ExpiredInv /\ [Next]_vars => ExpiredInv'
  BY ExpiredStep
<1>5. QED
  BY <1>1, <1>2, <1>3, <1>4, PTL DEF Spec

-----------------------------------------------------------------------------
(* The server keeps its contract *)

\* The refinement mapping of Contract.
Holders == [h \in Hashes |-> {u \in Uploads : FileHash[u] = h /\ status[u] \in Active}]
Stored == {u \in Uploads : HasObject(u)}

\* What the steps of the contract say under the mapping.
LEMMA ContractSteps ==
  ASSUME NEW u \in Uploads
  PROVE  /\ Contract!Take(u) <=>
              /\ Holders[FileHash[u]] = {}
              /\ Holders' = [Holders EXCEPT ![FileHash[u]] = {u}]
              /\ Stored' = Stored /\ files' = files
         /\ Contract!Release(u) <=>
              /\ u \in Holders[FileHash[u]]
              /\ Holders' = [Holders EXCEPT ![FileHash[u]] = @ \ {u}]
              /\ Stored' = Stored /\ files' = files
         /\ Contract!Store(u) <=>
              /\ u \notin Stored
              /\ Stored' = Stored \cup {u}
              /\ Holders' = Holders /\ files' = files
         /\ Contract!Publish(u) <=>
              /\ u \in Stored
              /\ files' = [files EXCEPT ![u] = @ + 1]
              /\ Holders' = Holders /\ Stored' = Stored
BY DEF Contract!Take, Contract!Release, Contract!Store, Contract!Publish, Holders, Stored

\* Overwriting a status takes or releases the row's place, or neither.
LEMMA WriteKeepsContract ==
  ASSUME TypeInv, NEW u \in Uploads, NEW raw \in RawStatuses, StatusWrite(u, raw)
  PROVE  \/ Contract!Take(u)
         \/ Contract!Release(u)
         \/ Holders' = Holders /\ Stored' = Stored /\ files' = files
<1>1. Stored' = Stored /\ files' = files
  BY DEF StatusWrite, Stored, HasObject
<1>2. FileHash[u] \in Hashes
  BY ConstantsAssumption
<1>3. status' \in [Uploads -> RawStatuses \cup {"absent"}]
      /\ status'[u] = raw /\ \A v \in Uploads \ {u} : status'[v] = status[v]
  BY DEF StatusWrite, TypeInv, TypeOK
<1>4. CASE status[u] \notin Active /\ raw \in Active
  <2>1. Holders[FileHash[u]] = {}
    BY <1>2, <1>4 DEF StatusWrite, DedupConflict, Holders
  <2>2. Holders' = [Holders EXCEPT ![FileHash[u]] = {u}]
    <3>1. \A h \in Hashes : Holders'[h] = IF h = FileHash[u] THEN {u} ELSE Holders[h]
      <4>1. SUFFICES ASSUME NEW h \in Hashes, NEW v
                     PROVE  v \in Holders'[h] <=> v \in (IF h = FileHash[u] THEN {u} ELSE Holders[h])
        BY DEF Holders
      <4>2. v \notin Holders[FileHash[u]]
        BY <2>1
      <4>3. QED
        BY <1>2, <1>3, <1>4, <4>2 DEF Holders
    <3>2. QED
      BY <1>2, <3>1 DEF Holders
  <2>3. QED
    BY <1>1, <2>1, <2>2, ContractSteps
<1>5. CASE status[u] \in Active /\ raw \notin Active
  <2>1. u \in Holders[FileHash[u]]
    BY <1>2, <1>5 DEF Holders
  <2>2. Holders' = [Holders EXCEPT ![FileHash[u]] = @ \ {u}]
    <3>1. \A h \in Hashes : Holders'[h] = IF h = FileHash[u] THEN Holders[h] \ {u} ELSE Holders[h]
      <4>1. SUFFICES ASSUME NEW h \in Hashes, NEW v
                     PROVE  v \in Holders'[h] <=>
                              v \in (IF h = FileHash[u] THEN Holders[h] \ {u} ELSE Holders[h])
        BY DEF Holders
      <4>2. QED
        BY <1>2, <1>3, <1>5 DEF Holders
    <3>2. QED
      BY <1>2, <3>1 DEF Holders
  <2>3. QED
    BY <1>1, <2>1, <2>2, ContractSteps
<1>6. CASE status[u] \in Active <=> raw \in Active
  BY <1>1, <1>3, <1>6 DEF Holders
<1>7. QED
  BY <1>4, <1>5, <1>6

\* Each step is one of the contract, or leaves it alone.
LEMMA ContractStep ==
  ASSUME WaitForS3, TypeInv, ObjectInv, [Next]_vars
  PROVE  [Contract!Next]_(Contract!vars)
<1>1. CASE Holders' = Holders /\ Stored' = Stored /\ files' = files
  BY <1>1 DEF Contract!vars, Holders, Stored
<1>2. CASE \E u \in Uploads, raw \in RawStatuses : StatusWrite(u, raw)
  BY <1>1, <1>2, WriteKeepsContract DEF Contract!Next
<1>3. CASE \E r \in Requests : FileInsert(r)
  <2>1. PICK r \in Requests : FileInsert(r)
    BY <1>3
  <2>2. PICK u \in Uploads : \E to : Working(r, "insert_file", u, to) /\ files' = [files EXCEPT ![u] = @ + 1]
    BY <2>1, TaskType DEF FileInsert, At, Working, TypeInv
  <2>3. u \in Stored
    BY <2>2 DEF ObjectInv, Stored
  <2>4. Holders' = Holders /\ Stored' = Stored
    BY <2>1 DEF FileInsert, Holders, Stored, HasObject
  <2>5. Contract!Publish(u)
    BY <2>2, <2>3, <2>4, ContractSteps
  <2>6. QED
    BY <2>5 DEF Contract!Next
<1>4. CASE S3Step
  <2>1. PICK u \in Uploads : \A v \in Uploads \ {u} : multiparts'[v] = multiparts[v]
    BY <1>4 DEF S3Step
  <2>2. Holders' = Holders /\ files' = files
    BY <1>4 DEF S3Step, Holders
  <2>3. /\ \A v \in Uploads : HasObject(v) => HasObject(v)'
        /\ \A v \in Uploads \ {u} : HasObject(v)' <=> HasObject(v)
    BY <1>4, <2>1 DEF S3Step, HasObject
  <2>4. CASE HasObject(u) <=> HasObject(u)'
    <3>1. Stored' = Stored
      BY <2>3, <2>4 DEF Stored
    <3>2. QED
      BY <1>1, <2>2, <3>1
  <2>5. CASE ~HasObject(u) /\ HasObject(u)'
    <3>1. u \notin Stored /\ Stored' = Stored \cup {u}
      BY <2>3, <2>5 DEF Stored
    <3>2. Contract!Store(u)
      BY <2>2, <3>1, ContractSteps
    <3>3. QED
      BY <3>2 DEF Contract!Next
  <2>6. QED
    BY <2>3, <2>4, <2>5
<1>5. CASE UNCHANGED <<status, files, multiparts>>
  BY <1>1, <1>5 DEF Holders, Stored, HasObject
<1>6. QED
  BY <1>2, <1>3, <1>4, <1>5, StepKinds DEF StepKind

\* With clients that wait for S3, the server implements UploadContract: each
\* hash is a lock, objects stay, and only stored uploads are published.
THEOREM ContractKept == WaitForS3 => (Spec => KeepsContract)
<1> SUFFICES ASSUME WaitForS3
             PROVE  Spec => Contract!Spec
  BY DEF KeepsContract
<1>1. Init => Contract!Init
  BY DEF Init, Contract!Init, Active, HasObject
<1>2. Init => ObjectInv
  BY DEF Init, ObjectInv, FileHasObject, Working
<1>3. Spec => []TypeInv
  BY TypeInvInit, TypeInvStep, PTL DEF Spec
<1>4. TypeInv /\ ObjectInv /\ [Next]_vars => ObjectInv'
  BY ObjectStep
<1>5. TypeInv /\ ObjectInv /\ [Next]_vars => [Contract!Next]_(Contract!vars)
  BY ContractStep
<1>6. QED
  BY <1>1, <1>2, <1>3, <1>4, <1>5, PTL DEF Spec, Contract!Spec

=============================================================================
