---------------------------- MODULE UploadStatus ----------------------------
(***************************************************************************)
(* The status column of an uploads row and the transition relation that    *)
(* the handlers of the zoo server consult before they write it.            *)
(*                                                                         *)
(* The column is TEXT: PATCH stores the string it was sent.  "other"       *)
(* stands for every string that is not the name of a status.               *)
(***************************************************************************)
EXTENDS Naturals

\* The variants of types::upload::UploadStatus, by the names they are stored under.
Statuses ==
  {"pending", "encrypting", "uploading", "s3_completed", "registering",
   "done", "stalled", "resuming", "failed"}

\* What the column may hold.
RawStatuses == Statuses \cup {"other"}

\* parse_status: a string that names no status is read back as failed.
parse_status(raw) == IF raw \in Statuses THEN raw ELSE "failed"

\* The pairs accepted by validate_transition.
Transitions ==
  ({"pending"}      \X {"encrypting", "failed"})                     \cup
  ({"encrypting"}   \X {"uploading", "failed"})                      \cup
  ({"uploading"}    \X {"s3_completed", "stalled", "failed"})        \cup
  ({"s3_completed"} \X {"registering", "failed"})                    \cup
  ({"registering"}  \X {"done", "failed"})                           \cup
  ({"stalled"}      \X {"uploading", "failed", "resuming"})          \cup
  ({"resuming"}     \X {"uploading", "failed"})

validate_transition(from, to) == <<from, to>> \in Transitions

\* The statuses covered by the partial unique index idx_uploads_dedup.
Active == {"pending", "encrypting", "uploading"}

\* The statuses list_expired_uploads leaves alone.
Finished == {"done", "failed"}
=============================================================================
