---------------------------- MODULE MCZooUploads ----------------------------
(* Instances of ZooUploads for TLC. *)
EXTENDS ZooUploads, TLC

\* Every row is for the same file of the same user.
OneFile == [u \in Uploads |-> CHOOSE h \in Hashes : TRUE]

AnyEndpoint == AllEndpoints

\* The requests that move a row in or out of the active statuses.  Of the
\* others, complete writes what PATCH s3_completed writes and fail what
\* cancel does.
SlotEndpoints == {"create", "patch", "cancel", "register"}

\* The strings the zoo-client SDK sends.
SdkTargets == {"encrypting", "uploading", "s3_completed", "resuming"}

\* Every string but done.
AllButDone == RawStatuses \ {"done"}

Symmetry == Permutations(Requests) \cup Permutations(Uploads)
RequestSymmetry == Permutations(Requests)
=============================================================================
