------------------------------ MODULE SyncPull ------------------------------
(***************************************************************************)
(* The pull synchronisation: crates/sync/src/pull.rs pages through the     *)
(* server's rows by updation_time, writes each page into the local         *)
(* database and then moves a cursor, loop after loop: collections, then    *)
(* one loop per local collection, then the trash.  The server's rows       *)
(* change between any two steps, and the sync may end at any of them.      *)
(*                                                                         *)
(* Instants are microseconds, as Postgres stores them.  A cursor is a      *)
(* number of milliseconds; here it is the instant it is read back as: the  *)
(* instant it was made from, truncated to a millisecond.                   *)
(*                                                                         *)
(* The zoo server answers /api/sync/files only.  The pages of collections  *)
(* and of the trash are modelled as the client expects them: paged like    *)
(* the files.  /api/sync/files ignores collection_id, so the loop of each  *)
(* collection pages through all files of the user; its deleted_file_ids    *)
(* are always empty and left out.                                          *)
(***************************************************************************)
EXTENDS Integers, FiniteSets

CONSTANTS
  Files,         \* ids of files rows
  Collections,   \* ids of collections
  Id,            \* the order of the ids
  Home,          \* collection_id of each file
  Readable,      \* the rows this client's keys can decrypt
  PageSize,      \* DEFAULT_PAGE_SIZE
  PerMilli,      \* instants per millisecond
  MaxTime,       \* bound: the last instant at which a row is written
  Writers,       \* bound: how many rows are written at the same time
  Distinct,      \* bound: no two of them begin at the same instant
  Served,        \* the endpoints the server has besides /api/sync/files
  ReadsFail,     \* reading a cursor may fail, which counts as no cursor
  Interruptible  \* the network or the database fails, or the app is closed

Rows == Files \cup Collections

\* The keys of sync_state, which also name the loops.
Keys == {"collections", "trash"} \cup Collections

ASSUME ConstantsAssumption ==
  /\ Id \in [Rows -> Nat]
  /\ \A q, r \in Rows : Id[q] = Id[r] => q = r
  /\ Files \cap Collections = {}
  /\ {"collections", "trash"} \cap Collections = {}
  /\ "idle" \notin Keys
  /\ Home \in [Files -> Collections]
  /\ Readable \subseteq Rows
  /\ PageSize \in Nat \ {0}
  /\ PerMilli \in Nat \ {0}
  /\ MaxTime \in Nat
  /\ Writers \in Nat \ {0}
  /\ Distinct \in BOOLEAN
  /\ Served \subseteq {"collections", "trash"}
  /\ ReadsFail \in BOOLEAN
  /\ Interruptible \in BOOLEAN

VARIABLES
  (* the server *)
  clock,    \* the latest NOW() a write statement was given
  visible,  \* what a reader sees of a row: "none", "live" or "archived"
  time,     \* its updation_time
  pending,  \* the NOW() of the statement that is writing it; 0: none
  (* the client's database *)
  local,    \* its files rows: "none", "present" or "archived"
  known,    \* its collections rows
  cursor,   \* sync_state
  (* the sync in progress *)
  phase,    \* the loop it is in, or "idle"
  step,     \* what the loop does next
  since,    \* current_since
  todo,     \* the collections whose loop is still to come
  page      \* the page in hand

server   == <<clock, visible, time, pending>>
database == <<local, known, cursor>>
sync     == <<phase, step, since, todo, page>>
vars     == <<server, database, sync>>

-----------------------------------------------------------------------------
(* The server *)

\* Mutant: a whole millisecond is taken off.
FloorBelow(t) == t - PerMilli

\* Mutant: the next millisecond.
FloorRoundsUp(t) == t - (t % PerMilli) + PerMilli

\* timestamp_millis and back: the instant without its microseconds.
Floor(t) == t - (t % PerMilli)

Table(k) == IF k = "collections" THEN Collections ELSE Files
Wanted(k) == IF k = "trash" THEN "archived" ELSE "live"

\* ORDER BY updation_time ASC, id ASC
Before(q, r) == time[q] < time[r] \/ (time[q] = time[r] /\ Id[q] < Id[r])

\* Mutant: archived rows are listed with the others.
MatchingArchivedToo(k, s) == {r \in Table(k) : visible[r] # "none" /\ time[r] > s}

\* WHERE updation_time > since AND archived_at IS NULL
Matching(k, s) == {r \in Table(k) : visible[r] = Wanted(k) /\ time[r] > s}

\* LIMIT PageSize
IsPage(k, s, rows) ==
  /\ rows \subseteq Matching(k, s)
  /\ \A q \in rows, r \in Matching(k, s) \ rows : Before(q, r)
  /\ Cardinality(rows) <= PageSize
  /\ Cardinality(rows) < PageSize => rows = Matching(k, s)

EmptyPage == [rows |-> {}, latest |-> 0, more |-> FALSE]

\* Mutant: there is more until a page is empty.
AnswerAlwaysMore(rows, last) ==
  [rows |-> rows, latest |-> Floor(time[last]), more |-> TRUE]

\* The answer: latest_updated_at is the time of the last row, has_more says
\* that the page is full.
Answer(rows, last) ==
  [rows |-> rows, latest |-> Floor(time[last]), more |-> Cardinality(rows) >= PageSize]

\* A row is inserted, or a file is archived: its updation_time is NOW(), the
\* instant at which the statement began.
BeginWrite(r) ==
  /\ pending[r] = 0
  /\ visible[r] \in (IF r \in Files THEN {"none", "live"} ELSE {"none"})
  /\ Cardinality({q \in Rows : pending[q] # 0}) < Writers
  /\ \E now \in clock .. MaxTime :
       /\ now > 0
       /\ Distinct => now > clock
       /\ clock' = now
       /\ pending' = [pending EXCEPT ![r] = now]
  /\ UNCHANGED <<visible, time, database, sync>>

\* The statement commits: from now on others see the row.
CommitWrite(r) ==
  /\ pending[r] # 0
  /\ visible' = [visible EXCEPT ![r] = IF @ = "none" THEN "live" ELSE "archived"]
  /\ time' = [time EXCEPT ![r] = pending[r]]
  /\ pending' = [pending EXCEPT ![r] = 0]
  /\ UNCHANGED <<clock, database, sync>>

-----------------------------------------------------------------------------
(* The client's database *)

\* batch_decrypt_files skips what it cannot decrypt.
Decrypted(rows) == rows \cap Readable

\* upsert_files: one transaction, in which archived_at is overwritten with
\* NULL.
Upserted(rows) == [f \in Files |-> IF f \in rows THEN "present" ELSE local[f]]

\* archive_files: an UPDATE, which finds only the rows that are there.
Archived(rows) ==
  [f \in Files |-> IF f \in rows /\ local[f] # "none" THEN "archived" ELSE local[f]]

\* collection_id REFERENCES collections(id)
Orphans(rows) == {f \in rows : Home[f] \notin known}

\* write_cursor, a statement of its own.
WriteCursor(k, t) == cursor' = [cursor EXCEPT ![k] = t]

-----------------------------------------------------------------------------
(* The sync *)

\* read_cursor(..).unwrap_or(Some(0)).unwrap_or(0)
ReadCursor(k) == {cursor[k]} \cup (IF ReadsFail THEN {0} ELSE {})

\* A loop begins with its cursor.
EnterLoop(k) ==
  /\ phase' = k
  /\ step' = "fetch"
  /\ since' \in ReadCursor(k)
  /\ page' = EmptyPage

\* sync_all is over, or gives up: what it had in memory is gone.
Stop ==
  /\ phase' = "idle"
  /\ step' = "fetch"
  /\ since' = 0
  /\ todo' = {}
  /\ page' = EmptyPage

\* The loop ends: the list of local collections is read after the first one.
LeaveLoop ==
  LET left == IF phase = "collections" THEN known ELSE todo IN
  \/ /\ phase = "trash"
     /\ Stop
  \/ /\ phase # "trash"
     /\ \E c \in left : EnterLoop(c) /\ todo' = left \ {c}
  \/ /\ phase # "trash"
     /\ left = {}
     /\ EnterLoop("trash")
     /\ todo' = {}

StartSync ==
  /\ phase = "idle"
  /\ EnterLoop("collections")
  /\ todo' = {}
  /\ UNCHANGED <<server, database>>

Fetching == phase # "idle" /\ step = "fetch"
Has(k) == k \in Served \cup Collections

\* The server has no such route, or answers with another error.
FetchRefused ==
  /\ Fetching
  /\ ~Has(phase) \/ Interruptible
  /\ Stop
  /\ UNCHANGED <<server, database>>

\* Mutant: an empty page is applied like any other.
FetchEmptyPageGoesOn ==
  /\ Fetching
  /\ Has(phase)
  /\ Matching(phase, since) = {}
  /\ step' = "apply"
  /\ UNCHANGED <<phase, since, todo, page, server, database>>

\* An empty page ends the loop, its latest_updated_at (0) is not written.
FetchEmptyPage ==
  /\ Fetching
  /\ Has(phase)
  /\ Matching(phase, since) = {}
  /\ LeaveLoop
  /\ UNCHANGED <<server, database>>

FetchPage ==
  /\ Fetching
  /\ Has(phase)
  /\ \E rows \in SUBSET Matching(phase, since) : \E last \in rows :
       /\ IsPage(phase, since, rows)
       /\ \A r \in rows \ {last} : Before(r, last)
       /\ page' = Answer(rows, last)
  /\ step' = "apply"
  /\ UNCHANGED <<phase, since, todo, server, database>>

Applying(k) == phase = k /\ step = "apply"

\* upsert_collection, one statement per collection.
UpsertCollections ==
  /\ Applying("collections")
  /\ page.rows \subseteq Readable
  /\ known' = known \cup page.rows
  /\ step' = "save"
  /\ UNCHANGED <<phase, since, todo, page, server, local, cursor>>

\* A name that cannot be decrypted, or a failure, ends the sync; the
\* collections before it have been written.
FailCollections ==
  /\ Applying("collections")
  /\ \E c \in page.rows :
       LET done == {d \in page.rows : Before(d, c)} IN
       /\ c \notin Readable \/ Interruptible
       /\ done \subseteq Readable
       /\ known' = known \cup done
  /\ Stop
  /\ UNCHANGED <<server, local, cursor>>

UpsertFiles ==
  /\ \E c \in Collections : Applying(c)
  /\ Orphans(Decrypted(page.rows)) = {}
  /\ local' = Upserted(Decrypted(page.rows))
  /\ step' = "save"
  /\ UNCHANGED <<phase, since, todo, page, server, known, cursor>>

\* Mutant: a failed transaction is logged and the loop goes on.
FailFilesGoesOn ==
  /\ \E c \in Collections : Applying(c)
  /\ Orphans(Decrypted(page.rows)) # {}
  /\ step' = "save"
  /\ UNCHANGED <<phase, since, todo, page, server, database>>

\* The transaction fails.
FailFiles ==
  /\ \E c \in Collections : Applying(c)
  /\ Orphans(Decrypted(page.rows)) # {}
  /\ Stop
  /\ UNCHANGED <<server, database>>

ArchiveFiles ==
  /\ Applying("trash")
  /\ local' = Archived(page.rows)
  /\ step' = "save"
  /\ UNCHANGED <<phase, since, todo, page, server, known, cursor>>

\* The cursor, and the end of the loop's body.
SaveCursor ==
  /\ phase # "idle"
  /\ step = "save"
  /\ WriteCursor(phase, page.latest)
  /\ \/ /\ page.more
        /\ since' = page.latest
        /\ step' = "fetch"
        /\ page' = EmptyPage
        /\ UNCHANGED <<phase, todo>>
     \/ /\ ~page.more
        /\ LeaveLoop
  /\ UNCHANGED <<server, local, known>>

\* A request or a statement fails, or the app is closed.
Interrupt ==
  /\ Interruptible
  /\ phase # "idle"
  /\ Stop
  /\ UNCHANGED <<server, database>>

-----------------------------------------------------------------------------

Init ==
  /\ clock = 0
  /\ visible = [r \in Rows |-> "none"]
  /\ time = [r \in Rows |-> 0]
  /\ pending = [r \in Rows |-> 0]
  /\ local = [f \in Files |-> "none"]
  /\ known = {}
  /\ cursor = [k \in Keys |-> 0]
  /\ phase = "idle"
  /\ step = "fetch"
  /\ since = 0
  /\ todo = {}
  /\ page = EmptyPage

\* What sync_all does by itself, without the server or a failure.
Proceed ==
  \/ FetchRefused
  \/ FetchEmptyPage
  \/ FetchPage
  \/ UpsertCollections
  \/ FailCollections
  \/ UpsertFiles
  \/ FailFiles
  \/ ArchiveFiles
  \/ SaveCursor

Next ==
  \/ \E r \in Rows : BeginWrite(r)
  \/ \E r \in Rows : CommitWrite(r)
  \/ StartSync
  \/ Proceed
  \/ Interrupt

Spec == Init /\ [][Next]_vars

\* A sync that was started goes on.
ProceedingSpec == Spec /\ WF_vars(Proceed)

-----------------------------------------------------------------------------
(* Properties *)

TypeOK ==
  /\ clock \in Nat
  /\ visible \in [Rows -> {"none", "live", "archived"}]
  /\ time \in [Rows -> Nat]
  /\ pending \in [Rows -> Nat]
  /\ local \in [Files -> {"none", "present", "archived"}]
  /\ known \subseteq Collections
  /\ cursor \in [Keys -> Nat]
  /\ phase \in Keys \cup {"idle"}
  /\ step \in {"fetch", "apply", "save"}
  /\ since \in Nat
  /\ todo \subseteq Collections
  /\ page \in [rows : SUBSET Rows, latest : Nat, more : BOOLEAN]

\* The loop of k will not ask for f again: f is before its cursor, or before the
\* end of the page in hand and not one of the rows still to be applied.
Reached(k, f) ==
  \/ time[f] <= cursor[k]
  \/ /\ phase = k /\ step # "fetch"
     /\ time[f] <= page.latest
     /\ step = "apply" => f \notin page.rows

\* The statement that writes f commits now, after one that had begun no earlier
\* has already committed.
CommitsLate(f) ==
  /\ pending[f] # 0 /\ pending'[f] = 0
  /\ \E q \in Rows \ {f} : visible[q] # "none" /\ time[q] >= pending[f]

\* A page that is fetched now ends between f and a row of f's instant, which is
\* a whole millisecond.
SharesEnd(f) ==
  /\ step = "fetch"
  /\ page'.latest = time[f] /\ f \notin page'.rows
  /\ \E q \in page'.rows : time[q] = time[f]

\* The loop of c is past f, which the client does not have.
Skipped(f, c) == visible[f] = "live" /\ local[f] # "present" /\ Reached(c, f)

\* No loop goes past a file that the client could read and does not have,
\* wherever a sync is interrupted, whatever fails, and whatever is written
\* while a page is on its way, but for the two ways in which the server's pages
\* themselves leave one out: its statement commits after a later one, or a page
\* is cut between it and a row of the same instant.
NothingSkipped ==
  [][\A f \in Files \cap Readable, c \in Collections :
       Skipped(f, c)' /\ ~Skipped(f, c) => CommitsLate(f) \/ SharesEnd(f)]_vars

\* The trash loop is past f, and the client still shows it, or is about to.
InHand(f) == phase \in Collections /\ step = "apply" /\ f \in Decrypted(page.rows)
Undead(f) ==
  /\ visible[f] = "archived"
  /\ Reached("trash", f)
  /\ local[f] = "present" \/ InHand(f)

\* The trash loop does not go past an archived file that the client still
\* shows, and no later page of files brings one back, but for the same two ways.
NothingUndead ==
  [][\A f \in Files : Undead(f)' /\ ~Undead(f) => CommitsLate(f) \/ SharesEnd(f)]_vars

\* A cursor retreats only in a loop that could not read it: no page, not even
\* one the server answers empty, sends a loop back to rows it has seen.
CursorsAdvance == [][\A k \in Keys : cursor'[k] >= cursor[k] \/ since < cursor[k]]_vars

\* The local database implements CatalogMirror: a page that was fetched
\* before a file was archived is applied before the trash hides the file.
Mirror == INSTANCE CatalogMirror WITH
  catalog <- [f \in Files |-> visible[f]],
  mirror  <- local

MirrorsCatalog == Mirror!Spec

\* A sync that was started ends, if a page holds more rows than share a
\* millisecond.
SyncEnds == []<>(phase = "idle")
=============================================================================
