# A verification development for rey

rey is an end-to-end encrypted photo store: a Rust server (`crates/zoo`, axum
+ Postgres + S3), a client SDK (`crates/zoo-client`), a pull-based sync engine
(`crates/sync`) on a local SQLite database (`crates/local-db`), a thumbnail
cache (`crates/thumbnail`), and thin desktop commands (`crates/client-lib`).
The repository also holds a tool of its developers, the live mode of the design
skill (`.agents/skills/impeccable/scripts`): a helper process, an overlay in the
browser and scripts a coding agent runs, with which variants of a page's element
are generated, compared, and accepted into the source.

This directory holds TLA+ models of the concurrent and failure-prone parts of
both, the TLC runs that check them, and proofs checked by TLAPS. Paths below are
relative to `src/`; the scripts of live mode are named without their directory.

## 1. Inventory

| Part | State | Operations | Hard behaviour | What makes it correct |
|---|---|---|---|---|
| Upload handlers (`crates/zoo/src/api/uploads.rs`, `db/uploads.rs`, `db/files.rs`) | rows of `uploads` and `files`; multipart uploads in S3 | create, patch_status, complete, register_file, cancel, fail, presign, presign_refresh, heartbeat, confirm_part | every handler reads the row, decides, and writes it in a later autocommitted statement; S3 calls in between; a client may hang up anywhere | one active upload per file; nothing published without its object; nothing done without its files row |
| Stall detector (`workers/stall_detector.rs`) | a list of rows read at the start of a tick | list, mark, broadcast | works from a stale list; an error ends the tick | a silent upload is noticed |
| Garbage collector (`workers/garbage_collector.rs`) | a list of rows read at the start of a tick | list, abort multipart, fail, broadcast | the same, with S3 calls between list and write | aborts only what expired; an abandoned row frees its dedup slot |
| Status relation (`state.rs`, `types/src/upload.rs`) | - | `validate_transition`, `parse_status` | PATCH stores any string | - |
| Upload parts (`db/upload_parts.rs`, `confirm_part`) | part rows, `parts_bitmask` | confirm | read-modify-write of the bitmask | bits and part rows agree |
| SSE hub (`sse/hub.rs`, `api/events.rs`) | a broadcast channel per user | subscribe, broadcast, cleanup | check-then-insert, bounded buffer | a subscriber hears later events |
| Upload SDK (`zoo-client/src/orchestrator.rs`) | control flow of one upload | upload_file, resume_upload, cancel | crashes between calls, retries, resume in any state | an upload that is resumed ends registered |
| SSE client (`zoo-client/src/sse.rs`) | reconnect delay | stream | reconnect with backoff | delay bounded, reset on success |
| Thumbnail cache (`thumbnail/src/cache/mod.rs`, `inflight.rs`) | memory LRU, disk cache, in-flight map | get, evict, insert_decrypted | two locks in both orders, notify without a permit, failing fetcher | one download per file, nobody waits for ever |
| Disk cache (`thumbnail/src/cache/disk.rs`) | files and a JSON index | get, insert, remove, evict | crash between file and index | index and files agree, size bounded |
| Sync engine (`sync/src/pull.rs`, server `api/sync.rs`, `local-db`) | cursors, local rows | sync_collections, sync_files, sync_trash | pagination by timestamp, concurrent writers, undecryptable files | every visible row reaches the client |
| Rate limiter (`rate_limit.rs`) | request times per key | check | window edges | never more than max per window |
| Sessions, devices (`api/auth.rs`, `api/devices.rs`, `auth/middleware.rs`) | session and device rows | login, logout, register, deregister | single statements | - |
| Validation, crypto, image, metadata, types, common, zoo-wasm, apps | none | pure functions, scaffolds | - | unit and property tests |
| Live helper (`live-server.mjs`) | the queue of requests with their leases, parked polls, SSE streams, the exit timer | POST /events, GET and POST /poll, streams, timers, restart | a lease may end under a slow agent, a poll may sleep past a lease, processes die anywhere | a request is handed out until it is answered, also by the next server |
| Live session store (`live-session-store.mjs`) | a journal per session, folded into a snapshot | appendEvent, getSnapshot, listActiveSessions | two writes per append, one slot for a pending request, stale checkpoints | what is remembered is what a new server must hand out |
| Live CLIs (`live-poll.mjs`, `live-complete.mjs`, `live-resume.mjs`) | - | poll with automatic accept, complete, resume | interrupted between event and reply | work is finished once, or can be resumed |
| Live overlay (`live-browser.js`, `live-browser-session.js`) | the session, its observer, timers, scroll lock, panel; local storage | pick, go, cycle, accept, discard, resume, checkpoints | hot updates in pieces, reloads, answers that outlive what they answer, lost broadcasts | the overlay speaks of the variant that is there, and never gets stuck |
| Live annotations (`live-browser.js`) | notes, strokes, pointer, input, last click | press, drag, edit, delete, go | indices into a list that is spliced in between | an index refers to its pin, no empty note is sent |
| Live wrap, accept, inject (`live-wrap.mjs`, `live-accept.mjs`, `live-inject.mjs`, `is-generated.mjs`) | the project's files | wrap, accept, discard, inject, remove | text edited by markers and tag counting, sessions inside each other, generated copies | the author's code changes only by what was accepted |
| Live boot, design parser, skill maintenance, context (`live.mjs`, `detect-csp.mjs`, `design-parser.mjs`, `pin.mjs`, `cleanup-deprecated.mjs`, `critique-storage.mjs`, `load-context.mjs`) | none, or files written once | one-shot scripts | - | - |

How they interact: clients call the handlers over HTTP and S3 over presigned
URLs the handlers gave them; handlers and both workers share the `uploads`
table and nothing else (no transaction spans two statements, no in-process
lock); workers broadcast to the SSE hub; the desktop client drives the SDK, the
sync engine and the caches.

In live mode, the overlay POSTs requests and checkpoints to the helper and hears
of answers over SSE; the helper journals requests and queues them; the agent
long-polls for them, edits the project's files with the scripts, and answers; the
dev server brings the edited source back into the page by hot updates. The
overlay, the helper and the agent restart independently of each other: the page
remembers in local storage, the helper in the journals, the agent in neither.

The hazards of every part, with the line where each
bites, are listed in `PROJECT.json`; section 6 names the ones that are not.

## 2. Modules

| Module | What it is |
|---|---|
| `UploadStatus` | the status column: `parse_status`, the pairs of `validate_transition`, the statuses of the dedup index |
| `ZooUploads` | the upload handlers, the stall detector, the garbage collector and S3's multipart uploads |
| `UploadContract` | the abstract specification of the uploads: a lock per hash, stored objects, published files |
| `ZooUploads_proofs` | the theorems about `ZooUploads` |
| `SyncPull` | the pull synchronisation with the server's rows and the local database |
| `CatalogMirror` | the abstract specification of the synchronisation: a catalog and a mirror that never runs ahead of it |
| `SyncPull_proofs` | the theorems about `SyncPull` |
| `ThumbnailCache` | the memory cache, the disk cache behind its lock, the in-flight map |
| `ThumbnailCache_proofs` | the theorems about `ThumbnailCache` |
| `Places` | the entries of a sequence at a set of places; used by `LiveServer` and `LiveFiles` |
| `Places_proofs` | lemmas about least and greatest places, about what is picked, and about counting |
| `LiveStore` | the fold of a live session's journal |
| `LiveServer` | the live helper with its queue, leases, polls and timers, the agent and its CLIs, on `LiveStore` |
| `LiveDelivery` | the abstract specification of the helper: outstanding and remembered requests |
| `LiveServer_proofs` | the theorems about `LiveServer` |
| `LiveBrowser` | the overlay in a tab, its storage, and what it can notice of network, helper, agent and hot updates |
| `LiveBrowser_proofs` | the theorems about `LiveBrowser` |
| `LiveAnnotations` | notes and strokes on the chosen element |
| `LiveAnnotations_proofs` | the theorems about `LiveAnnotations` |
| `LiveFiles` | what wrap, accept, discard, inject, the agent and a build do to the project's files |
| `LiveFiles_proofs` | the theorems about `LiveFiles`: live-inject by itself, and all the scripts together |
| `MC...` | the constants of the TLC instances |
| `ThumbnailClaims`, `LiveClaims` | what documents say and the code does not do |

### ZooUploads

Every SQL statement that changes a row and every S3 call that changes something
is a step. A handler in flight is a record in `task`: the statement it executes
next, its row, the status it decided to write, and the multipart upload it
opened. The read half of a handler (`ReadAndValidate`) checks
`validate_transition` on the status it read and launches the task; the write
half (`WriteStatus`) is the unconditional `UPDATE` of `patch_upload_status`, so
whatever happens in between is not seen - as in the code.

| Code | Model |
|---|---|
| `create` | `Create` (INSERT), `OpenNewMultipart`, `SaveS3Info`, `WriteStatus` of `pending` |
| `presign`, `presign_refresh` | `Presign`, `OpenNewMultipart`, `SaveS3Info` |
| `patch_status`, `complete`, `cancel` | `PatchStatus` / `Complete` / `Cancel`, then `WriteStatus` |
| `register_file` | `RegisterFile`, `InsertFile`, `WriteStatus` of `done` |
| `fail`, `heartbeat` | `Fail`, `Heartbeat` (one statement each) |
| error, dropped connection | `Drop`: the task ends where it is |
| `StallDetector::tick` | `ListStalled`, `MarkStalled` per row, `StallTickFails` |
| `GarbageCollector::tick` | `ListExpired`, `AbortMultipart` and `FailExpired` row after row, `GCTickFails` |
| process restart | `Restart`: tasks and ticks are lost, tables and S3 stay |
| clock | `FallSilent` (the stall timeout passed), `Expire` (24 hours passed) |
| client at S3 | `ClientCompletesMultipart` |
| `idx_uploads_dedup` | `DedupConflict`, which every write of an active status is subject to |

Abstractions. Time is two flags per row, because the code only compares
`last_heartbeat_at` and `expires_at` with a threshold. A files row is counted,
its columns are not modelled. `"other"` is every PATCH string that names no
status. Requests answered 403/404 or refused by validation change nothing and
are left out. The collector's `LIMIT 100` is larger than any instance and is
left out; so are rows that `SKIP LOCKED` passes over because a single statement
holds their lock at that very moment (the next tick lists them).
`SaveS3Info` of a multipart upload the collector has already aborted leaves it
aborted.

`WaitForS3` is an assumption about clients, not about the server: when TRUE,
clients report `s3_completed` only after CompleteMultipartUpload succeeded, as
the SDK does (`zoo-client/src/orchestrator.rs:113-116`). The server does not
check it.

### UploadContract

Three variables: who holds each hash, whose object is stored, how many files
rows each upload has. A step takes a free hash, releases one, stores an object,
or publishes a stored one. `ZooUploads` implements it (`KeepsContract`) by the
mapping: holders are the rows in an active status, stored the rows one of whose
multipart uploads is completed, published the counter of files rows.
Publication exactly once is not part of the contract because the code does not
provide it.

### SyncPull

The server's rows, the local database and the control flow of one `sync_all`
are one state machine. A step of the server is the beginning of a statement
(`BeginWrite`, where `NOW()` is taken) or its commit (`CommitWrite`, where
others see the row): the two are apart because that is what a cursor over
`updation_time` is sensitive to. Statements overlap, and several may begin at one
instant; `Writers` and `Distinct` bound that for TLC, and no property or theorem
assumes anything of them.

There are two ways in which the server's own pages leave a row out, whatever the
client does. `NothingSkipped` and `NothingUndead` exempt the step in which one of
them happens, for the row it happens to, and nothing else: its statement commits
after one that began no earlier has committed, which a cursor may have followed
(`CommitsLate`); or a page is cut between it and a row of the same instant
(`SharesEnd`), which truncation makes harmless except at a whole millisecond.

| Code | Model |
|---|---|
| `sync_all`, `sync_for_local_collections` | `StartSync`, `EnterLoop`, `LeaveLoop` (the local collections are read when the first loop ends) |
| `read_cursor(..).unwrap_or(Some(0))` | `ReadCursor`: a failed read counts as 0 |
| `GET /api/sync/files`, `list_files_for_sync` | `FetchPage`, `FetchEmptyPage` with `Matching`, `IsPage`, `Answer` |
| `upsert_collection`, `upsert_files`, `archive_files` | `UpsertCollections`, `UpsertFiles`, `ArchiveFiles`; their failures `FailCollections`, `FailFiles` |
| `write_cursor` and the end of the loop's body | `SaveCursor` |
| an error anywhere, the app is closed | `FetchRefused`, `Interrupt` |
| `batch_decrypt_files` | `Decrypted`: what `Readable` does not contain is skipped |

Abstractions. An instant is a number of microseconds, `PerMilli` of them in a
millisecond; a cursor is the instant it is read back as, that is, truncated.
The zoo server has `/api/sync/files` only: the collections and trash pages are
modelled as the client expects them, and `Served` says which of them exist.
`/api/sync/files` ignores `collection_id` and always answers an empty
`deleted_file_ids`; so the loop of each collection pages through all files, and
there is nothing to model of the second. Of a row, only its time, its id's
place in the order, its collection and whether it is archived are kept.

### CatalogMirror

Two variables: what the server says of each file, and what the client has. The
mirror shows a file only after the catalog had it, hides it only after the
catalog archived it, and never shows it again; it may lag behind as long as it
likes. `SyncPull` implements it (`MirrorsCatalog`) with `visible` for the catalog
and `local` for the mirror.

### ThumbnailCache

An action is what a task does between two awaits that may really let another
task run. Two locks are held across an await: `get` holds the disk lock while it
waits for the memory lock (`fill`), `evict` the memory lock while it waits for
the disk lock (`evictDisk`). Who holds a lock is therefore read off the program
counters (`MemoryFree`, `DiskFree`) and is not a variable.

| Code | Model |
|---|---|
| `get` | `Get`, `MemoryHit`/`MemoryMiss`, `DiskHit`/`DiskMiss`/`DiskError`, `Fill`, `LookUpFound`/`LookUpNothing`, `Insert`, `Wait`, `Fetched`/`FetchError`, `StoreInMemory`, `StoreOnDisk`, `RemoveAndNotify` |
| `evict` | `Evict`, `EvictFromMemory`, `EvictFromDisk` |
| `insert_decrypted` | `InsertDecrypted`, `StoreInMemory`, `StoreOnDisk` |
| `InFlight::get_or_insert` | `LookUp*` and `Insert`: `DashMap::get` and `insert` are two steps |
| `InFlight::remove_and_notify` | `RemoveAndNotify`: `notify_waiters`, which stores no permit |
| a dropped future | `Cancel` |

A `Notify` is not a value of the model: a waiter is in `linked` while the
`Notify` it holds is the one in the map, which is all that decides whether it can
be woken. Which entry the LRU evicts and which files the disk cache removes to
make room are left open (every choice is allowed), so what is shown holds for
any policy. A waiter that loses its `Notify`, to a notification it has not yet
waited for or to a rival's `Insert`, leaves `linked` and can never be woken:
`WaitersHaveFetcher` speaks of those that are linked, `claim_wait` of the others. A
failed write leaves the old contents; partly written files, and
what a crash leaves between a file and the index, are not modelled here.

### LiveStore, LiveServer, LiveDelivery

The helper runs on one thread, so an action is a request handler, a timer's
callback, or the death of a process. A journal is its fold by `applyEvent`; of a
snapshot the phase, the one pending request, and the last checkpoint's revision
and variant are kept.

| Code | Model |
|---|---|
| `applyEvent` | `Requested`, `Settled`, `Checkpointed` |
| POST /events | `Post`, `PostCheckpoint`, `PostExit`; `PostHalfFails` when the journal's line is written and the snapshot is not |
| `enqueueEvent`, `findAvailablePendingEvent`, `leaseEvent`, `flushPendingPolls`, `scheduleLeaseFlush` | `Enqueue` with `Queued`; `FirstAvailable`, `Picked`, `Leased`; `Flush`; `Scheduled` and `LeaseTimerFires` |
| GET /poll | `PollGet`, `PollTimeout` |
| POST /poll, `acknowledgePendingEvent` | `Reply` with `Acknowledged`; the append of the answer may fail silently |
| leases, SSE streams, the exit timer | `LeaseEnds`; `Connect`, `Disconnect`, `ExitTimerFires` |
| shutdown, restart, `restorePendingEventsFromStore` | `Stop`, `Crash`, `Restart` with `ToRestore` |
| `live-poll` | `Splice`, `SpliceFails`, `PostReply`; the agent's own part `WriteVariants`, `Generate` |
| `live-complete`, `live-resume` | `Complete`, `CompleteOffline`, `Resume` |

A lease is free, held or expired. `findAvailablePendingEvent` and
`scheduleLeaseFlush` read the clock one after the other; `Slip` is a lease that
ends between the two, and `slipped` remembers that it happened. `parted` are the
sessions of which a failed write has left journal and queue different. Both are
history variables that the properties speak of and no guard asks for.

`LiveDelivery` has two variables, the requests the server would hand out and what
each journal remembers. Delivery is at-least-once. That one answer may forget a
request that came after the one it answers is part of the contract, because the
code does it (`claim_accept`). So is `SessionsAreAnswered` about the session, not
about each request: the journal's slot is emptied by an answer to any of them.

### LiveBrowser

A page runs on one thread: an action is a listener, a timer's or observer's
callback, or the continuation of a POST. A wrapper is a number: none, the
original only, or with k variants. Helper, agent and dev server are reduced to
what the page can notice.

| Code | Model |
|---|---|
| `handleGo`, `captureAndEmit` | `Go`, `Emit` |
| `cycleVariant`, a click on a dot, the parameters panel | `Cycle`, `Dot`, `OpenTune`, `Tune`, with `Refreshed` for `refreshParamsPanel` |
| `handleAccept`, `handleDiscard` and their continuations | `Accept`, `AcceptConfirmed`, `AcceptFails`, `ConfirmTimer`; `Discard`, `DiscardConfirmed`; `Leave` for what both end in |
| `queueCheckpoint`, `sendCheckpoint`, `nextCheckpointRevision` | `CheckpointTimer`, `SendCheckpoint`, `NextRevision` |
| `startVariantObserver`, init's observer, `resumeSession` | `Observed`, `DocumentBecomes`, `Resumed`; `HotUpdate` and `SwapTimer` change the document |
| `startScrollLock`, `reanchor` | `HeldAgain`, `Scroll` |
| init after a reload | `Reload` |
| `connectSSE`, `handleServerLost`, exit | `DoneArrives`, `ErrorArrives`, `ServerLost`, `Teardown` |

POSTs are a set: they are received in any order, refused, or answered to nobody
after a reload. `reported` is the highest revision of a session's checkpoint
POSTs, because the journal keeps the highest and ignores the rest. `left` and
`overtaken` are history: which sessions the page has left, and whether one was left
or begun while an accept was unanswered. No guard asks for them.

### LiveAnnotations

One pointer, a list of pins with notes, the input, the last click. `PressPin`,
`PressTwice`, `PressEmpty`, `PressStroke` and `PressClear` are the branches of
`onAnnotDown`; `Move`, `ReleasePin` and `ReleaseNew` are `onAnnotMove` and
`onAnnotUp`; `Finalized` is `finalizeEditingPin`. The overlay around the layer is
reduced to what shows, hides and clears it. A pin has a number for its identity,
positions are left out.

### LiveFiles

A file is its lines; of a line the model has what the scripts look for: what it
opens or closes, the class or text in it, its session and variant, and its
indentation. `Wrap` finds the element by class and text (`Candidates`, `Match`,
`OpenerLine`, `ClosingLine`) and writes `Wrapper`. Among several candidates
`FilterByText` keeps those that contain the text; the elements in `Short` have a text
of less than eight characters, with which it keeps none, and the first candidate is
wrapped, as it is without a text. `Accept` and `Discard` find the
block (`SessionFile`, `MarkerBlock`, `ReplaceRange`), take a variant out of it
(`Stripped`, `Inner`, `Trimmed`, `Css`) and splice it in (`Replacement`,
`Reindented`). `Inject` and `RemoveAll` are live-inject with its policy meta tag.
The agent's part (`WriteVariants`, `CleanUp`) follows live.md, and is marked
external with the build (`Build`).

The files before (`Source`) are the author's: `SourceAssumption` says that their
lines are (`AuthorsLines`) and that their tags nest (`Nests`), which is what a page
or a component that compiles is. A tag that is closed on its own line, or never, as
`<br>` is, is text here, because the scripts count tags of one name.

Left out: style and script elements of the author's own inside of what is picked;
self-closing tags over several lines; an anchor of insertAfter in the
middle of a line; elements whose closing tag is indented otherwise than the
opening one; the comment that carries an accept's parameter values; glob
expansion. `Build` may run when a session's variants are in the source, which is
when a copy of it can be found.

## 3. Runs

| Run | Question | Bounds |
|---|---|---|
| `zoo_one` | is what is published stored, what is done published, and nothing aborted too early? | 1 row, 2 concurrent handlers, every endpoint, every PATCH string but `done`, 2 multipart uploads, 2 files rows |
| `zoo_two` | is at most one row per file active, and does the server keep its contract? | 2 rows of one file, 2 handlers, the endpoints that move a row in or out of the active statuses |
| `zoo_live` | is a slot released, a silence noticed? | 1 row, 2 handlers, every endpoint, every PATCH string but `done`, 1 multipart upload, 1 files row |
| `sync` | does no cursor pass what the client lacks or still shows, do cursors only advance, does the client mirror the catalog, and does a sync end? | 3 files (one of them unreadable) in 2 collections, pages of 2, 5 instants, every failure, 2 statements at a time |
| `thumbs_locks` | do the two locks keep the caches consistent, and has every linked waiter somebody who works for it? | 3 tasks, 2 files, room for 1 in memory, every operation and failure |
| `live_server` | is every request queued once, kept over crashes and redelivered, and every session answered? | 1 session, 1 agent, 1 tab, 1 exit at a time, 3 faults of any kind at any place |
| `live_browser` | does the overlay stay with its session and its variants, and does it never get stuck? | 1 session, 2 variants (the second with parameters), 2 scroll positions, 1 reload, checkpoints up to revision 2, 1 discard, late mounts, agent errors, POSTs that fail |
| `live_annotations` | do indices refer to their pins, are empty notes only edited? | 4 pins, 1 stroke |
| `live_files` | is the author's code changed only by what was accepted, and what was picked wrapped? | 2 sessions, 2 variants, 5 elements in a page and a component, one with a short text, a build's output, 2 ports, 1 build |
| `claim_evict` | refuted: an eviction ends | 2 tasks, 1 file, get and evict |
| `claim_wait` | refuted: whoever waits for another's download looks again | 3 tasks, 1 file, get and insert_decrypted, no failures |
| `claim_accept` | refuted: unacknowledged work survives a restart | 1 session, 1 agent, no fault |

Bounds, uploads. Two concurrent handlers are enough for every race between a
read and a write half; a third would only repeat one of the two. Two rows of one
hash are what the dedup index is about, rows of different hashes do not
interact. Two multipart uploads give the orphan that a second presign leaves
behind, two files rows the duplicate. `MaxMultiparts` and `MaxFiles` are guards
of `OpenNewMultipart` and `InsertFile`; a handler stopped by them can still
`Drop`. `zoo_one` excludes PATCH `done` because `validate_transition` accepts
registering -> done from a client: with it, an upload is done without a files
row by the client's own word. `zoo_two` leaves out `complete` and `fail`, which
write what PATCH and `cancel` write.

Bounds, sync. `MaxTime` bounds when rows are written, not how often the client
syncs. Three files and pages of two give a full page followed by a part-filled
one, rows of one millisecond on both sides of a page's end, and a row that
arrives while a page is under way. Two statements at a time give one that overtakes
the other (`CommitsLate`). With `Distinct` every statement has an instant of its own,
so that of the `PerMilli = 2` instants of a millisecond one row at most is strictly
inside: `SyncEnds` needs fewer such rows than a page holds. Were there a page of them,
the truncated cursor would lie before them all and ask for the same page for ever; in
the code that is 100 rows of one millisecond (`DEFAULT_PAGE_SIZE`, `diff.rs:5`). Rows
of one instant, and with them `SharesEnd`, are therefore not in this run; the theorems
have them.

Bounds, thumbnails. Three tasks on one file are needed for an entry that is
replaced while a third waits on it; two files and room for one for an entry that
is pushed out. Deadlock is not checked in these runs: a task need never call
anything again, and `get` and `evict` do deadlock (`claim_evict`).

Bounds, live helper. `MaxFaults` counts crashes, interruptions, half-failed
appends, lost replies and failed splices together; three are enough for one that
happens while another is being recovered from. `MaxExits` bounds the exit events
in the queue, which the code does not; `PostExit` and `ExitTimerFires` have it as a
guard. One session is enough for its requests to overtake each other: sessions
meet only in the order of the queue. Deadlock is not checked: a session that is
answered need not be followed by another.

Bounds, overlay. `MaxRevision` is a guard of `SendCheckpoint`; two revisions give
one before and one after a reload. `MaxReloads` and `MaxDiscards` are guards of
`Reload` and `Discard`. The run has one session, which is what its liveness
properties can afford; the invariants and `ValuesFollowVariant` hold with any number,
by proof. With a second session an accept can be overtaken: the agent answers error
after the accept, the user starts another session, and the late failure of the
accept makes that one CYCLING with no variants (`live-browser.js:3014-3018` does not
look which session is current). `ShownVariantExists` leaves that out by `"begun"`,
which the run never meets; `ActiveHasSession` leaves out by `"left"` that the session
is left while its accept is unanswered (a discard sent before it is answered first,
3063-3068), which the run does meet. Deadlock is not checked: the overlay may be left
alone.

Bounds, annotations. Four pins: one in the input, one pressed, one that moves up
when another goes, one to spare. `MaxPins` and `MaxStrokes` are guards of
`ReleaseNew`. Deadlock is checked.

Bounds, files. Two sessions give a wrapper inside another's variant, around
another's wrapper, and beside it. The hero contains a card, so that tags of one
name nest, and the panel one of its own class, so that the inner one's text is in two
candidates and live-wrap refuses; the panel's class is on the second line of its tag; the component has
JSX comments, the output is searched before the page. `MaxBuilds` is a guard of
`Build`. A file's length and indentation need no bound: a session wraps once.

Fairness of the workers (`Ticking`). They are loops on a timer that log an error
and go on (`stall_detector.rs:27-35`, `garbage_collector.rs:38-46`), so listing
is taken again and again; the collector's steps get strong fairness because a
tick may fail, or the process restart, any number of times before a row's turn
comes, but not for ever at the same row. Nothing is assumed of clients: no
request need ever be sent or finished, nor need time pass: `SlotIsReleased`
speaks of rows that have expired, and `SilenceIsNoticed` must not be met by
waiting for the collector.

Fairness of the sync (`ProceedingSpec`). `WF(Proceed)`: a sync that was started
takes its next step unless it is interrupted. Nothing is assumed about syncs
being started or about the server's writers.

Fairness of the cache (`RunningSpec`). `SF(Run(t))` for every task: tokio gives
its locks out in the order of the requests, so that a task that asks again and
again is served, and downloads return. It does not make a lost wake-up arrive
(`claim_wait`) nor a deadlock dissolve (`claim_evict`).

Fairness of live mode (`ServingSpec`). Timers fire and leases end, because time
passes; an agent keeps polling, answers what it is handed, and starts the server
again after it has stopped it, as live.md tells it to; `live-poll` loops by
itself. Nothing is assumed about the browser. Weak fairness per action is enough
because a handler that is enabled stays so until a fault, and faults are bounded.

Fairness of the overlay (`WorkingSpec`). A POST of an accept is answered, its
continuation and the 1.8 s timer run (`Accepting`), and the dev server brings the
source to the page (`Updating`). The agent, the user and broadcasts are not fair:
`VariantsAreShown` holds although `done` is lost, because the observer counts
variants by itself.

## 4. Proofs

All proofs are checked by TLAPS for every value of the constants that satisfies
the named assumptions of the modules (`ConstantsAssumption`, `NoTaskAssumption`,
`BoundsAssumption`, `SourceAssumption`).

### Uploads

`TypeCorrect` (`Spec => []TypeOK`). `TypeOK` is not inductive: `SaveS3Info`
updates `multiparts[u][m]` for an `m` the handler carries, and `AbortMultipart`
for one the collector carries. `TypeInv` adds that these refer to existing
multipart uploads (`References`), and that a handler about to write a status
carries one (`Intentions`). One lemma per action; `TypeInvStep` combines them.

`DedupHolds` (`Spec => []OneActivePerHash`). `StepKinds` reduces the step
relation to four kinds - nothing changes, one status is overwritten and passes
the dedup index, one files row is inserted, S3 changes without losing an object
- and the invariant is proved on these.

`PublishedIsStored` (`FileHasObject`, for clients that wait for S3). The
invariant carries the knowledge that an object exists from the client's report
to the insertion: it holds of a row whose status says so, of a handler that has
read such a status, and of one about to insert. It is lost nowhere because a
completed multipart upload cannot be aborted.

`DoneIsPublished` (`DoneHasFile`, if clients may not PATCH `done`): only
`register_file` writes `done`, and only after its INSERT.

`OnlyExpiredAborted` (`AbortsOnlyExpired`): what the collector has listed has
expired, and nothing un-expires a row.

`ContractKept` (`KeepsContract`): initial states map to initial states, and each
kind of step maps to a step of `UploadContract` (take, release, publish, store)
or a stutter.

### Sync

`SyncTypeCorrect`, with the invariant that a page belongs to the loop that is
running (`PageOfLoop`).

`CursorsOnlyAdvance` (`CursorsAdvance`): a page holds only rows later than
`since`, and truncation is monotone (`FloorMonotone`); an empty page never reaches
`SaveCursor`. A cursor that could not be read counts as 0, so that the loop starts
over and may move it back; the property says that nothing else may.

`CatalogMirrored` (`MirrorsCatalog`): the refinement of `CatalogMirror`, with rows
written by overlapping statements.

`CursorsSkipNothing` (`NothingSkipped`) and `DeletionsStay` (`NothingUndead`), for any
statements that overlap or share an instant. The two say of every step what it may
not do, and exempt the two ways in which a page itself leaves a row out (section 2).
The inductive invariant behind both, `ReachInv`, says that every cursor, and the last
time of a page in hand, is at or behind the time of a row that could be seen
(`LoopInv`, `Behind`), and that times follow the clock (`ClockInv`). It is needed
because a row is put behind a loop in two ways only: it commits there, and then the
row that the loop's position was made from began no earlier, which is `CommitsLate`
(`CommitBehind`); or a page is fetched that ends at or after it without it, which is
`SharesEnd` (`FetchBehind`). All other steps leave every loop where it was or hand
over what they pass (`OthersReach`, `SkipStep`, `UndeadStep`).

### Thumbnail cache

`TypeCorrect` (`TypeOK` is inductive). `FillsAreCurrent` (`FillIsCurrent`) and
`EvictionsHold` (`EvictedFromMemory`) are inductive together with it: every writer
of a cache needs the lock that the task at `fill` or `evictDisk` still holds.

`WaitersAreServed` (`WaitersHaveFetcher`), with fetches that fail and futures that are
dropped. An entry of the map may be replaced by another task, and removed by a third
that never inserted one, so no owner can be named: a file is `Deserted` when it has an
entry, or a linked waiter, and no task at work, and the theorem says that only the
step in which a fetch fails or its worker is dropped makes it so. Each kind of step is
shown to desert nobody (`IdlersDesertNobody`, `WorkersDesertNobody`,
`FindersDesertNobody`, `InsertersDesertNobody`, `NotifiersDesertNobody`), or to be one of the two
(`QuittersDesert`). That needs that what a task has in hand tells `get` from
`insert_decrypted` (`HandInv`), because only the first removes an entry when it is
through.

### Live annotations

`AnnotationsTypeCorrect` (`TypeOK`) and `EmptyNotesAreEdited`
(`EmptyNoteIsEdited`), for any number of pins and strokes. Neither is inductive.
`Inv` adds that cancelling an edit gives back the note the pin has (`HadIsText`),
that the pin a second press would delete is the one in the input and the one in
hand (`OnePin`), that there are no more pins than were made (`PinsMade`), and that
`handleGo` finds the layer shown (`ReadyMeansActive`). `RemoveAtFacts` and
`NoteFacts` say what splicing and writing do to a list; `SplicedStep`, `ClearStep`
and `OverlayStep` are the three things an action may do to it.

### Live helper

`RequestsQueuedOnce` (`QueuedOnce`), `ResumedWorkIsQueued` (`ResumeFindsWork`),
`WakeupsAreNotMissed` (`NoMissedWakeup`), `ServerTypeCorrect` (`TypeOK`) and
`DeliveryKept` (`KeepsDelivery`), for any number of sessions, agents, tabs, exits and
faults; `Ids` and `Agents` are finite, because waiting polls and the requests to
restore are taken one after the other. One invariant, `Inv`, carries all five:

- `QueuedOnce` is needed for the refinement: an answer takes the first entry with
  the session's id, and what remains must be what the contract forgets.
- `PendingIsActive`: a journal that remembers a request is of a session that is
  active, because a restart restores only active sessions.
- `Remembered`: what a journal of a session that was not parted remembers is queued.
- `WaitingIsServed` is stronger than `NoMissedWakeup`: a poll that arrives may lease
  an entry whose lease has ended while others wait, so what has to be kept is that
  beside a parked poll every entry has been handed out, and that the timer is set
  while there is any entry, whether its lease runs or has ended.
- `DownIsEmpty`: a server that is down has no queue and no polls, so that a restart
  maps to a step of `LiveDelivery`.

The queue is a sequence edited by the place of an entry. `Picked(q, S)` is the
entries of `q` at the places `S`, in order, and the lemmas `RankOnto`, `FirstPlace`
and `PickedFacts` say what it keeps; they are proved by counting, since induction
over sequences is not available. `LeasedFacts`, `AcknowledgedFacts`, `AppendedFacts`,
`HandOutFacts` and `FlushFacts` then say what each edit does to the set of requests,
and the actions need no more.

### Live overlay

Six theorems, for any number of sessions, variants, reloads and revisions; the run
has one session.

`ObserverFollowed` (`ObserverFollowsSession`) and `CheckpointsStayFresh`
(`CheckpointsFresh`): the second needs that storage always holds the current session
with a counter not behind what was reported (`StoredFollows`), because a reload
starts from it, and that nothing was reported for a session the page has never
had (`OnlyKnownReported`), because resuming one starts from whatever the counter
is.

`BrowserTypeCorrect` (`TypeOK`, which is inductive): `SavedVisibleFacts` and
`MoreVariantsFacts` are what it takes that the count of variants, read off the
document, and the variant, read back from storage, are ones there can be.

`ActiveStatesHaveSession` (`ActiveHasSession`) and `ShownVariantsExist`
(`ShownVariantExists`): a failed accept makes any state CYCLING, so the invariant
`Overlay` follows the unanswered accepts (`AcceptedHasSession`,
`AcceptedHasArrived`), and says that a variant is shown as soon as there is one
(`ShownIsArrived`). A resumed session could have nothing to accept; it cannot happen
to an unanswered accept because init's observer is there only before anything has
arrived (`ScoutIsFirst`), and a page that was torn down sees nothing
(`TornDownUnwatched`).

`ValuesFollow` (`ValuesFollowVariant`) needs the types only: each of the ways in
which a variant comes on show (`CycleFollows`, `ResumedFollows`, `ObservedFollows`,
`DoneFollows`) sets the values itself, and the one that does not is the failed accept
the property names.

### Live files

First, live-inject by itself, for every file that has no tag yet (`Untagged`: any
lines, those of wrappers among them, with or without anchors and policies), every
port and both positions. `InjectUndone`: a removal gives the file back, the
indentation of the line the tag was put before included. `InjectReplaces`: an
injection over another one is the injection into the untouched file, so that of an
earlier server nothing stays. `PagesAreTagged` and `TagsMatchPolicies`
(`TagMatchesPolicy`) draw the consequence for any sequence of injections and removals
(`Injecting`) that starts from the author's files: a page is the author's or that with
one tag, and its policies let in the port of the tag.

`SplicedPlaces` and `HeadAndRest` give a file line by line after it was cut and put
together; `WithTag` is what an insertion makes of a file, `PatchedWithTag` says that
patching the policies and inserting the tag may be exchanged, and `RemovedFile` that
removeTag finds just the tag that was inserted.

Second, all the scripts together, for every behaviour of `Spec`: `FilesTyped`
(`TypeOK`) and `ScriptsKeepTagsNested` (`TagsNest`), for any files of the author, any
elements and any number of sessions, inside each other, beside each other and in
copies that a build has made. Neither is inductive. That tags nest says nothing of
the markers by which live-accept finds a session, and live-accept cuts from marker to
marker, live-inject from comment to comment, the agent from a carbon block's start to
its end: were a tag to open inside of such a block and to close outside of it, the
cut would break a file whose tags nested. The invariant (`FilesStayPieces`) therefore
pairs *all* lines that start something with those that end it - tags, wrappers,
variants, markers, carbon blocks, style elements, the script tag - and says that in
every file

- there is such a pairing without crossings (`Pairs`), in which partners belong
  together: the same kind, the same session, the same tag (`Mates`);
- the narrow blocks hold what they may: a style element CSS only, the tag of live-inject
  a script only, a carbon block a style element or what a strip has left of it, and no
  session contains itself (`Allowed`). This is what makes the first end marker below a
  start marker its partner, as `removeTag`, `extractCss` and `findMarkerBlock` take it
  to be;
- only sessions that were wrapped have markers, so that a new wrapper's session is not
  around itself;
- in a JSX file a start marker is directly below the tag of its wrapper (`Linked`), because
  `expandReplaceRange` looks upwards for the wrapper's tag from there, and what it finds
  must be this wrapper's and not another one's.

A list of lines with all this is a `Piece`. The proof is an algebra of pieces: a piece
after a piece (`PieceConcat`), between two lines that belong together
(`PieceEnclosed`), the lines between a line and its partner (`PieceSub`), lines picked
with their partners (`PiecePicked`), and a piece in place of lines that have their
partners (`PieceSpliced`) are pieces. What is taken out of a piece is one because of `Embedded`:
lines that keep the order and the partners of others are paired as those are.
Then each helper gives pieces (`PieceWrapper`, `PieceVariant`, `PieceStripped`,
`PieceInner`, `PieceReplacement`, `PieceInserted`, `PieceRemoved`), and each action
puts a piece where a block was. What links this to the code is counting:
`BlockDepth` says that from a line that opens a tag the count of that tag comes to 0
at its partner and not before, so that `findClosingLine`, `extractInnerByAttr` and
`expandReplaceRange` find the partner (`ClosingIsPartner`), however deep tags of one
name are inside each other. It is shown without induction, by an injection from the
closing lines into the opening ones. The other way round, that files whose tags nest
by counting have a pairing (`NestsPairs`), starts the induction over steps, and
`PairsNest` ends it.

### Only model-checked

The liveness properties (`SlotIsReleased`, `SilenceIsNoticed`, `SyncEnds`,
`SessionsAreAnswered`, `DecisionEnds`, `VariantsAreShown`): fairness
and ENABLED are out of the prover's reach. Of `LiveFiles`, `OnlyTheChoiceChanges`,
which is about a recursive function over a file's lines (`Authored`) and so needs
induction over data; `WrapsThePicked`, which depends on the files: an element that is the
only one of its class in a file is taken whatever the text; and `TagMatchesPolicy`
where other scripts write in between, which depends on where the anchor is: an element
that contains it takes the tag along. The claims, which are counterexamples.

## 5. Code and documents

The three claims are under `findings` in `PROJECT.json`. The models contain further
differences that have no run of their own.

Uploads: `failed` is undone by create's second write of `pending`; registering
twice leaves two files rows; a worker with a stale list overwrites `done`;
registration does not look at S3 (no HeadObject); a cancel leaves the multipart
upload open; after one stall no later silence is noticed.

Sync: a row whose statement began before another's and commits after a cursor has
followed that one is never listed again, so that the local database need not have all
of the catalog; the truncated cursor lets the last rows of a page be sent again; a page may end
inside a collection's rows of one millisecond; a server without
`/api/sync/collections` ends every sync at its first loop.

Thumbnails: two tasks may download one file at the same time; the caches keep the ciphertext that the fetcher returns; a
failed fetch leaves its entry in the map, so that everybody who asks later waits.

Live overlay: init marks a handled session not to be resumed
(`live-browser.js:3202`) and the scout of a late wrapper forgets the mark with the
storage (4841-4848); the answer to a second discard ends the session that came
after the first (3060-3068); an error during a reload is lost with its broadcast,
and the overlay stays GENERATING; the panel's values are meant to mirror the
visible variant (1440), but an accept changes the variant to the one in the
document without them (2991-2996), reopening the panel resets them (1793), and a
new session's first checkpoint carries the old ones; a click on a dot is not saved
(1272), although the session should survive reloads (3073); a saved scroll
position stays when a reload finds no wrapper. Annotations: a press of a pin
behind an empty one that is being edited picks up the pin after it (502-515).

Live helper: a checkpoint that comes late makes a completed session active again
(`live-browser.js:2324`); `live-resume` has an advice for `accept_requested` that
nothing can reach; a PID file of a dead server may name another process
(`live-server.mjs:780-788`).

Live files: a discard gives back the original with up to two blank lines more, one
before and one after it, where the help says "restore original"
(`live-accept.mjs:35`, 379-384); an accept
around another session's wrapper takes the first variant of that number, which may
be the nested one, and a discard of the outer session drops the inner one's CSS
(307-399); a session that a build has copied is found in the generated file first
and refused (532-547); `generatedFiles` of live.md:119 is read by nobody.
`cleanup-deprecated.mjs` deletes skills that `pin.mjs` pinned.

## 6. Not modelled, and why

| Part | Why |
|---|---|
| upload parts and bitmask | one read-modify-write; two confirmations at once lose a bit (`uploads.rs:185`), and part 0 wraps around (`:191`): both can be read off the code |
| SSE hub, SSE client | no model speaks of what a client hears: every broadcast follows a write that a client can also read; two first subscribers create two channels (`hub.rs:24`), a lagging one skips events (`:6`) |
| upload SDK | straight-line control flow whose every server call is an action of `ZooUploads`; `resume_upload` goes from resuming straight to s3_completed, which the server refuses (`orchestrator.rs:157`) |
| disk cache's files and index | a crash between the two leaves a file without an index entry (`disk.rs:97`); the cache is otherwise modelled behind its lock in `ThumbnailCache` |
| local database beyond the rows the sync needs | single statements; an upsert without a thumbnail path erases it (`files.rs:20`) |
| rate limiter, sessions, devices, desktop commands | one lock or one statement per call |
| validation, cryptography, images, metadata, types, bindings | pure functions; `decrypt.rs:39` panics on a short nonce |
| drawing, positions, the shader, the action picker, the design panel of the overlay | layout |
| live boot, CSP detection | a sequence of modelled steps, or reading only |
| design parser | formatting without state |
| skill maintenance, context, critique storage | one-shot scripts on files they write once |

Further hazards without a property: PATCH stores `registering`, after which
`register_file` refuses the upload (`uploads.rs:433`); a fetch that began before an
evict puts the thumbnail back (`cache/mod.rs:90`).

What would come next: the SDK's control flow composed with `ZooUploads`, with
crashes and resumption in any status; the bitmask of parts; the disk cache's
files and index as a refinement of `ThumbnailCache`'s disk; and `LiveBrowser` composed
with `LiveServer`, whose journals would then be what `reported` stands for.
