--------------------------- MODULE ThumbnailCache ---------------------------
(***************************************************************************)
(* The thumbnail cache (crates/thumbnail): a memory cache and a disk cache, *)
(* each behind a lock, and a map of the downloads in flight.  Tasks run    *)
(* get, evict and insert_decrypted concurrently; an action is what a task  *)
(* does between two points at which another one can run.                   *)
(*                                                                         *)
(* A lock is held across an await in two places only, so that who holds it *)
(* can be read off the program counters: get holds the disk lock while it  *)
(* waits for the memory lock ("fill"), evict the memory lock while it      *)
(* waits for the disk lock ("evictDisk").                                  *)
(*                                                                         *)
(* A Notify lives as long as a task holds its Arc, but only the one in the *)
(* map can be notified: a waiter is linked while its Notify is in the map. *)
(***************************************************************************)
EXTENDS Naturals, FiniteSets

CONSTANTS
  Tasks,       \* tasks of the application that use the cache
  Files,       \* ids of files
  Operations,  \* what the tasks call
  Capacity,    \* memory_capacity
  FetchFails,  \* the fetcher may return an error
  DiskFails,   \* the file system may
  Cancels      \* a task may be dropped where it waits

ASSUME ConstantsAssumption ==
  /\ Operations \subseteq {"get", "evict", "insert_decrypted"}
  /\ FetchFails \in BOOLEAN
  /\ DiskFails \in BOOLEAN
  /\ Cancels \in BOOLEAN

\* The fetcher returns the encrypted thumbnail, and that is what get stores;
\* insert_decrypted stores a plain one.
Contents == {"none", "cipher", "plain"}

VARIABLES
  pc,        \* what each task does next
  file,      \* for which file
  bytes,     \* what it has in hand
  woken,     \* the tasks that have waited for another one's download
  memory,    \* the memory cache
  disk,      \* the disk cache
  inflight,  \* the files with an entry in the in-flight map
  linked     \* the tasks whose Notify is the one in the map

caches == <<memory, disk>>
map    == <<inflight, linked>>
vars   == <<pc, file, bytes, woken, caches, map>>

\* The tasks that will remove the entry of their file from the map.
Working(t) == pc[t] \in {"fetch", "storeMemory", "storeDisk", "notify"} /\ bytes[t] # "plain"

-----------------------------------------------------------------------------
(* The caches *)

\* Mutant: the memory lock is released before the disk lock is taken.
MemoryNeverHeld == TRUE

\* Nobody holds the memory lock.
MemoryFree == \A t \in Tasks : pc[t] # "evictDisk"

\* Mutant: the disk lock is released before the memory lock is taken.
DiskNeverHeld == TRUE

\* Nobody holds the disk lock.
DiskFree == \A t \in Tasks : pc[t] # "fill"

\* LruCache::put: if the cache is full, an entry for another file makes room.
\* Which one, the least recently used, is left open.
PutInMemory(f, b) ==
  \E victims \in SUBSET {g \in Files \ {f} : memory[g] # "none"} :
    /\ Cardinality(victims) =
         (IF memory[f] = "none" /\ Cardinality({g \in Files : memory[g] # "none"}) = Capacity
          THEN 1 ELSE 0)
    /\ memory' = [g \in Files |->
                     IF g = f THEN b ELSE IF g \in victims THEN "none" ELSE memory[g]]

\* DiskCache::insert, whose errors are ignored: it writes the file and then
\* removes files, perhaps this one, until they fit.
PutOnDisk(f, b) ==
  \E written \in IF DiskFails THEN {disk[f], b} ELSE {b}, removed \in SUBSET Files :
    disk' = [g \in Files |->
               IF g \in removed THEN "none" ELSE IF g = f THEN written ELSE disk[g]]

Goto(t, label) == pc' = [pc EXCEPT ![t] = label]
Hold(t, b) == bytes' = [bytes EXCEPT ![t] = b]

\* Mutant: the task keeps in mind that it has waited.
LeaveStillWoken(t) ==
  /\ Goto(t, "idle")
  /\ Hold(t, "none")
  /\ UNCHANGED <<file, woken>>

\* The future is done, or dropped.
Leave(t) ==
  /\ Goto(t, "idle")
  /\ Hold(t, "none")
  /\ woken' = woken \ {t}
  /\ UNCHANGED file

-----------------------------------------------------------------------------
(* get *)

Get(t) ==
  /\ pc[t] = "idle"
  /\ "get" \in Operations
  /\ \E f \in Files : file' = [file EXCEPT ![t] = f]
  /\ Goto(t, "memory")
  /\ UNCHANGED <<bytes, woken, caches, map>>

MemoryHit(t) ==
  /\ pc[t] = "memory"
  /\ MemoryFree
  /\ memory[file[t]] # "none"
  /\ Leave(t)
  /\ UNCHANGED <<caches, map>>

MemoryMiss(t) ==
  /\ pc[t] = "memory"
  /\ MemoryFree
  /\ memory[file[t]] = "none"
  /\ Goto(t, "disk")
  /\ UNCHANGED <<file, bytes, woken, caches, map>>

\* The disk lock stays held.
DiskHit(t) ==
  /\ pc[t] = "disk"
  /\ DiskFree
  /\ disk[file[t]] # "none"
  /\ Hold(t, disk[file[t]])
  /\ Goto(t, "fill")
  /\ UNCHANGED <<file, woken, caches, map>>

Fill(t) ==
  /\ pc[t] = "fill"
  /\ MemoryFree
  /\ PutInMemory(file[t], bytes[t])
  /\ Leave(t)
  /\ UNCHANGED <<disk, map>>

\* A task that has waited for a download in vain fetches by itself, without
\* an entry in the map.
DiskMiss(t) ==
  /\ pc[t] = "disk"
  /\ DiskFree
  /\ disk[file[t]] = "none"
  /\ Goto(t, IF t \in woken THEN "fetch" ELSE "lookUp")
  /\ UNCHANGED <<file, bytes, woken, caches, map>>

DiskError(t) ==
  /\ pc[t] = "disk"
  /\ DiskFails
  /\ DiskFree
  /\ disk[file[t]] # "none"
  /\ Leave(t)
  /\ UNCHANGED <<caches, map>>

\* get_or_insert looks the file up and inserts in two steps.
LookUpFound(t) ==
  /\ pc[t] = "lookUp"
  /\ file[t] \in inflight
  /\ linked' = linked \cup {t}
  /\ Goto(t, "waiter")
  /\ UNCHANGED <<file, bytes, woken, inflight, caches>>

LookUpNothing(t) ==
  /\ pc[t] = "lookUp"
  /\ file[t] \notin inflight
  /\ Goto(t, "insert")
  /\ UNCHANGED <<file, bytes, woken, caches, map>>

\* An entry somebody has inserted in between is replaced.
Insert(t) ==
  /\ pc[t] = "insert"
  /\ inflight' = inflight \cup {file[t]}
  /\ linked' = {u \in linked : file[u] # file[t]}
  /\ Goto(t, "fetch")
  /\ UNCHANGED <<file, bytes, woken, caches>>

\* notified() counts from when it is created.
Wait(t) ==
  /\ pc[t] = "waiter"
  /\ Goto(t, "wait")
  /\ UNCHANGED <<file, bytes, woken, caches, map>>

Fetched(t) ==
  /\ pc[t] = "fetch"
  /\ Hold(t, "cipher")
  /\ Goto(t, "storeMemory")
  /\ UNCHANGED <<file, woken, caches, map>>

\* The entry stays in the map.
FetchError(t) ==
  /\ pc[t] = "fetch"
  /\ FetchFails
  /\ Leave(t)
  /\ UNCHANGED <<caches, map>>

StoreInMemory(t) ==
  /\ pc[t] = "storeMemory"
  /\ MemoryFree
  /\ PutInMemory(file[t], bytes[t])
  /\ Goto(t, "storeDisk")
  /\ UNCHANGED <<file, bytes, woken, disk, map>>

\* Mutant: the result is not needed any more if the disk has it.
StoreOnDiskReturns(t) ==
  /\ pc[t] = "storeDisk"
  /\ DiskFree
  /\ PutOnDisk(file[t], bytes[t])
  /\ IF bytes[t] = "cipher" /\ disk[file[t]] = "none"
     THEN Goto(t, "notify") /\ UNCHANGED <<file, bytes, woken>>
     ELSE Leave(t)
  /\ UNCHANGED <<memory, map>>

\* The end of insert_decrypted; get goes on.
StoreOnDisk(t) ==
  /\ pc[t] = "storeDisk"
  /\ DiskFree
  /\ PutOnDisk(file[t], bytes[t])
  /\ IF bytes[t] = "cipher"
     THEN Goto(t, "notify") /\ UNCHANGED <<file, bytes, woken>>
     ELSE Leave(t)
  /\ UNCHANGED <<memory, map>>

\* Mutant: notify_one.
RemoveAndNotifyOne(t) ==
  LET f == file[t]
      waiting == {u \in linked : file[u] = f /\ pc[u] = "wait"}
  IN
  /\ pc[t] = "notify"
  /\ inflight' = inflight \ {f}
  /\ \E some \in SUBSET waiting :
       /\ some = {} <=> waiting = {}
       /\ Cardinality(some) <= 1
       /\ linked' = linked \ some
       /\ woken' = (woken \cup some) \ {t}
       /\ pc' = [u \in Tasks |-> IF u \in some THEN "memory" ELSE IF u = t THEN "idle" ELSE pc[u]]
  /\ Hold(t, "none")
  /\ UNCHANGED <<file, caches>>

\* remove_and_notify, whosever the entry is: the tasks that wait for it wake
\* up, those that have not begun to wait miss it.
RemoveAndNotify(t) ==
  LET f == file[t]
      ready == {u \in linked : file[u] = f}
      waiting == {u \in ready : pc[u] = "wait"}
  IN
  /\ pc[t] = "notify"
  /\ inflight' = inflight \ {f}
  /\ linked' = linked \ ready
  /\ woken' = (woken \cup waiting) \ {t}
  /\ pc' = [u \in Tasks |-> IF u \in waiting THEN "memory" ELSE IF u = t THEN "idle" ELSE pc[u]]
  /\ Hold(t, "none")
  /\ UNCHANGED <<file, caches>>

-----------------------------------------------------------------------------
(* evict and insert_decrypted *)

Evict(t) ==
  /\ pc[t] = "idle"
  /\ "evict" \in Operations
  /\ \E f \in Files : file' = [file EXCEPT ![t] = f]
  /\ Goto(t, "evict")
  /\ UNCHANGED <<bytes, woken, caches, map>>

\* The memory lock stays held.
EvictFromMemory(t) ==
  /\ pc[t] = "evict"
  /\ MemoryFree
  /\ memory' = [memory EXCEPT ![file[t]] = "none"]
  /\ Goto(t, "evictDisk")
  /\ UNCHANGED <<file, bytes, woken, disk, map>>

\* remove ignores what it cannot delete.
EvictFromDisk(t) ==
  /\ pc[t] = "evictDisk"
  /\ DiskFree
  /\ disk' \in {[disk EXCEPT ![file[t]] = "none"]} \cup (IF DiskFails THEN {disk} ELSE {})
  /\ Leave(t)
  /\ UNCHANGED <<memory, map>>

InsertDecrypted(t) ==
  /\ pc[t] = "idle"
  /\ "insert_decrypted" \in Operations
  /\ \E f \in Files : file' = [file EXCEPT ![t] = f]
  /\ Hold(t, "plain")
  /\ Goto(t, "storeMemory")
  /\ UNCHANGED <<woken, caches, map>>

\* A future that waits, for a lock, the network or another task, is dropped.
Cancel(t) ==
  /\ Cancels
  /\ pc[t] \notin {"idle", "lookUp", "insert", "waiter", "notify"}
  /\ Leave(t)
  /\ linked' = linked \ {t}
  /\ UNCHANGED <<inflight, caches>>

-----------------------------------------------------------------------------

Init ==
  /\ pc = [t \in Tasks |-> "idle"]
  /\ file \in [Tasks -> Files]
  /\ bytes = [t \in Tasks |-> "none"]
  /\ woken = {}
  /\ memory = [f \in Files |-> "none"]
  /\ disk \in [Files -> Contents]
  /\ inflight = {}
  /\ linked = {}

Start(t) == Get(t) \/ Evict(t) \/ InsertDecrypted(t)

\* What a task does once it has been called and nothing goes wrong.
Run(t) ==
  \/ MemoryHit(t) \/ MemoryMiss(t)
  \/ DiskHit(t) \/ Fill(t) \/ DiskMiss(t)
  \/ LookUpFound(t) \/ LookUpNothing(t) \/ Insert(t) \/ Wait(t)
  \/ Fetched(t) \/ StoreInMemory(t) \/ StoreOnDisk(t) \/ RemoveAndNotify(t)
  \/ EvictFromMemory(t) \/ EvictFromDisk(t)

Next ==
  \E t \in Tasks : Start(t) \/ Run(t) \/ DiskError(t) \/ FetchError(t) \/ Cancel(t)

Spec == Init /\ [][Next]_vars

\* Tasks run, downloads return, and tokio's locks are given out in the order
\* in which they are asked for.
RunningSpec == Spec /\ \A t \in Tasks : SF_vars(Run(t))

-----------------------------------------------------------------------------
(* Properties *)

Labels == {"idle", "memory", "disk", "fill", "lookUp", "insert", "waiter", "wait", "fetch",
           "storeMemory", "storeDisk", "notify", "evict", "evictDisk"}

\* Only a task that waits is linked, and only one that looks again or fetches
\* by itself has been woken.
TypeOK ==
  /\ pc \in [Tasks -> Labels]
  /\ file \in [Tasks -> Files]
  /\ bytes \in [Tasks -> Contents]
  /\ woken \subseteq {t \in Tasks : pc[t] \in {"memory", "disk", "fill", "fetch",
                                            "storeMemory", "storeDisk", "notify"}}
  /\ memory \in [Files -> Contents]
  /\ disk \in [Files -> Contents]
  /\ inflight \subseteq Files
  /\ linked \subseteq {t \in Tasks : pc[t] \in {"waiter", "wait"}}

\* What get copies from the disk to the memory is on the disk until it has
\* done so: no eviction comes in between and is undone.
FillIsCurrent ==
  \A t \in Tasks : pc[t] = "fill" => disk[file[t]] = bytes[t]

\* Between the two halves of an eviction nobody puts the file back into the
\* memory, so that when it is through the file is in neither cache.
EvictedFromMemory ==
  \A t \in Tasks : pc[t] = "evictDisk" => memory[file[t]] = "none"

\* A file has an entry in the map, or waiters who expect one to be removed, and
\* nobody at work will do so.
Deserted(f) ==
  /\ f \in inflight \/ \E t \in linked : file[t] = f
  /\ \A u \in Tasks : file[u] = f => ~Working(u)

\* Only a fetch that fails, or a task that is dropped at its work, leaves an
\* entry of the map and those who wait for it without a task at work on the
\* file, although entries are replaced and removed by other tasks than those
\* that inserted them and tasks come and go at every other point.
WaitersHaveFetcher ==
  [][\A f \in Files :
       Deserted(f)' /\ ~Deserted(f) =>
         \E u \in Tasks : /\ file[u] = f /\ Working(u)
                          /\ FetchError(u) \/ Cancel(u)]_vars
=============================================================================
