----------------------- MODULE ThumbnailCache_proofs -----------------------
(***************************************************************************)
(* The thumbnail cache's safety, for any number of tasks and files, any    *)
(* capacity and any choice of what the caches throw out.                   *)
(*                                                                         *)
(* The two cache invariants are what the locks held across an await are    *)
(* for; the one about waiters is about tasks that share no lock, and needs *)
(* to know which of them will remove an entry of the map.                  *)
(***************************************************************************)
EXTENDS ThumbnailCache, TLAPS

\* What a running task changes besides the caches and the map.
LEMMA LeaveTypes ==
  ASSUME TypeOK, NEW t \in Tasks, Leave(t)
  PROVE  /\ pc' \in [Tasks -> Labels]
         /\ file' \in [Tasks -> Files]
         /\ bytes' \in [Tasks -> Contents]
         /\ woken' \subseteq {u \in Tasks : pc'[u] \in {"memory", "disk", "fill", "fetch",
                                            "storeMemory", "storeDisk", "notify"}}
         /\ pc[t] \notin {"waiter", "wait"} =>
              linked \subseteq {u \in Tasks : pc'[u] \in {"waiter", "wait"}}
BY DEF Leave, Goto, Hold, TypeOK, Labels, Contents

\* What is put into the memory is what was given, and only the file's own
\* entry can become something.
LEMMA PutTypes ==
  ASSUME TypeOK, NEW f \in Files, NEW b \in Contents, PutInMemory(f, b)
  PROVE  memory' \in [Files -> Contents]
BY DEF PutInMemory, TypeOK, Contents

LEMMA PutDiskTypes ==
  ASSUME TypeOK, NEW f \in Files, NEW b \in Contents, PutOnDisk(f, b)
  PROVE  disk' \in [Files -> Contents]
<1>1. PICK written \in (IF DiskFails THEN {disk[f], b} ELSE {b}), removed \in SUBSET Files :
        disk' = [g \in Files |->
                   IF g \in removed THEN "none" ELSE IF g = f THEN written ELSE disk[g]]
  BY DEF PutOnDisk
<1>2. written \in Contents
  BY <1>1 DEF TypeOK
<1> QED BY <1>1, <1>2 DEF TypeOK, Contents

-----------------------------------------------------------------------------
(* Types *)

LEMMA StartTypes ==
  ASSUME TypeOK, NEW t \in Tasks, Start(t)
  PROVE  TypeOK'
<1>1. CASE Get(t)
  BY <1>1 DEF Get, Goto, TypeOK, Labels, Contents, caches, map
<1>2. CASE Evict(t)
  BY <1>2 DEF Evict, Goto, TypeOK, Labels, Contents, caches, map
<1>3. CASE InsertDecrypted(t)
  BY <1>3 DEF InsertDecrypted, Goto, Hold, TypeOK, Labels, Contents, caches, map
<1> QED BY <1>1, <1>2, <1>3 DEF Start

LEMMA RunTypes ==
  ASSUME TypeOK, NEW t \in Tasks, Run(t)
  PROVE  TypeOK'
<1> USE DEF caches, map
<1>1. CASE MemoryHit(t)
  BY <1>1, LeaveTypes DEF MemoryHit, TypeOK
<1>2. CASE MemoryMiss(t)
  BY <1>2 DEF MemoryMiss, Goto, TypeOK, Labels
<1>3. CASE DiskHit(t)
  BY <1>3 DEF DiskHit, Goto, Hold, TypeOK, Labels
<1>4. CASE Fill(t)
  <2>1. file[t] \in Files /\ bytes[t] \in Contents
    BY DEF TypeOK
  <2>2. memory' \in [Files -> Contents]
    BY <1>4, <2>1, PutTypes DEF Fill
  <2> QED BY <1>4, <2>2, LeaveTypes DEF Fill, TypeOK
<1>5. CASE DiskMiss(t)
  BY <1>5 DEF DiskMiss, Goto, TypeOK, Labels
<1>6. CASE LookUpFound(t)
  BY <1>6 DEF LookUpFound, Goto, TypeOK, Labels
<1>7. CASE LookUpNothing(t)
  BY <1>7 DEF LookUpNothing, Goto, TypeOK, Labels
<1>8. CASE Insert(t)
  BY <1>8 DEF Insert, Goto, TypeOK, Labels
<1>9. CASE Wait(t)
  BY <1>9 DEF Wait, Goto, TypeOK, Labels
<1>10. CASE Fetched(t)
  BY <1>10 DEF Fetched, Goto, Hold, TypeOK, Labels, Contents
<1>11. CASE StoreInMemory(t)
  <2>1. file[t] \in Files /\ bytes[t] \in Contents
    BY DEF TypeOK
  <2>2. memory' \in [Files -> Contents]
    BY <1>11, <2>1, PutTypes DEF StoreInMemory
  <2> QED BY <1>11, <2>2 DEF StoreInMemory, Goto, TypeOK, Labels
<1>12. CASE StoreOnDisk(t)
  <2>1. file[t] \in Files /\ bytes[t] \in Contents
    BY DEF TypeOK
  <2>2. disk' \in [Files -> Contents]
    BY <1>12, <2>1, PutDiskTypes DEF StoreOnDisk
  <2>3. CASE bytes[t] = "cipher"
    BY <1>12, <2>2, <2>3 DEF StoreOnDisk, Goto, TypeOK, Labels
  <2>4. CASE bytes[t] # "cipher"
    BY <1>12, <2>2, <2>4, LeaveTypes DEF StoreOnDisk, TypeOK
  <2> QED BY <2>3, <2>4
<1>13. CASE RemoveAndNotify(t)
  BY <1>13 DEF RemoveAndNotify, Hold, TypeOK, Labels, Contents
<1>14. CASE EvictFromMemory(t)
  BY <1>14 DEF EvictFromMemory, Goto, TypeOK, Labels, Contents
<1>15. CASE EvictFromDisk(t)
  <2>1. disk' \in [Files -> Contents]
    BY <1>15 DEF EvictFromDisk, TypeOK, Contents
  <2> QED BY <1>15, <2>1, LeaveTypes DEF EvictFromDisk, TypeOK
<1> QED
  BY <1>1, <1>2, <1>3, <1>4, <1>5, <1>6, <1>7, <1>8, <1>9, <1>10, <1>11, <1>12,
     <1>13, <1>14, <1>15 DEF Run

LEMMA FailTypes ==
  ASSUME TypeOK, NEW t \in Tasks, DiskError(t) \/ FetchError(t) \/ Cancel(t)
  PROVE  TypeOK'
<1> USE DEF caches, map
<1>1. CASE DiskError(t)
  BY <1>1, LeaveTypes DEF DiskError, TypeOK
<1>2. CASE FetchError(t)
  BY <1>2, LeaveTypes DEF FetchError, TypeOK
<1>3. CASE Cancel(t)
  BY <1>3 DEF Cancel, Leave, Goto, Hold, TypeOK, Labels, Contents
<1> QED BY <1>1, <1>2, <1>3

LEMMA TypeStep == TypeOK /\ [Next]_vars => TypeOK'
<1> SUFFICES ASSUME TypeOK, [Next]_vars PROVE TypeOK'
  OBVIOUS
<1>1. CASE UNCHANGED vars
  BY <1>1 DEF vars, caches, map, TypeOK
<1>2. CASE Next
  BY <1>2, StartTypes, RunTypes, FailTypes DEF Next
<1> QED BY <1>1, <1>2

\* Every task is at one of its program points with something in hand, only
\* waiters are linked, and only a task that looks again or fetches by itself
\* has been woken.
THEOREM TypeCorrect == Spec => []TypeOK
<1>1. Init => TypeOK
  BY DEF Init, TypeOK, Labels, Contents
<1> QED BY <1>1, TypeStep, PTL DEF Spec

-----------------------------------------------------------------------------
(* The locks *)

\* Who holds the disk lock has read what is on the disk.
LEMMA FillStep == TypeOK /\ FillIsCurrent /\ [Next]_vars => FillIsCurrent'
<1> SUFFICES ASSUME TypeOK, FillIsCurrent, [Next]_vars,
                    NEW u \in Tasks, pc'[u] = "fill"
             PROVE  disk'[file'[u]] = bytes'[u]
  BY DEF FillIsCurrent
<1> USE DEF caches, map
<1>1. CASE UNCHANGED vars
  BY <1>1 DEF vars, FillIsCurrent
<1>2. CASE \E t \in Tasks : DiskHit(t)
  BY <1>2 DEF DiskHit, Goto, Hold, TypeOK, FillIsCurrent
<1>3. CASE \E t \in Tasks : StoreOnDisk(t)
  BY <1>3 DEF StoreOnDisk, DiskFree, Goto, Leave, TypeOK
<1>4. CASE \E t \in Tasks : EvictFromDisk(t)
  BY <1>4 DEF EvictFromDisk, DiskFree, Goto, Leave, TypeOK
<1>5. CASE \E t \in Tasks : RemoveAndNotify(t)
  BY <1>5 DEF RemoveAndNotify, Hold, TypeOK, FillIsCurrent
<1>6. CASE \E t \in Tasks : Start(t)
  BY <1>6 DEF Start, Get, Evict, InsertDecrypted, Goto, Hold, TypeOK, FillIsCurrent
<1>7. CASE \E t \in Tasks : MemoryHit(t) \/ Fill(t) \/ DiskError(t) \/ FetchError(t) \/ Cancel(t)
  BY <1>7 DEF MemoryHit, Fill, DiskError, FetchError, Cancel, Leave, Goto, Hold, TypeOK,
              FillIsCurrent
<1>8. CASE \E t \in Tasks :
             \/ MemoryMiss(t) \/ DiskMiss(t) \/ LookUpFound(t) \/ LookUpNothing(t) \/ Insert(t)
             \/ Wait(t) \/ Fetched(t) \/ StoreInMemory(t) \/ EvictFromMemory(t)
  BY <1>8 DEF MemoryMiss, DiskMiss, LookUpFound, LookUpNothing, Insert, Wait, Fetched,
              StoreInMemory, EvictFromMemory, Goto, Hold, TypeOK, FillIsCurrent
<1> QED
  BY <1>1, <1>2, <1>3, <1>4, <1>5, <1>6, <1>7, <1>8 DEF Next, Run

\* What get copies from the disk into the memory is on the disk until the copy
\* is made: every writer of the disk needs the lock that get still holds.
THEOREM FillsAreCurrent == Spec => []FillIsCurrent
<1>1. Init => FillIsCurrent
  BY DEF Init, FillIsCurrent
<1> QED BY <1>1, FillStep, TypeCorrect, PTL DEF Spec

\* Who holds the memory lock has taken the file out of the memory.
LEMMA EvictStep == TypeOK /\ EvictedFromMemory /\ [Next]_vars => EvictedFromMemory'
<1> SUFFICES ASSUME TypeOK, EvictedFromMemory, [Next]_vars,
                    NEW u \in Tasks, pc'[u] = "evictDisk"
             PROVE  memory'[file'[u]] = "none"
  BY DEF EvictedFromMemory
<1> USE DEF caches, map
<1>1. CASE UNCHANGED vars
  BY <1>1 DEF vars, EvictedFromMemory
<1>2. CASE \E t \in Tasks : EvictFromMemory(t)
  BY <1>2 DEF EvictFromMemory, MemoryFree, Goto, TypeOK
<1>3. CASE \E t \in Tasks : Fill(t) \/ StoreInMemory(t)
  BY <1>3 DEF Fill, StoreInMemory, MemoryFree, Leave, Goto, TypeOK
<1>4. CASE \E t \in Tasks : RemoveAndNotify(t)
  BY <1>4 DEF RemoveAndNotify, TypeOK, EvictedFromMemory
<1>5. CASE \E t \in Tasks : Start(t)
  BY <1>5 DEF Start, Get, Evict, InsertDecrypted, Goto, TypeOK, EvictedFromMemory
<1>6. CASE \E t \in Tasks :
             MemoryHit(t) \/ EvictFromDisk(t) \/ DiskError(t) \/ FetchError(t) \/ Cancel(t)
  BY <1>6 DEF MemoryHit, EvictFromDisk, DiskError, FetchError, Cancel, Leave, Goto, TypeOK,
              EvictedFromMemory
<1>7. CASE \E t \in Tasks : StoreOnDisk(t)
  BY <1>7 DEF StoreOnDisk, Leave, Goto, TypeOK, EvictedFromMemory
<1>8. CASE \E t \in Tasks :
             \/ MemoryMiss(t) \/ DiskHit(t) \/ DiskMiss(t) \/ LookUpFound(t) \/ LookUpNothing(t)
             \/ Insert(t) \/ Wait(t) \/ Fetched(t)
  BY <1>8 DEF MemoryMiss, DiskHit, DiskMiss, LookUpFound, LookUpNothing, Insert, Wait,
              Fetched, Goto, TypeOK, EvictedFromMemory
<1> QED
  BY <1>1, <1>2, <1>3, <1>4, <1>5, <1>6, <1>7, <1>8 DEF Next, Run

\* Between the two halves of an eviction nobody puts the file back into the
\* memory: every writer of the memory needs the lock that evict still holds.
THEOREM EvictionsHold == Spec => []EvictedFromMemory
<1>1. Init => EvictedFromMemory
  BY DEF Init, EvictedFromMemory
<1> QED BY <1>1, EvictStep, TypeCorrect, PTL DEF Spec

-----------------------------------------------------------------------------
(* The waiters *)

\* What a task has in hand says whether it came from get or from
\* insert_decrypted, and so whether it will remove an entry of the map.
HandInv ==
  \A t \in Tasks :
    /\ pc[t] \notin {"fill", "storeMemory", "storeDisk", "notify"} => bytes[t] = "none"
    /\ pc[t] \in {"storeMemory", "storeDisk"} => bytes[t] \in {"cipher", "plain"}
    /\ pc[t] = "notify" => bytes[t] = "cipher"

LEMMA HandStep == TypeOK /\ HandInv /\ [Next]_vars => HandInv'
<1> SUFFICES ASSUME TypeOK, HandInv, [Next]_vars PROVE HandInv'
  OBVIOUS
<1> USE DEF caches, map
<1>1. CASE UNCHANGED vars
  BY <1>1 DEF vars, HandInv
<1>2. CASE \E t \in Tasks : Start(t)
  BY <1>2 DEF Start, Get, Evict, InsertDecrypted, Goto, Hold, TypeOK, HandInv
<1>3. CASE \E t \in Tasks :
             \/ MemoryHit(t) \/ Fill(t) \/ EvictFromDisk(t)
             \/ DiskError(t) \/ FetchError(t) \/ Cancel(t)
  BY <1>3 DEF MemoryHit, Fill, EvictFromDisk, DiskError, FetchError, Cancel, Leave, Goto,
              Hold, TypeOK, HandInv
<1>4. CASE \E t \in Tasks : DiskHit(t) \/ Fetched(t)
  BY <1>4 DEF DiskHit, Fetched, Goto, Hold, TypeOK, HandInv
<1>5. CASE \E t \in Tasks : StoreOnDisk(t)
  BY <1>5 DEF StoreOnDisk, Leave, Goto, Hold, TypeOK, HandInv
<1>6. CASE \E t \in Tasks : RemoveAndNotify(t)
  BY <1>6 DEF RemoveAndNotify, Hold, TypeOK, HandInv
<1>7. CASE \E t \in Tasks :
             \/ MemoryMiss(t) \/ DiskMiss(t) \/ LookUpFound(t) \/ LookUpNothing(t) \/ Insert(t)
             \/ Wait(t) \/ StoreInMemory(t) \/ EvictFromMemory(t)
  BY <1>7 DEF MemoryMiss, DiskMiss, LookUpFound, LookUpNothing, Insert, Wait,
              StoreInMemory, EvictFromMemory, Goto, TypeOK, HandInv
<1> QED BY <1>1, <1>2, <1>3, <1>4, <1>5, <1>6, <1>7 DEF Next, Run

\* Somebody at work on f gives up.
GivenUp(f) == \E u \in Tasks : file[u] = f /\ Working(u) /\ (FetchError(u) \/ Cancel(u))

\* A step that adds no entry and no waiter, and after which everybody at work
\* is still at work, deserts no file.
LEMMA WorkKept ==
  ASSUME TypeOK, NEW f \in Files,
         inflight' = inflight, linked' = linked,
         \A u \in linked : file'[u] = file[u],
         \A u \in Tasks : Working(u) => file'[u] = file[u] /\ Working(u)'
  PROVE  Deserted(f)' => Deserted(f)
BY DEF Deserted, TypeOK

\* The step of a task that is not at work, and leaves the map alone.
LEMMA IdlersDesertNobody ==
  ASSUME TypeOK, NEW f \in Files, NEW t \in Tasks, ~Working(t),
         UNCHANGED map,
         \A u \in Tasks \ {t} : pc'[u] = pc[u] /\ bytes'[u] = bytes[u] /\ file'[u] = file[u],
         t \in linked => file'[t] = file[t]
  PROVE  Deserted(f)' => Deserted(f)
<1>1. \A u \in Tasks : Working(u) => file'[u] = file[u] /\ Working(u)'
  BY DEF Working
<1>2. \A u \in linked : file'[u] = file[u]
  BY DEF TypeOK
<1> QED BY <1>1, <1>2, WorkKept DEF map

\* get at work, or the step of an insert_decrypted.
LEMMA WorkersDesertNobody ==
  ASSUME TypeOK, HandInv, NEW f \in Files, NEW t \in Tasks,
         Fetched(t) \/ StoreInMemory(t) \/ StoreOnDisk(t)
  PROVE  Deserted(f)' => Deserted(f)
<1>1. UNCHANGED <<file, map>>
  BY DEF Fetched, StoreInMemory, StoreOnDisk, Leave
<1>2. \A u \in Tasks : Working(u) => Working(u)'
  BY DEF Fetched, StoreInMemory, StoreOnDisk, Leave, Goto, Hold, Working, TypeOK, HandInv
<1> QED BY <1>1, <1>2, WorkKept DEF map

\* The entry found has already its waiters' worker, or nobody's.
LEMMA FindersDesertNobody ==
  ASSUME TypeOK, NEW f \in Files, NEW t \in Tasks, LookUpFound(t)
  PROVE  Deserted(f)' => Deserted(f)
<1>1. /\ file' = file /\ inflight' = inflight
      /\ linked' = linked \cup {t}
      /\ file[t] \in inflight
  BY DEF LookUpFound
<1>2. \A u \in Tasks : Working(u) => Working(u)'
  BY DEF LookUpFound, Goto, TypeOK, Working
<1> QED BY <1>1, <1>2 DEF Deserted

\* Who inserts an entry is at work on it.
LEMMA InsertersDesertNobody ==
  ASSUME TypeOK, HandInv, NEW f \in Files, NEW t \in Tasks, Insert(t)
  PROVE  Deserted(f)' => Deserted(f)
<1>1. /\ file' = file
      /\ inflight' = inflight \cup {file[t]}
      /\ linked' \subseteq linked
  BY DEF Insert
<1>2. Working(t)'
  BY DEF Insert, Goto, TypeOK, HandInv, Working
<1>3. \A u \in Tasks : Working(u) => Working(u)'
  BY DEF Insert, Goto, TypeOK, Working
<1> QED BY <1>1, <1>2, <1>3 DEF Deserted

\* Who removes an entry leaves neither entry nor linked waiter behind.
LEMMA NotifiersDesertNobody ==
  ASSUME TypeOK, NEW f \in Files, NEW t \in Tasks, RemoveAndNotify(t)
  PROVE  Deserted(f)' => Deserted(f)
<1>1. /\ file' = file
      /\ inflight' = inflight \ {file[t]}
      /\ linked' = linked \ {u \in linked : file[u] = file[t]}
  BY DEF RemoveAndNotify
<1>2. \A u \in Tasks : Working(u) /\ u # t => Working(u)'
  BY DEF RemoveAndNotify, Hold, TypeOK, Working
<1> QED BY <1>1, <1>2 DEF Deserted

\* Who gives up at work leaves its file without a worker; who gives up
\* anywhere else deserts nobody.
LEMMA QuittersDesert ==
  ASSUME TypeOK, NEW f \in Files, NEW t \in Tasks, FetchError(t) \/ Cancel(t),
         Deserted(f)', ~Deserted(f)
  PROVE  GivenUp(f)
<1>1. /\ file' = file /\ inflight' = inflight /\ linked' \subseteq linked
      /\ \A u \in Tasks \ {t} : pc'[u] = pc[u] /\ bytes'[u] = bytes[u]
  BY DEF FetchError, Cancel, Leave, Goto, Hold, map, TypeOK
<1>2. PICK u \in Tasks : file[u] = f /\ Working(u)
  BY <1>1 DEF Deserted
<1>3. u = t
  BY <1>1, <1>2 DEF Deserted, Working
<1> QED BY <1>2, <1>3 DEF GivenUp

LEMMA DesertedStep ==
  ASSUME TypeOK, HandInv, [Next]_vars, NEW f \in Files, Deserted(f)', ~Deserted(f)
  PROVE  GivenUp(f)
<1> USE DEF caches, map
<1>1. CASE UNCHANGED vars
  BY <1>1 DEF vars, Deserted, Working
<1>2. ASSUME NEW t \in Tasks, Start(t) PROVE FALSE
  BY <1>2, IdlersDesertNobody
     DEF Start, Get, Evict, InsertDecrypted, Goto, Hold, TypeOK, Working
<1>3. ASSUME NEW t \in Tasks,
             \/ MemoryHit(t) \/ MemoryMiss(t) \/ DiskHit(t) \/ Fill(t) \/ DiskMiss(t)
             \/ LookUpNothing(t) \/ Wait(t)
             \/ EvictFromMemory(t) \/ EvictFromDisk(t) \/ DiskError(t)
      PROVE  FALSE
  BY <1>3, IdlersDesertNobody
     DEF MemoryHit, MemoryMiss, DiskHit, Fill, DiskMiss, LookUpNothing, Wait,
         EvictFromMemory, EvictFromDisk, DiskError, Leave, Goto, Hold, TypeOK, Working
<1>4. ASSUME NEW t \in Tasks, Fetched(t) \/ StoreInMemory(t) \/ StoreOnDisk(t) PROVE FALSE
  BY <1>4, WorkersDesertNobody
<1>5. ASSUME NEW t \in Tasks, LookUpFound(t) \/ Insert(t) \/ RemoveAndNotify(t) PROVE FALSE
  BY <1>5, FindersDesertNobody, InsertersDesertNobody, NotifiersDesertNobody
<1>6. ASSUME NEW t \in Tasks, FetchError(t) \/ Cancel(t) PROVE GivenUp(f)
  BY <1>6, QuittersDesert
<1> QED BY <1>1, <1>2, <1>3, <1>4, <1>5, <1>6 DEF Next, Run

\* Only a fetch that fails, or a task dropped at its work, leaves an entry of
\* the map and its waiters without a task at work on the file: no replacement
\* of an entry, no removal by another task, no hit, miss or eviction does.
THEOREM WaitersAreServed == Spec => WaitersHaveFetcher
<1>1. Init => HandInv
  BY DEF Init, HandInv
<1>2. TypeOK /\ HandInv /\ [Next]_vars =>
        [\A f \in Files :
           Deserted(f)' /\ ~Deserted(f) =>
             \E u \in Tasks : /\ file[u] = f /\ Working(u)
                              /\ FetchError(u) \/ Cancel(u)]_vars
  BY DesertedStep DEF GivenUp
<1> QED BY <1>1, <1>2, HandStep, TypeCorrect, PTL DEF Spec, WaitersHaveFetcher
=============================================================================
