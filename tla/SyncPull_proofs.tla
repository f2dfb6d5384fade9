-------------------------- MODULE SyncPull_proofs --------------------------
(***************************************************************************)
(* Proofs about SyncPull, for any files, collections, page sizes and       *)
(* instants.                                                               *)
(***************************************************************************)
EXTENDS SyncPull, TLAPS

-----------------------------------------------------------------------------
(* Truncation to milliseconds *)

\* A truncated instant is an instant, and not later.
LEMMA FloorNat == ASSUME NEW t \in Nat PROVE Floor(t) \in Nat /\ Floor(t) <= t
BY ConstantsAssumption DEF Floor

\* Truncating again changes nothing.
LEMMA FloorFloor ==
  ASSUME NEW t \in Nat PROVE Floor(Floor(t)) = Floor(t)
BY ConstantsAssumption DEF Floor

\* Quotient and remainder.
LEMMA DivMod ==
  ASSUME NEW p \in Nat \ {0}, NEW t \in Nat
  PROVE  t % p \in 0 .. p - 1 /\ t \div p \in Nat /\ t = p * (t \div p) + (t % p)
OBVIOUS

\* Products grow with their factors.
LEMMA ProductMonotone ==
  ASSUME NEW p \in Nat, NEW a \in Nat, NEW b \in Nat, a <= b PROVE p * a <= p * b
OBVIOUS

\* An instant later than a truncated one is not truncated to before it: a row
\* after the cursor does not move the cursor back.
LEMMA FloorMonotone ==
  ASSUME NEW s \in Nat, NEW t \in Nat, Floor(s) = s, s < t
  PROVE  s <= Floor(t)
<1> DEFINE p == PerMilli
           a == s \div p
           b == t \div p
<1>1. s = p * a /\ t = p * b + (t % p) /\ a \in Nat /\ b \in Nat /\ t % p \in 0 .. p - 1
  <2>1. t % p \in 0 .. p - 1 /\ b \in Nat /\ t = p * b + (t % p)
    BY DivMod, ConstantsAssumption
  <2>2. s % p \in 0 .. p - 1 /\ a \in Nat /\ s = p * a + (s % p)
    BY DivMod, ConstantsAssumption
  <2>3. s % p = 0
    BY <2>2 DEF Floor
  <2>4. s = p * a
    BY <2>2, <2>3, ConstantsAssumption
  <2> QED BY <2>1, <2>2, <2>4
<1>2. p \in Nat
  BY ConstantsAssumption
<1>3. Floor(t) = t - (t % p)
  BY DEF Floor
<1> HIDE DEF p, a, b
<1>4. CASE a <= b
  <2>1. p * a <= p * b
    BY <1>1, <1>2, <1>4, ProductMonotone
  <2> DEFINE x == p * a
             y == p * b
  <2>2. x \in Int /\ y \in Int
    BY <1>1, <1>2
  <2>3. s = x /\ t = y + (t % p) /\ x <= y
    BY <1>1, <2>1
  <2> HIDE DEF x, y
  <2> QED BY <1>1, <1>3, <2>2, <2>3
<1>5. CASE b + 1 <= a
  <2>1. p * (b + 1) <= p * a
    BY <1>1, <1>2, <1>5, ProductMonotone
  <2>2. p * (b + 1) = p * b + p
    BY <1>1, <1>2
  <2> QED BY <1>1, <1>2, <2>1, <2>2
<1> QED BY <1>1, <1>4, <1>5

-----------------------------------------------------------------------------
(* Types *)

\* What is applied or saved is a page of the loop's own table: known only
\* grows by collections.
PageOfLoop ==
  step # "fetch" => phase \in Keys /\ page.rows \subseteq Table(phase)

TypeInv == TypeOK /\ PageOfLoop

\* The initial state is well typed.
LEMMA TypeInit == Init => TypeInv
BY ConstantsAssumption
   DEF Init, TypeInv, TypeOK, PageOfLoop, EmptyPage, Rows, Keys

\* What every way out of a loop leaves behind: a loop about to fetch, or
\* nothing.
LEMMA LeaveLoopType ==
  ASSUME TypeInv, phase # "idle", LeaveLoop
  PROVE  /\ phase' \in Keys \cup {"idle"}
         /\ step' = "fetch"
         /\ since' \in Nat
         /\ todo' \subseteq Collections
         /\ page' = EmptyPage
<1>1. CASE phase = "trash" /\ Stop
  BY <1>1 DEF Stop
<1>2. CASE phase # "trash"
  <2>1. (IF phase = "collections" THEN known ELSE todo) \subseteq Collections
    BY DEF TypeInv, TypeOK
  <2>2. PICK k \in Keys : EnterLoop(k) /\ todo' \subseteq Collections
    BY <1>2, <2>1 DEF LeaveLoop, Keys
  <2>3. since' \in Nat
    BY <2>2 DEF EnterLoop, ReadCursor, TypeInv, TypeOK
  <2> QED BY <2>2, <2>3 DEF EnterLoop
<1> QED BY <1>1, <1>2 DEF LeaveLoop

\* An empty page is a page.
LEMMA EmptyPageType == EmptyPage \in [rows : SUBSET Rows, latest : Nat, more : BOOLEAN]
BY DEF EmptyPage

\* Steps of the server keep the types.
LEMMA ServerType ==
  ASSUME TypeInv, NEW r \in Rows, BeginWrite(r) \/ CommitWrite(r)
  PROVE  TypeInv'
<1>1. CASE BeginWrite(r)
  BY <1>1, ConstantsAssumption
     DEF BeginWrite, TypeInv, TypeOK, PageOfLoop, database, sync, Table, Keys
<1>2. CASE CommitWrite(r)
  BY <1>2 DEF CommitWrite, TypeInv, TypeOK, PageOfLoop, database, sync, Table, Keys
<1> QED BY <1>1, <1>2

\* Between two loops, and when a sync starts or stops, no page is in hand.
LEMMA NoPageType ==
  ASSUME TypeInv,
         phase' \in Keys \cup {"idle"}, step' = "fetch", since' \in Nat,
         todo' \subseteq Collections, page' = EmptyPage,
         UNCHANGED server, local' = local, known' \subseteq Collections,
         cursor' \in [Keys -> Nat]
  PROVE  TypeInv'
BY EmptyPageType DEF TypeInv, TypeOK, PageOfLoop, server

\* Stopping leaves no page in hand.
LEMMA StopType ==
  ASSUME TypeInv, Stop, UNCHANGED server, local' = local,
         known' \subseteq Collections, UNCHANGED cursor
  PROVE  TypeInv'
BY NoPageType DEF Stop, TypeInv, TypeOK

\* Steps of the sync keep the types.
LEMMA ProceedType == ASSUME TypeInv, Proceed PROVE TypeInv'
<1>1. CASE FetchRefused
  BY <1>1, StopType DEF FetchRefused, database, TypeInv, TypeOK
<1>2. CASE FetchEmptyPage
  BY <1>2, LeaveLoopType, NoPageType
     DEF FetchEmptyPage, Fetching, database, TypeInv, TypeOK
<1>3. CASE FetchPage
  <2>0. PICK rows \in SUBSET Matching(phase, since) :
               \E last \in rows : page' = Answer(rows, last)
    BY <1>3 DEF FetchPage
  <2>1. PICK last \in rows : page' = Answer(rows, last)
    BY <2>0
  <2>2. rows \subseteq Table(phase) /\ last \in Rows
    BY <2>1 DEF Matching, Table, Rows
  <2>3. Floor(time[last]) \in Nat
    BY <2>2, FloorNat DEF TypeInv, TypeOK
  <2>4. page' \in [rows : SUBSET Rows, latest : Nat, more : BOOLEAN]
    BY <2>1, <2>2, <2>3 DEF Answer, Table, Rows
  <2>5. page'.rows \subseteq Table(phase)
    BY <2>1, <2>2 DEF Answer
  <2> QED
    BY <1>3, <2>4, <2>5
       DEF FetchPage, Fetching, TypeInv, TypeOK, PageOfLoop, server, database, Table
<1>4. CASE UpsertCollections
  <2>1. page.rows \subseteq Collections
    BY <1>4 DEF UpsertCollections, Applying, TypeInv, PageOfLoop, Table
  <2> QED
    BY <1>4, <2>1 DEF UpsertCollections, Applying, TypeInv, TypeOK, PageOfLoop, server, Table, Keys
<1>5. CASE FailCollections
  <2>1. page.rows \subseteq Collections
    BY <1>5 DEF FailCollections, Applying, TypeInv, PageOfLoop, Table
  <2>2. known' \subseteq Collections
    BY <1>5, <2>1 DEF FailCollections, TypeInv, TypeOK
  <2> QED BY <1>5, <2>2, StopType DEF FailCollections
<1>6. CASE UpsertFiles
  <2>1. local' \in [Files -> {"none", "present", "archived"}]
    BY <1>6 DEF UpsertFiles, Upserted, TypeInv, TypeOK
  <2> QED
    BY <1>6, <2>1 DEF UpsertFiles, Applying, TypeInv, TypeOK, PageOfLoop, server, Table, Keys
<1>7. CASE FailFiles
  BY <1>7, StopType DEF FailFiles, database, TypeInv, TypeOK
<1>8. CASE ArchiveFiles
  <2>1. local' \in [Files -> {"none", "present", "archived"}]
    BY <1>8 DEF ArchiveFiles, Archived, TypeInv, TypeOK
  <2> QED
    BY <1>8, <2>1 DEF ArchiveFiles, Applying, TypeInv, TypeOK, PageOfLoop, server, Table, Keys
<1>9. CASE SaveCursor
  <2>1. cursor' \in [Keys -> Nat] /\ page.latest \in Nat
    BY <1>9 DEF SaveCursor, WriteCursor, TypeInv, TypeOK
  <2>2. CASE page.more /\ since' = page.latest /\ step' = "fetch" /\ page' = EmptyPage
             /\ UNCHANGED <<phase, todo>>
    BY <1>9, <2>1, <2>2, NoPageType DEF SaveCursor, TypeInv, TypeOK
  <2>3. CASE LeaveLoop
    BY <1>9, <2>1, <2>3, LeaveLoopType, NoPageType DEF SaveCursor, TypeInv, TypeOK
  <2> QED BY <1>9, <2>2, <2>3 DEF SaveCursor
<1> QED
  BY <1>1, <1>2, <1>3, <1>4, <1>5, <1>6, <1>7, <1>8, <1>9 DEF Proceed

\* Every step keeps the types.
LEMMA TypeStep == TypeInv /\ [Next]_vars => TypeInv'
<1> SUFFICES ASSUME TypeInv, [Next]_vars PROVE TypeInv'
  OBVIOUS
<1>1. CASE StartSync
  <2>1. since' \in Nat /\ phase' \in Keys
    BY <1>1 DEF StartSync, EnterLoop, ReadCursor, TypeInv, TypeOK, Keys
  <2> QED
    BY <1>1, <2>1, NoPageType DEF StartSync, EnterLoop, database, TypeInv, TypeOK
<1>2. CASE Interrupt
  BY <1>2, StopType DEF Interrupt, database, TypeInv, TypeOK
<1>3. CASE UNCHANGED vars
  BY <1>3 DEF vars, server, database, sync, TypeInv, TypeOK, PageOfLoop, Table, Keys
<1> QED BY <1>1, <1>2, <1>3, ServerType, ProceedType DEF Next

\* The variables keep their types, whatever is written, read or interrupted.
THEOREM SyncTypeCorrect == Spec => []TypeOK
<1>1. Spec => []TypeInv
  BY TypeInit, TypeStep, PTL DEF Spec
<1>2. TypeInv => TypeOK
  BY DEF TypeInv
<1> QED BY <1>1, <1>2, PTL

-----------------------------------------------------------------------------
(* Cursors advance *)

\* A page ends no earlier than it begins.  Truncation has been applied to
\* cursors and positions alike.
AdvanceInv ==
  /\ \A k \in Keys : Floor(cursor[k]) = cursor[k]
  /\ Floor(since) = since
  /\ step # "fetch" => since <= page.latest /\ Floor(page.latest) = page.latest

\* What every way out of a loop, and into one, leaves behind.
LEMMA EnterLoopAdvance ==
  ASSUME TypeInv, AdvanceInv, NEW k \in Keys, EnterLoop(k)
  PROVE  step' = "fetch" /\ Floor(since') = since'
<1>1. Floor(0) = 0
  BY ConstantsAssumption DEF Floor
<1> QED BY <1>1 DEF EnterLoop, ReadCursor, AdvanceInv

LEMMA StopAdvance ==
  ASSUME Stop
  PROVE  step' = "fetch" /\ Floor(since') = since'
BY ConstantsAssumption DEF Stop, Floor

LEMMA LeaveLoopAdvance ==
  ASSUME TypeInv, AdvanceInv, LeaveLoop
  PROVE  step' = "fetch" /\ Floor(since') = since'
<1> DEFINE left == IF phase = "collections" THEN known ELSE todo
<1>1. left \subseteq Collections
  BY DEF TypeInv, TypeOK
<1>2. CASE \E c \in left : EnterLoop(c) /\ todo' = left \ {c}
  BY <1>1, <1>2, EnterLoopAdvance DEF Keys
<1>3. CASE EnterLoop("trash") /\ todo' = {}
  BY <1>3, EnterLoopAdvance DEF Keys
<1> QED BY <1>2, <1>3, StopAdvance DEF LeaveLoop

\* Every step keeps AdvanceInv and moves a cursor back only in a loop that
\* began before it.
LEMMA AdvanceStep ==
  ASSUME TypeInv, AdvanceInv, [Next]_vars
  PROVE  AdvanceInv' /\ \A k \in Keys : cursor'[k] >= cursor[k] \/ since < cursor[k]
<1>1. /\ cursor \in [Keys -> Nat] /\ since \in Nat /\ page.latest \in Nat
      /\ "idle" \notin Collections /\ "collections" \in Keys
  BY ConstantsAssumption DEF TypeInv, TypeOK, Keys
<1>2. CASE cursor' = cursor /\ ~SaveCursor
  <2>1. \A k \in Keys : cursor'[k] >= cursor[k]
    BY <1>1, <1>2
  <2>2. CASE UNCHANGED vars \/ \E r \in Rows : BeginWrite(r) \/ CommitWrite(r)
    BY <1>2, <2>1, <2>2
       DEF vars, BeginWrite, CommitWrite, database, sync, AdvanceInv
  <2>3. CASE StartSync
    BY <1>1, <1>2, <2>1, <2>3, EnterLoopAdvance DEF StartSync, AdvanceInv
  <2>4. CASE FetchRefused \/ FailCollections \/ FailFiles \/ Interrupt
    BY <1>2, <2>1, <2>4, StopAdvance
       DEF FetchRefused, FailCollections, FailFiles, Interrupt, AdvanceInv
  <2>5. CASE FetchEmptyPage
    BY <1>2, <2>1, <2>5, LeaveLoopAdvance DEF FetchEmptyPage, AdvanceInv
  <2>6. CASE FetchPage
    <3>1. PICK rows \in SUBSET Matching(phase, since) :
                 \E last \in rows : page' = Answer(rows, last)
      BY <2>6 DEF FetchPage
    <3>2. PICK last \in rows : page' = Answer(rows, last)
      BY <3>1
    <3>3. page'.latest = Floor(time[last])
      BY <3>2 DEF Answer
    <3>4. time[last] \in Nat /\ since < time[last]
      <4>1. last \in Rows /\ time[last] > since
        BY <3>1, <3>2 DEF Matching, Table, Rows
      <4>2. time[last] \in Nat
        BY <4>1 DEF TypeInv, TypeOK
      <4> QED BY <1>1, <4>1, <4>2
    <3>5. Floor(since) = since
      BY DEF AdvanceInv
    <3>6. since <= page'.latest /\ Floor(page'.latest) = page'.latest
      BY <1>1, <3>3, <3>4, <3>5, FloorMonotone, FloorFloor
    <3> QED BY <1>2, <2>1, <2>6, <3>5, <3>6 DEF FetchPage, AdvanceInv
  <2>7. CASE UpsertCollections \/ UpsertFiles \/ ArchiveFiles
    BY <1>2, <2>1, <2>7
       DEF UpsertCollections, UpsertFiles, ArchiveFiles, Applying, AdvanceInv
  <2> QED
    BY <1>2, <2>2, <2>3, <2>4, <2>5, <2>6, <2>7 DEF Next, Proceed
<1>3. CASE SaveCursor
  <2>1. /\ phase \in Keys /\ phase # "idle" /\ step = "save"
        /\ cursor' = [cursor EXCEPT ![phase] = page.latest]
    BY <1>3 DEF SaveCursor, WriteCursor, TypeInv, TypeOK
  <2>2. since <= page.latest /\ Floor(page.latest) = page.latest
    BY <2>1 DEF AdvanceInv
  <2>3. \A k \in Keys : cursor'[k] >= cursor[k] \/ since < cursor[k]
    <3> SUFFICES ASSUME NEW k \in Keys PROVE cursor'[k] >= cursor[k] \/ since < cursor[k]
      OBVIOUS
    <3>1. CASE k = phase
      <4>1. cursor'[k] = page.latest /\ cursor[k] \in Nat
        BY <1>1, <2>1, <3>1
      <4> QED BY <1>1, <2>2, <4>1
    <3>2. CASE k # phase
      BY <1>1, <2>1, <3>2
    <3> QED BY <3>1, <3>2
  <2>4. \A k \in Keys : Floor(cursor'[k]) = cursor'[k]
    BY <1>1, <2>1, <2>2 DEF AdvanceInv
  <2>5. CASE page.more /\ since' = page.latest /\ step' = "fetch" /\ UNCHANGED <<phase, todo>>
    BY <2>2, <2>3, <2>4, <2>5 DEF AdvanceInv
  <2>6. CASE LeaveLoop
    BY <2>3, <2>4, <2>6, LeaveLoopAdvance DEF AdvanceInv
  <2> QED BY <1>3, <2>5, <2>6 DEF SaveCursor
<1>4. SaveCursor \/ cursor' = cursor
  BY DEF Next, Proceed, BeginWrite, CommitWrite, StartSync, FetchRefused, FetchEmptyPage,
         FetchPage, UpsertCollections, FailCollections, UpsertFiles, FailFiles, ArchiveFiles,
         Interrupt, database, vars
<1> QED BY <1>2, <1>3, <1>4

\* No cursor moves back, unless its loop could not read it: a sync that starts
\* again, after whatever failure, asks for nothing it has left behind.
THEOREM CursorsOnlyAdvance == Spec => CursorsAdvance
<1>1. Init => AdvanceInv
  BY ConstantsAssumption DEF Init, AdvanceInv, Floor, Keys
<1>2. TypeInv /\ AdvanceInv /\ [Next]_vars => AdvanceInv'
  BY AdvanceStep
<1>3. TypeInv /\ AdvanceInv /\ [Next]_vars
      => [\A k \in Keys : cursor'[k] >= cursor[k] \/ since < cursor[k]]_vars
  BY AdvanceStep
<1> QED BY <1>1, <1>2, <1>3, TypeInit, TypeStep, PTL DEF Spec, CursorsAdvance

-----------------------------------------------------------------------------
(* SyncPull implements CatalogMirror *)

\* What the client has hidden the server has archived.  A page of files in
\* hand holds published files, of which none is hidden: only the trash loop
\* hides, and it does not run at the same time.
MirrorInv ==
  /\ \A f \in Files : local[f] = "archived" => visible[f] = "archived"
  /\ \A r \in Rows : pending[r] # 0 => visible[r] # "archived"
  /\ phase \in Collections /\ step = "apply" =>
       \A f \in page.rows : visible[f] # "none" /\ local[f] # "archived"
  /\ phase = "trash" /\ step = "apply" =>
       \A f \in page.rows : visible[f] = "archived"

\* A step that changes neither what is visible nor the client's files is a
\* stutter.
LEMMA MirrorStutter ==
  ASSUME UNCHANGED <<visible, local>> PROVE UNCHANGED Mirror!vars
BY DEF Mirror!vars

\* Writing keeps MirrorInv, and publishes or removes a file, or stutters.
LEMMA MirrorServer ==
  ASSUME TypeInv, MirrorInv, NEW r \in Rows, BeginWrite(r) \/ CommitWrite(r)
  PROVE  MirrorInv' /\ [Mirror!Next]_(Mirror!vars)
<1>1. visible \in [Rows -> {"none", "live", "archived"}] /\ pending \in [Rows -> Nat]
  BY DEF TypeInv, TypeOK
<1>2. UNCHANGED <<local, phase, step, page>>
  BY DEF BeginWrite, CommitWrite, database, sync
<1>3. CASE BeginWrite(r)
  <2>1. visible' = visible /\ visible[r] # "archived"
        /\ \A q \in Rows : q # r => pending'[q] = pending[q]
    BY <1>1, <1>3 DEF BeginWrite
  <2> QED BY <1>2, <2>1, MirrorStutter DEF MirrorInv
<1>4. CASE CommitWrite(r)
  <2>1. /\ pending[r] # 0 /\ visible[r] # "archived"
        /\ visible' = [visible EXCEPT ![r] = IF visible[r] = "none" THEN "live" ELSE "archived"]
        /\ pending' = [pending EXCEPT ![r] = 0]
    BY <1>4 DEF CommitWrite, MirrorInv
  <2>2. \A q \in Rows : /\ visible[q] # "none" => visible'[q] # "none"
                        /\ visible[q] = "archived" => visible'[q] = "archived"
                        /\ visible'[q] = "archived" => pending'[q] = 0 \/ visible[q] = "archived"
    BY <1>1, <2>1
  <2>3. MirrorInv'
    <3>1. \A f \in Files : local'[f] = "archived" => visible'[f] = "archived"
      BY <1>2, <2>2 DEF MirrorInv, Rows
    <3>2. \A q \in Rows : pending'[q] # 0 => visible'[q] # "archived"
      BY <1>1, <2>1, <2>2 DEF MirrorInv
    <3>3. step = "apply" => page.rows \subseteq Rows
      BY DEF TypeInv, TypeOK
    <3> QED BY <1>2, <2>2, <3>1, <3>2, <3>3 DEF MirrorInv
  <2>4. CASE r \notin Files
    <3>1. \A f \in Files : visible'[f] = visible[f]
      BY <1>1, <2>1, <2>4 DEF Rows
    <3> QED BY <1>2, <2>3, <3>1 DEF Mirror!vars
  <2>5. CASE r \in Files
    <3> DEFINE catalog == [f \in Files |-> visible[f]]
    <3>1. [f \in Files |-> visible[f]]' = [catalog EXCEPT ![r] = visible'[r]]
      BY <1>1, <2>1, <2>5 DEF Rows
    <3>2. catalog[r] = visible[r] /\ visible[r] \in {"none", "live"}
      BY <1>1, <2>1, <2>5
    <3>3. visible'[r] = IF visible[r] = "none" THEN "live" ELSE "archived"
      BY <1>1, <2>1
    <3>4. CASE visible[r] = "none"
      BY <1>2, <2>5, <3>1, <3>2, <3>3, <3>4, <2>3 DEF Mirror!Next, Mirror!Publish
    <3>5. CASE visible[r] = "live"
      BY <1>2, <2>5, <3>1, <3>2, <3>3, <3>5, <2>3 DEF Mirror!Next, Mirror!Remove
    <3> QED BY <3>2, <3>4, <3>5
  <2> QED BY <2>4, <2>5
<1> QED BY <1>3, <1>4

\* Steps of the sync other than fetching and applying a page have no page in
\* hand to apply.
LEMMA MirrorNoApply ==
  ASSUME TypeInv, MirrorInv, UNCHANGED <<server, local>>, step' # "apply"
  PROVE  MirrorInv' /\ [Mirror!Next]_(Mirror!vars)
BY MirrorStutter DEF MirrorInv, server

\* Files are copied, or hidden.
LEMMA MirrorApply ==
  ASSUME TypeInv, MirrorInv, UpsertFiles \/ ArchiveFiles
  PROVE  MirrorInv' /\ [Mirror!Next]_(Mirror!vars)
<1>1. /\ UNCHANGED <<visible, pending, phase, page>> /\ step' = "save" /\ step = "apply"
      /\ page.rows \subseteq Rows
      /\ local \in [Files -> {"none", "present", "archived"}]
  BY DEF UpsertFiles, ArchiveFiles, Applying, server, TypeInv, TypeOK
<1>2. [f \in Files |-> visible[f]]' = [f \in Files |-> visible[f]]
  BY <1>1
<1>3. CASE UpsertFiles
  <2> DEFINE S == page.rows \cap Readable
  <2>1. phase \in Collections /\ S \subseteq Files
    BY <1>3, <1>1, ConstantsAssumption
       DEF UpsertFiles, Applying, TypeInv, PageOfLoop, Table
  <2>2. local' = [f \in Files |-> IF f \in S THEN "present" ELSE local[f]]
    BY <1>3 DEF UpsertFiles, Upserted, Decrypted
  <2>3. \A f \in S : visible[f] # "none" /\ local[f] # "archived"
    BY <1>1, <2>1 DEF MirrorInv
  <2>4. MirrorInv'
    BY <1>1, <2>2 DEF MirrorInv
  <2>5. Mirror!Copy(S)
    BY <1>2, <2>1, <2>2, <2>3 DEF Mirror!Copy
  <2>6. Mirror!Next
    BY <2>1, <2>5 DEF Mirror!Next
  <2> QED BY <2>4, <2>6
<1>4. CASE ArchiveFiles
  <2> DEFINE S == {f \in Files : f \in page.rows /\ local[f] = "present"}
  <2>1. local' = [f \in Files |-> IF f \in page.rows /\ local[f] # "none"
                                THEN "archived" ELSE local[f]]
    BY <1>4 DEF ArchiveFiles, Archived
  <2>2. \A f \in page.rows : visible[f] = "archived"
    BY <1>1, <1>4 DEF ArchiveFiles, Applying, MirrorInv
  <2>3. local' = [f \in Files |-> IF f \in S THEN "archived" ELSE local[f]]
    <3>1. \A f \in Files : (IF f \in page.rows /\ local[f] # "none" THEN "archived" ELSE local[f])
                        = (IF f \in S THEN "archived" ELSE local[f])
      BY <1>1
    <3> HIDE DEF S
    <3> QED BY <2>1, <3>1
  <2>4. MirrorInv'
    BY <1>1, <2>1, <2>2 DEF MirrorInv
  <2>5. Mirror!Hide(S)
    BY <1>2, <2>2, <2>3 DEF Mirror!Hide
  <2>6. Mirror!Next
    BY <2>5 DEF Mirror!Next
  <2> QED BY <2>4, <2>6
<1> QED BY <1>3, <1>4

\* Every step keeps MirrorInv and is a step of CatalogMirror or a stutter.
LEMMA MirrorStep ==
  ASSUME TypeInv, MirrorInv, [Next]_vars
  PROVE  MirrorInv' /\ [Mirror!Next]_(Mirror!vars)
<1>1. CASE UNCHANGED vars
  BY <1>1, MirrorStutter DEF vars, server, database, sync, MirrorInv
<1>2. CASE StartSync \/ FetchRefused \/ UpsertCollections \/ FailCollections
           \/ FailFiles \/ Interrupt
  BY <1>2, MirrorNoApply
     DEF StartSync, FetchRefused, UpsertCollections, FailCollections, FailFiles, Interrupt,
         EnterLoop, Stop, database
<1>3. CASE FetchEmptyPage
  <2>1. step' = "fetch"
    BY <1>3, LeaveLoopType DEF FetchEmptyPage, Fetching
  <2> QED BY <1>3, <2>1, MirrorNoApply DEF FetchEmptyPage, database
<1>4. CASE SaveCursor
  <2>1. step' = "fetch"
    BY <1>4, LeaveLoopType DEF SaveCursor
  <2> QED BY <1>4, <2>1, MirrorNoApply DEF SaveCursor
<1>5. CASE FetchPage
  <2>1. PICK rows \in SUBSET Matching(phase, since) :
               \E last \in rows : page' = Answer(rows, last)
    BY <1>5 DEF FetchPage
  <2>2. page'.rows = rows
    BY <2>1 DEF Answer
  <2>3. \A r \in rows : r \in Table(phase) /\ visible[r] = Wanted(phase)
    BY <2>1 DEF Matching
  <2>4. UNCHANGED <<visible, pending, local, phase>>
    BY <1>5 DEF FetchPage, server, database
  <2>5. phase \in Collections =>
          \A r \in rows : r \in Files /\ visible[r] = "live"
    BY <2>3, ConstantsAssumption DEF Table, Wanted
  <2>6. phase = "trash" => \A r \in rows : visible[r] = "archived"
    BY <2>3 DEF Wanted
  <2>7. MirrorInv'
    BY <2>2, <2>4, <2>5, <2>6 DEF MirrorInv
  <2> QED BY <2>4, <2>7, MirrorStutter
<1> QED
  BY <1>1, <1>2, <1>3, <1>4, <1>5, MirrorServer, MirrorApply DEF Next, Proceed

\* A client's database implements CatalogMirror, however the server's
\* statements overlap: pages are applied after the rows in them have changed,
\* and still nothing appears that was not published, nothing is hidden that
\* was not archived and nothing hidden comes back.
THEOREM CatalogMirrored == Spec => MirrorsCatalog
<1>1. Init => MirrorInv /\ Mirror!Init
  BY DEF Init, MirrorInv, Mirror!Init, Rows
<1>2. TypeInv /\ MirrorInv /\ [Next]_vars => MirrorInv' /\ [Mirror!Next]_(Mirror!vars)
  BY MirrorStep
<1> QED BY <1>1, <1>2, TypeInit, TypeStep, PTL DEF Spec, MirrorsCatalog, Mirror!Spec

-----------------------------------------------------------------------------
(* What the loops pass over.  A loop's position was once the time of a row *)
(* that could be seen, truncated; so a row that becomes visible behind it  *)
(* does so after that one, and nothing else puts a row behind a loop but a *)
(* page that leaves it out.                                                *)

\* Some row that the loop of k lists, or has listed, is not before t.
Behind(k, t) ==
  \/ t = 0
  \/ \E q \in Rows :
       /\ visible[q] # "none"
       /\ k = "trash" => visible[q] = "archived"
       /\ t <= time[q]

\* Times follow the clock.
ClockInv ==
  \A r \in Rows :
    /\ time[r] <= clock
    /\ pending[r] # 0 => time[r] <= pending[r] /\ pending[r] <= clock

\* Cursors and pages are behind what their loop has seen, and a loop asks for
\* nothing later than its cursor.
LoopInv ==
  /\ \A k \in Keys : Behind(k, cursor[k])
  /\ step # "fetch" => Behind(phase, page.latest)
  /\ phase \in Keys => since <= cursor[phase]
  /\ phase \notin todo

ReachInv == TypeInv /\ ClockInv /\ LoopInv

-----------------------------------------------------------------------------
(* ReachInv is inductive *)

\* Writing a row moves no row back, and hides none that was seen.
LEMMA ServerForward ==
  ASSUME TypeInv, ClockInv, NEW r \in Rows, BeginWrite(r) \/ CommitWrite(r)
  PROVE  /\ ClockInv'
         /\ \A q \in Rows : /\ time[q] <= time'[q]
                            /\ visible[q] # "none" => visible'[q] # "none"
                            /\ visible[q] = "archived" => visible'[q] = "archived"
<1>1. /\ clock \in Nat /\ time \in [Rows -> Nat] /\ pending \in [Rows -> Nat]
      /\ visible \in [Rows -> {"none", "live", "archived"}]
  BY DEF TypeInv, TypeOK
<1>2. CASE BeginWrite(r)
  <2>1. PICK now \in clock .. MaxTime :
               clock' = now /\ pending' = [pending EXCEPT ![r] = now]
    BY <1>2 DEF BeginWrite
  <2>2. now \in Nat /\ clock <= now
    BY <1>1, <2>1, ConstantsAssumption
  <2>3. UNCHANGED <<time, visible>>
    BY <1>2 DEF BeginWrite
  <2>4. ClockInv'
    <3> SUFFICES ASSUME NEW q \in Rows
                 PROVE  /\ time[q] <= now
                        /\ pending'[q] # 0 => time[q] <= pending'[q] /\ pending'[q] <= now
      BY <2>1, <2>3 DEF ClockInv
    <3>1. time[q] <= clock /\ (pending[q] # 0 => time[q] <= pending[q] /\ pending[q] <= clock)
      BY DEF ClockInv
    <3>2. time[q] \in Nat /\ pending[q] \in Nat
      BY <1>1
    <3>3. pending'[q] = IF q = r THEN now ELSE pending[q]
      BY <1>1, <2>1
    <3> QED BY <1>1, <2>2, <3>1, <3>2, <3>3
  <2> QED BY <1>1, <2>3, <2>4
<1>3. CASE CommitWrite(r)
  <2>1. /\ pending[r] # 0 /\ clock' = clock
        /\ visible' = [visible EXCEPT ![r] = IF visible[r] = "none" THEN "live" ELSE "archived"]
        /\ time' = [time EXCEPT ![r] = pending[r]]
        /\ pending' = [pending EXCEPT ![r] = 0]
    BY <1>3 DEF CommitWrite
  <2>2. \A q \in Rows : /\ visible[q] # "none" => visible'[q] # "none"
                        /\ visible[q] = "archived" => visible'[q] = "archived"
    BY <1>1, <2>1
  <2>3. ASSUME NEW q \in Rows
        PROVE  /\ time[q] <= time'[q] /\ time'[q] <= clock
               /\ pending'[q] # 0 => time'[q] <= pending'[q] /\ pending'[q] <= clock
    <3>1. time[q] <= clock /\ (pending[q] # 0 => time[q] <= pending[q] /\ pending[q] <= clock)
      BY DEF ClockInv
    <3>2. time[q] \in Nat /\ pending[q] \in Nat
      BY <1>1
    <3>3. /\ time'[q] = IF q = r THEN pending[q] ELSE time[q]
          /\ pending'[q] = IF q = r THEN 0 ELSE pending[q]
      BY <1>1, <2>1
    <3> QED BY <1>1, <2>1, <3>1, <3>2, <3>3
  <2> QED BY <2>1, <2>2, <2>3 DEF ClockInv
<1> QED BY <1>2, <1>3

LEMMA ReachServer ==
  ASSUME ReachInv, TypeInv', NEW r \in Rows, BeginWrite(r) \/ CommitWrite(r)
  PROVE  ReachInv'
<1>1. TypeInv /\ ClockInv /\ LoopInv
  BY DEF ReachInv
<1>2. UNCHANGED <<cursor, phase, step, since, todo, page>>
  BY DEF BeginWrite, CommitWrite, database, sync
<1>3. ASSUME NEW k, NEW t \in Nat, Behind(k, t) PROVE Behind(k, t)'
  <2>1. CASE t = 0
    BY <2>1 DEF Behind
  <2>2. CASE t # 0
    <3>1. PICK q \in Rows : /\ visible[q] # "none"
                            /\ k = "trash" => visible[q] = "archived"
                            /\ t <= time[q]
      BY <1>3, <2>2 DEF Behind
    <3>2. time[q] \in Nat /\ time'[q] \in Nat
      BY <1>1 DEF TypeInv, TypeOK
    <3>3. t <= time'[q]
      BY <1>1, <3>1, <3>2, ServerForward
    <3> QED BY <1>1, <3>1, <3>3, ServerForward DEF Behind
  <2> QED BY <2>1, <2>2
<1>4. page.latest \in Nat /\ cursor \in [Keys -> Nat]
  BY <1>1 DEF TypeInv, TypeOK
<1>5. LoopInv'
  <2>1. \A k \in Keys : Behind(k, cursor[k])'
    BY <1>1, <1>2, <1>3, <1>4 DEF LoopInv, Behind
  <2>2. step # "fetch" => Behind(phase, page.latest)'
    BY <1>1, <1>2, <1>3, <1>4 DEF LoopInv, Behind
  <2> QED BY <1>1, <1>2, <2>1, <2>2 DEF LoopInv
<1> QED BY <1>1, <1>5, ServerForward DEF ReachInv

\* Whatever loop is entered next begins at 0 or at its cursor, and is not the
\* one that is left.
LEMMA NextLoop ==
  ASSUME TypeInv, LoopInv, phase # "idle", LeaveLoop
  PROVE  /\ step' = "fetch"
         /\ phase' \notin todo'
         /\ phase' \in Keys => phase' # phase /\ since' \in {0, cursor[phase']}
<1>1. /\ known \subseteq Collections /\ todo \subseteq Collections
      /\ "collections" \notin Collections /\ "trash" \notin Collections
      /\ "idle" \notin Keys /\ Collections \subseteq Keys /\ phase \notin todo
  BY ConstantsAssumption DEF TypeInv, TypeOK, LoopInv, Keys
<1>2. CASE phase = "trash" /\ Stop
  BY <1>1, <1>2 DEF Stop
<1>3. CASE phase # "trash"
  <2> DEFINE left == IF phase = "collections" THEN known ELSE todo
  <2>1. left \subseteq Collections /\ phase \notin left
    BY <1>1
  <2>2. CASE \E c \in left : EnterLoop(c) /\ todo' = left \ {c}
    BY <2>1, <2>2 DEF EnterLoop, ReadCursor
  <2>3. CASE EnterLoop("trash") /\ todo' = {}
    BY <1>3, <2>3 DEF EnterLoop, ReadCursor
  <2> QED BY <1>3, <2>2, <2>3 DEF LeaveLoop
<1> QED BY <1>2, <1>3 DEF LeaveLoop

\* No page is in hand: it is enough that the cursors are behind, and the next
\* loop's beginning too.
LEMMA ReachNoPage ==
  ASSUME ReachInv, TypeInv', UNCHANGED server, step' = "fetch",
         \A k \in Keys : Behind(k, cursor'[k]),
         phase' \in Keys => since' <= cursor'[phase'],
         phase' \notin todo'
  PROVE  ReachInv'
BY DEF ReachInv, ClockInv, LoopInv, Behind, server

LEMMA ReachFetch == ASSUME ReachInv, TypeInv', FetchPage PROVE ReachInv'
<1>1. TypeInv /\ ClockInv /\ LoopInv
  BY DEF ReachInv
<1>2. UNCHANGED <<clock, visible, time, pending, cursor, phase, since, todo>>
  BY DEF FetchPage, server, database
<1>3. PICK rows \in SUBSET Matching(phase, since) : \E last \in rows : page' = Answer(rows, last)
  BY DEF FetchPage
<1>4. PICK last \in rows : page' = Answer(rows, last)
  BY <1>3
<1>5. /\ last \in Rows
      /\ visible[last] # "none" /\ (phase = "trash" => visible[last] = "archived")
  BY <1>3, <1>4 DEF Matching, Table, Wanted, Rows
<1>6. page'.latest <= time[last]
  <2>1. time[last] \in Nat
    BY <1>1, <1>5 DEF TypeInv, TypeOK
  <2> QED BY <1>4, <2>1, FloorNat DEF Answer
<1>7. Behind(phase, page'.latest)
  BY <1>5, <1>6 DEF Behind
<1> QED BY <1>1, <1>2, <1>7 DEF ReachInv, ClockInv, LoopInv, Behind

\* Every step keeps it.
LEMMA ReachStep == ReachInv /\ [Next]_vars => ReachInv'
<1> SUFFICES ASSUME ReachInv, [Next]_vars PROVE ReachInv'
  OBVIOUS
<1>1. TypeInv /\ ClockInv /\ LoopInv /\ TypeInv'
  BY TypeStep DEF ReachInv
<1>2. /\ cursor \in [Keys -> Nat] /\ page.latest \in Nat /\ "idle" \notin Keys
      /\ phase \in Keys \cup {"idle"}
      /\ "collections" \in Keys /\ todo \subseteq Collections
  BY <1>1, ConstantsAssumption DEF TypeInv, TypeOK, Keys
<1>3. CASE UNCHANGED vars
  BY <1>1, <1>3 DEF vars, server, database, sync, ReachInv, ClockInv, LoopInv, Behind
<1>4. CASE \E r \in Rows : BeginWrite(r) \/ CommitWrite(r)
  BY <1>1, <1>4, ReachServer
<1>5. CASE StartSync
  <2>1. /\ phase' = "collections" /\ todo' = {} /\ step' = "fetch"
        /\ since' \in {0, cursor["collections"]} /\ UNCHANGED <<server, cursor>>
    BY <1>5 DEF StartSync, EnterLoop, ReadCursor, database
  <2>2. since' <= cursor'[phase']
    BY <1>2, <2>1
  <2> QED BY <1>1, <2>1, <2>2, ReachNoPage DEF LoopInv
<1>6. CASE FetchRefused \/ FailCollections \/ FailFiles \/ Interrupt
  BY <1>1, <1>2, <1>6, ReachNoPage
     DEF FetchRefused, FailCollections, FailFiles, Interrupt, Stop, database, LoopInv
<1>7. CASE FetchEmptyPage
  <2>1. UNCHANGED <<server, cursor>> /\ phase # "idle" /\ LeaveLoop
    BY <1>7 DEF FetchEmptyPage, Fetching, database
  <2>2. phase' \in Keys => since' <= cursor'[phase']
    BY <1>1, <1>2, <2>1, NextLoop
  <2> QED BY <1>1, <2>1, <2>2, NextLoop, ReachNoPage DEF LoopInv
<1>8. CASE FetchPage
  BY <1>1, <1>8, ReachFetch
<1>9. CASE UpsertCollections \/ UpsertFiles \/ ArchiveFiles
  <2>1. /\ UNCHANGED <<clock, visible, time, pending, cursor, phase, since, todo, page>>
        /\ step # "fetch"
    BY <1>9 DEF UpsertCollections, UpsertFiles, ArchiveFiles, Applying, server
  <2> QED BY <1>1, <2>1 DEF ReachInv, ClockInv, LoopInv, Behind
<1>10. CASE SaveCursor
  <2>1. /\ phase \in Keys /\ UNCHANGED server
        /\ cursor' = [cursor EXCEPT ![phase] = page.latest]
        /\ Behind(phase, page.latest)
    BY <1>1, <1>2, <1>10 DEF SaveCursor, WriteCursor, LoopInv
  <2>2. \A k \in Keys : cursor'[k] = IF k = phase THEN page.latest ELSE cursor[k]
    BY <1>2, <2>1
  <2>3. \A k \in Keys : Behind(k, cursor'[k])
    BY <1>1, <2>1, <2>2 DEF LoopInv
  <2>4. CASE since' = page.latest /\ step' = "fetch" /\ UNCHANGED <<phase, todo>>
    <3>1. since' <= cursor'[phase'] /\ phase' \notin todo'
      BY <1>1, <1>2, <2>1, <2>2, <2>4 DEF LoopInv
    <3> QED BY <1>1, <2>1, <2>3, <2>4, <3>1, ReachNoPage
  <2>5. CASE LeaveLoop
    <3>1. /\ step' = "fetch" /\ phase' \notin todo'
          /\ phase' \in Keys => phase' # phase /\ since' \in {0, cursor[phase']}
      BY <1>1, <1>2, <2>1, <2>5, NextLoop
    <3>2. phase' \in Keys => since' <= cursor'[phase']
      BY <1>2, <2>2, <3>1
    <3> QED BY <1>1, <2>1, <2>3, <3>1, <3>2, ReachNoPage
  <2> QED BY <1>10, <2>4, <2>5 DEF SaveCursor
<1> QED
  BY <1>3, <1>4, <1>5, <1>6, <1>7, <1>8, <1>9, <1>10 DEF Next, Proceed

LEMMA ReachInit == Init => ReachInv
<1> SUFFICES ASSUME Init PROVE ReachInv
  OBVIOUS
<1>1. TypeInv
  BY TypeInit
<1>2. ClockInv
  BY DEF Init, ClockInv
<1>3. LoopInv
  BY ConstantsAssumption DEF Init, LoopInv, Behind, Keys
<1> QED BY <1>1, <1>2, <1>3 DEF ReachInv

-----------------------------------------------------------------------------
(* Steps that put a file behind a loop *)

\* A row that becomes visible, or archived, behind a loop is late.
LEMMA CommitBehind ==
  ASSUME ReachInv, NEW f \in Files, NEW k \in Keys, CommitWrite(f),
         IF k = "trash" THEN visible[f] # "archived" ELSE visible[f] = "none",
         Reached(k, f)'
  PROVE  CommitsLate(f)
<1>1. TypeInv /\ LoopInv /\ f \in Rows
  BY DEF ReachInv, Rows
<1>2. /\ pending[f] # 0 /\ time' = [time EXCEPT ![f] = pending[f]]
      /\ pending' = [pending EXCEPT ![f] = 0]
      /\ UNCHANGED <<cursor, phase, step, page>>
  BY DEF CommitWrite, database, sync
<1>3. /\ time'[f] = pending[f] /\ pending'[f] = 0 /\ pending[f] \in Nat
      /\ cursor[k] \in Nat /\ page.latest \in Nat /\ time \in [Rows -> Nat]
  BY <1>1, <1>2 DEF TypeInv, TypeOK
<1>4. PICK t \in Nat : pending[f] <= t /\ Behind(k, t)
  BY <1>1, <1>2, <1>3 DEF Reached, LoopInv
<1>5. t # 0
  BY <1>2, <1>3, <1>4
<1>6. PICK q \in Rows : /\ visible[q] # "none"
                        /\ k = "trash" => visible[q] = "archived"
                        /\ t <= time[q]
  BY <1>4, <1>5 DEF Behind
<1>7. q # f
  BY <1>6
<1>8. time[q] >= pending[f]
  BY <1>3, <1>4, <1>6
<1> QED BY <1>2, <1>3, <1>6, <1>7, <1>8 DEF CommitsLate

\* A page that ends behind a row it should list, and does not, ends at its
\* instant.
LEMMA FetchBehind ==
  ASSUME ReachInv, NEW f \in Files, NEW k \in Keys \ {"collections"}, FetchPage,
         visible[f] = Wanted(k), Reached(k, f)', ~Reached(k, f)
  PROVE  SharesEnd(f)
<1>1. TypeInv /\ LoopInv /\ f \in Rows
  BY DEF ReachInv, Rows
<1>2. /\ UNCHANGED <<time, cursor, phase>>
      /\ step = "fetch"
  BY DEF FetchPage, Fetching, server, database
<1>3. /\ phase = k /\ time[f] > cursor[k]
      /\ time[f] <= page'.latest /\ f \notin page'.rows
  <2>1. time[f] \in Nat /\ cursor[k] \in Nat
    BY <1>1 DEF TypeInv, TypeOK
  <2>2. step' = "apply"
    BY DEF FetchPage
  <2> QED BY <1>2, <2>1, <2>2 DEF Reached
<1>4. PICK rows \in SUBSET Matching(phase, since) : \E last \in rows :
             IsPage(phase, since, rows) /\ page' = Answer(rows, last)
  BY DEF FetchPage
<1>5. PICK last \in rows : IsPage(phase, since, rows) /\ page' = Answer(rows, last)
  BY <1>4
<1>6. page'.rows = rows /\ page'.latest = Floor(time[last]) /\ last \in Rows
  BY <1>4, <1>5 DEF Answer, Matching, Table, Rows
<1>7. /\ time[f] \in Nat /\ time[last] \in Nat
      /\ Floor(time[last]) \in Nat /\ Floor(time[last]) <= time[last]
  BY <1>1, <1>6, FloorNat DEF TypeInv, TypeOK
<1>8. f \in Matching(phase, since)
  <2>1. time[f] > since
    <3>1. since <= cursor[k] /\ since \in Nat /\ cursor[k] \in Nat
      BY <1>1, <1>3 DEF LoopInv, TypeInv, TypeOK
    <3> QED BY <1>3, <1>7, <3>1
  <2> QED BY <1>3, <2>1 DEF Matching, Table
<1>9. Before(last, f)
  BY <1>3, <1>5, <1>6, <1>8 DEF IsPage
<1>10. time[last] = time[f] /\ page'.latest = time[f]
  BY <1>3, <1>6, <1>7, <1>9 DEF Before
<1> QED BY <1>2, <1>3, <1>5, <1>6, <1>10 DEF SharesEnd

\* No other step puts a file behind a loop, unless it has applied the page
\* that holds the file.
LEMMA OthersReach ==
  ASSUME ReachInv, StartSync \/ Interrupt \/ (Proceed /\ ~FetchPage),
         NEW f \in Files, NEW k \in Keys, Reached(k, f)'
  PROVE  \/ Reached(k, f)
         \/ phase = k /\ step = "apply" /\ step' = "save" /\ f \in page.rows
<1>1. TypeInv /\ LoopInv
  BY DEF ReachInv
<1>2. /\ time' = time
      /\ cursor \in [Keys -> Nat] /\ "idle" \notin Keys /\ phase \in Keys \cup {"idle"}
  BY <1>1, ConstantsAssumption
     DEF TypeInv, TypeOK, StartSync, Interrupt, Proceed, FetchRefused, FetchEmptyPage,
         UpsertCollections, FailCollections, UpsertFiles, FailFiles, ArchiveFiles, SaveCursor,
         server
<1>3. CASE cursor' = cursor /\ step' = "fetch"
  BY <1>2, <1>3 DEF Reached
<1>4. CASE StartSync \/ Interrupt \/ FetchRefused \/ FailCollections \/ FailFiles
  BY <1>3, <1>4
     DEF StartSync, Interrupt, FetchRefused, FailCollections, FailFiles, Stop, EnterLoop,
         database
<1>5. CASE FetchEmptyPage
  BY <1>1, <1>3, <1>5, NextLoop DEF FetchEmptyPage, Fetching, database
<1>6. CASE UpsertCollections \/ UpsertFiles \/ ArchiveFiles
  <2>1. UNCHANGED <<cursor, phase, page>> /\ step = "apply" /\ step' = "save"
    BY <1>6 DEF UpsertCollections, UpsertFiles, ArchiveFiles, Applying
  <2> QED BY <1>2, <2>1 DEF Reached
<1>7. CASE SaveCursor
  <2>1. /\ cursor' = [cursor EXCEPT ![phase] = page.latest] /\ step = "save"
        /\ phase \in Keys
    BY <1>2, <1>7 DEF SaveCursor, WriteCursor
  <2>2. step' = "fetch"
    BY <1>1, <1>7, NextLoop DEF SaveCursor
  <2>3. time[f] <= cursor'[k]
    BY <1>2, <2>2 DEF Reached
  <2>4. cursor'[k] = IF k = phase THEN page.latest ELSE cursor[k]
    BY <1>2, <2>1
  <2> QED BY <2>1, <2>3, <2>4 DEF Reached
<1> QED BY <1>4, <1>5, <1>6, <1>7 DEF Proceed

-----------------------------------------------------------------------------
(* The theorems *)

\* What another statement writes does not matter to f.
LEMMA ServerElsewhere ==
  ASSUME TypeInv, NEW f \in Files,
         NEW r \in Rows, BeginWrite(r) \/ (CommitWrite(r) /\ r # f)
  PROVE  /\ visible'[f] = visible[f] /\ time'[f] = time[f]
         /\ UNCHANGED <<local, cursor, phase, step, page>>
BY DEF BeginWrite, CommitWrite, database, sync, TypeInv, TypeOK, Rows

LEMMA SkipStep ==
  ASSUME ReachInv, MirrorInv, [Next]_vars,
         NEW f \in Files \cap Readable, NEW c \in Collections,
         Skipped(f, c)', ~Skipped(f, c)
  PROVE  CommitsLate(f) \/ SharesEnd(f)
<1>1. TypeInv /\ f \in Files /\ c \in Keys /\ c # "trash" /\ c # "collections"
  BY ConstantsAssumption DEF ReachInv, Keys
<1>2. visible'[f] = "live" /\ local'[f] # "present" /\ Reached(c, f)'
  BY DEF Skipped
<1>3. CASE UNCHANGED vars
  BY <1>3 DEF vars, server, database, sync, Skipped, Reached
<1>4. ASSUME NEW r \in Rows, BeginWrite(r) \/ (CommitWrite(r) /\ r # f) PROVE FALSE
  BY <1>1, <1>2, <1>4, ServerElsewhere DEF Skipped, Reached
<1>5. CASE CommitWrite(f)
  <2>1. visible[f] = "none"
    BY <1>1, <1>2, <1>5 DEF CommitWrite, TypeInv, TypeOK, Rows
  <2> QED BY <1>1, <1>2, <1>5, <2>1, CommitBehind
<1>6. CASE FetchPage
  <2>1. UNCHANGED <<visible, local>>
    BY <1>6 DEF FetchPage, server, database
  <2>2. visible[f] = Wanted(c) /\ ~Reached(c, f)
    BY <1>1, <1>2, <2>1 DEF Wanted, Skipped
  <2> QED BY <1>1, <1>2, <1>6, <2>2, FetchBehind
<1>7. CASE StartSync \/ Interrupt \/ (Proceed /\ ~FetchPage)
  <2>1. visible' = visible
    BY <1>7
       DEF StartSync, Interrupt, Proceed, FetchRefused, FetchEmptyPage, UpsertCollections,
           FailCollections, UpsertFiles, FailFiles, ArchiveFiles, SaveCursor, server
  <2>2. local[f] # "present"
    <3>1. CASE local' = local
      BY <1>2, <3>1
    <3>2. CASE UpsertFiles
      BY <1>1, <1>2, <3>2 DEF UpsertFiles, Upserted
    <3>3. CASE ArchiveFiles
      <4>1. f \notin page.rows
        BY <1>2, <2>1, <3>3 DEF ArchiveFiles, Applying, MirrorInv
      <4> QED BY <1>1, <1>2, <3>3, <4>1 DEF ArchiveFiles, Archived
    <3> QED
      BY <1>7, <3>1, <3>2, <3>3
         DEF StartSync, Interrupt, Proceed, FetchRefused, FetchEmptyPage, UpsertCollections,
             FailCollections, FailFiles, SaveCursor, database
  <2>3. ~Reached(c, f)
    BY <1>2, <2>1, <2>2 DEF Skipped
  <2>4. phase = c /\ step = "apply" /\ step' = "save" /\ f \in page.rows
    BY <1>1, <1>2, <1>7, <2>3, OthersReach
  <2>5. UpsertFiles
    BY <1>1, <1>7, <2>4, LeaveLoopType
       DEF StartSync, Interrupt, Proceed, FetchRefused, FetchEmptyPage, Fetching,
           UpsertCollections, FailCollections, FailFiles, ArchiveFiles, SaveCursor, Applying,
           Stop, EnterLoop
  <2>6. local'[f] = "present"
    BY <2>4, <2>5 DEF UpsertFiles, Upserted, Decrypted
  <2> QED BY <1>2, <2>6
<1> QED BY <1>3, <1>4, <1>5, <1>6, <1>7 DEF Next, Proceed

\* No loop goes past a readable file the client does not have, whatever fails,
\* is interrupted or is written while a page is on its way, however the
\* statements overlap, except at a statement that commits after a later one and
\* at a page cut between rows of one instant.
THEOREM CursorsSkipNothing == Spec => NothingSkipped
<1>1. Init => MirrorInv
  BY DEF Init, MirrorInv, Rows
<1>2. ReachInv /\ MirrorInv /\ [Next]_vars => MirrorInv'
  BY MirrorStep DEF ReachInv
<1>3. ReachInv /\ MirrorInv /\ [Next]_vars =>
        [\A f \in Files \cap Readable, c \in Collections :
           Skipped(f, c)' /\ ~Skipped(f, c) => CommitsLate(f) \/ SharesEnd(f)]_vars
  BY SkipStep
<1> QED BY <1>1, <1>2, <1>3, ReachInit, ReachStep, PTL DEF Spec, NothingSkipped

LEMMA UndeadStep ==
  ASSUME ReachInv, MirrorInv, [Next]_vars, NEW f \in Files, Undead(f)', ~Undead(f)
  PROVE  CommitsLate(f) \/ SharesEnd(f)
<1>1. /\ TypeInv /\ "trash" \in Keys \ {"collections"} /\ "trash" \notin Collections
      /\ "collections" \notin Collections
  BY ConstantsAssumption DEF ReachInv, Keys
<1>2. /\ visible'[f] = "archived" /\ Reached("trash", f)'
      /\ local'[f] = "present" \/ InHand(f)'
  BY DEF Undead
<1>3. CASE UNCHANGED vars
  BY <1>3 DEF vars, server, database, sync, Undead, InHand, Reached
<1>4. ASSUME NEW r \in Rows, BeginWrite(r) \/ (CommitWrite(r) /\ r # f) PROVE FALSE
  BY <1>1, <1>2, <1>4, ServerElsewhere DEF Undead, InHand, Decrypted, Reached
<1>5. CASE CommitWrite(f)
  <2>1. visible[f] # "archived"
    BY <1>1, <1>5 DEF CommitWrite, MirrorInv, Rows
  <2> QED BY <1>1, <1>2, <1>5, <2>1, CommitBehind
<1>6. CASE FetchPage
  <2>1. UNCHANGED <<visible, local, phase>>
    BY <1>6 DEF FetchPage, server, database
  <2>2. ~InHand(f)'
    <3>1. SUFFICES ASSUME phase \in Collections, f \in page'.rows PROVE FALSE
      BY <2>1 DEF InHand, Decrypted
    <3>2. visible[f] = "live"
      BY <1>1, <1>6, <3>1 DEF FetchPage, Answer, Matching, Wanted
    <3> QED BY <1>2, <2>1, <3>2
  <2>3. visible[f] = Wanted("trash") /\ ~Reached("trash", f)
    BY <1>2, <2>1, <2>2 DEF Wanted, Undead
  <2> QED BY <1>1, <1>2, <1>6, <2>3, FetchBehind
<1>7. CASE StartSync \/ Interrupt \/ (Proceed /\ ~FetchPage)
  <2>1. /\ visible' = visible
        /\ step' # "apply"
    BY <1>1, <1>7, LeaveLoopType
       DEF StartSync, Interrupt, Proceed, FetchRefused, FetchEmptyPage, Fetching,
           UpsertCollections, FailCollections, UpsertFiles, FailFiles, ArchiveFiles,
           SaveCursor, Stop, EnterLoop, server
  <2>2. local'[f] = "present"
    BY <1>2, <2>1 DEF InHand
  <2>3. local[f] = "present" \/ InHand(f)
    BY <1>1, <1>7, <2>2
       DEF StartSync, Interrupt, Proceed, FetchRefused, FetchEmptyPage, UpsertCollections,
           FailCollections, UpsertFiles, FailFiles, ArchiveFiles, SaveCursor, Applying,
           Upserted, Archived, InHand, database
  <2>4. ~Reached("trash", f)
    BY <1>2, <2>1, <2>3 DEF Undead
  <2>5. phase = "trash" /\ step = "apply" /\ step' = "save" /\ f \in page.rows
    BY <1>1, <1>2, <1>7, <2>4, OthersReach
  <2>6. ArchiveFiles
    BY <1>1, <1>7, <2>5, LeaveLoopType
       DEF StartSync, Interrupt, Proceed, FetchRefused, FetchEmptyPage, Fetching,
           UpsertCollections, FailCollections, UpsertFiles, FailFiles, SaveCursor, Applying,
           Stop, EnterLoop
  <2>7. local'[f] # "present"
    BY <2>5, <2>6 DEF ArchiveFiles, Archived
  <2> QED BY <2>2, <2>7
<1> QED BY <1>3, <1>4, <1>5, <1>6, <1>7 DEF Next, Proceed

\* The trash loop goes past no deletion the client has not carried out, and no
\* page of files brings an archived file back behind it, except in those two
\* ways.
THEOREM DeletionsStay == Spec => NothingUndead
<1>1. Init => MirrorInv
  BY DEF Init, MirrorInv, Rows
<1>2. ReachInv /\ MirrorInv /\ [Next]_vars => MirrorInv'
  BY MirrorStep DEF ReachInv
<1>3. ReachInv /\ MirrorInv /\ [Next]_vars =>
        [\A f \in Files : Undead(f)' /\ ~Undead(f) => CommitsLate(f) \/ SharesEnd(f)]_vars
  BY UndeadStep
<1> QED BY <1>1, <1>2, <1>3, ReachInit, ReachStep, PTL DEF Spec, NothingUndead
=============================================================================
