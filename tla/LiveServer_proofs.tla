------------------------- MODULE LiveServer_proofs -------------------------
(***************************************************************************)
(* The live helper neither loses, copies nor forgets a request, for any    *)
(* number of sessions, agents, tabs and faults.                            *)
(*                                                                         *)
(* The queue is cut in two places: an exit leaves it when it is handed     *)
(* out, and an answer takes the first entry of its session away.  Both are *)
(* Picked, of which Places_proofs says what it keeps.                      *)
(***************************************************************************)
EXTENDS LiveServer, Places_proofs

-----------------------------------------------------------------------------
(* The queue *)

\* The first n available entries are all there are, if they do not suffice
\* for the n polls that wait.
LEMMA FirstAvailableFacts ==
  ASSUME NEW m \in Nat, NEW q, DOMAIN q = 1..m,
         NEW W, IsFiniteSet(W), NEW a \in W,
         NEW to \in Injection(FirstAvailable(q, Cardinality(W)), W),
         a \notin Range(to)
  PROVE  FirstAvailable(q, Cardinality(W)) = Available(q)
<1> DEFINE A == Available(q)
           n == Cardinality(W)
           F == FirstAvailable(q, n)
           Before(k) == {j \in A : j < k}
           Upto(k) == {j \in A : j <= k}
<1>1. A \in SUBSET (1..m) /\ \A k \in A : k \in Nat
  BY DEF Available
<1>2. /\ IsFiniteSet(A) /\ Cardinality(A) \in Nat
      /\ \A k \in A : Rank(A, k) \in 1..Cardinality(A)
      /\ \A i \in 1..Cardinality(A) : \E k \in A : Rank(A, k) = i
      /\ \A j, k \in A : j < k => Rank(A, j) < Rank(A, k)
  <2> HIDE DEF A
  <2> QED BY <1>1, RankOnto
<1>3. F = {k \in A : Cardinality(Before(k)) < n} /\ F \in SUBSET A
  BY DEF FirstAvailable
<1>4. n \in Nat
  BY FS_CardinalityType
<1>5. ASSUME NEW k \in A
      PROVE  /\ Cardinality(Before(k)) \in Nat
             /\ Cardinality(Before(k)) < Rank(A, k)
  <2> HIDE DEF A
  <2>1. IsFiniteSet(Upto(k)) /\ k \in Upto(k)
    <3>1. Upto(k) \in SUBSET A
      OBVIOUS
    <3>2. k \in Upto(k)
      BY <1>1
    <3> HIDE DEF Upto
    <3> QED BY <1>2, <3>1, <3>2, FS_Subset
  <2>2. Before(k) = Upto(k) \ {k}
    <3>1. \A j \in A : j < k <=> (j <= k /\ j # k)
      BY <1>1
    <3> QED BY <3>1
  <2>3. /\ IsFiniteSet(Before(k))
        /\ Cardinality(Before(k)) = Cardinality(Upto(k)) - 1
    <3> HIDE DEF Before, Upto
    <3> QED BY <2>1, <2>2, FS_RemoveElement
  <2>4. Cardinality(Before(k)) \in Nat /\ Cardinality(Upto(k)) \in Nat
    <3> HIDE DEF Before, Upto
    <3> QED BY <2>1, <2>3, FS_CardinalityType
  <2>5. Cardinality(Upto(k)) = Rank(A, k)
    BY DEF Rank
  <2> HIDE DEF Before, Upto
  <2> QED BY <2>3, <2>4, <2>5
<1>6. CASE Cardinality(A) < n
  <2>1. ASSUME NEW k \in A
        PROVE  Cardinality(Before(k)) < n
    <3> HIDE DEF A, n, Before
    <3> QED BY <1>2, <1>4, <1>5, <1>6
  <2> HIDE DEF A, n, F, Before
  <2>2. F = A
    BY <1>3, <2>1
  <2> QED BY <2>2 DEF F, A, n
<1>7. CASE ~(Cardinality(A) < n)
  <2>0. n # 0
    BY FS_EmptySet
  <2>1. PICK k \in A : Rank(A, k) = n
    <3>1. n \in 1..Cardinality(A)
      <4> HIDE DEF A, n
      <4> QED BY <1>2, <1>4, <1>7, <2>0
    <3> HIDE DEF A, n
    <3> QED BY <1>2, <3>1
  <2>2. Upto(k) \in SUBSET F
    <3> SUFFICES ASSUME NEW j \in A, j <= k
                 PROVE  Cardinality(Before(j)) < n
      <4> HIDE DEF A, n, F, Before
      <4> QED BY <1>3
    <3>1. Rank(A, j) \in Nat /\ Rank(A, j) <= Rank(A, k)
      <4> HIDE DEF A
      <4>1. j = k \/ j < k
        BY <1>1
      <4>2. Rank(A, j) \in Nat /\ Rank(A, k) \in Nat
        BY <1>2
      <4> QED BY <1>2, <4>1, <4>2
    <3> HIDE DEF A, n, F, Before
    <3> QED BY <1>4, <1>5, <2>1, <3>1
  <2>3. IsFiniteSet(F) /\ Cardinality(F) <= n /\ (Cardinality(F) = n <=> to \in Surjection(F, W))
    <3>1. to \in Injection(F, W)
      OBVIOUS
    <3> HIDE DEF F, n
    <3> QED BY <3>1, FS_Injection DEF n
  <2>4. Cardinality(Upto(k)) = n
    BY <2>1 DEF Rank
  <2>5. Cardinality(F) = n
    <3>1. Cardinality(Upto(k)) <= Cardinality(F) /\ Cardinality(F) \in Nat
      <4> HIDE DEF F, Upto
      <4> QED BY <2>2, <2>3, FS_Subset, FS_CardinalityType
    <3> HIDE DEF F, n, Upto
    <3> QED BY <1>4, <2>3, <2>4, <3>1
  <2>6. \E k2 \in F : to[k2] = a
    <3> HIDE DEF F, n
    <3> QED BY <2>3, <2>5 DEF Surjection
  <2>7. DOMAIN to = F
    <3> HIDE DEF F, n
    <3> QED BY <2>3, <2>5 DEF Surjection
  <2> QED BY <2>6, <2>7 DEF Range
<1> QED BY <1>6, <1>7

-----------------------------------------------------------------------------
(* What leases and answers do to the queue *)

\* The requests in the queue q.
InQueue(q) == {<<q[k].id, q[k].type>> : k \in DOMAIN q \ Exits(q)}

\* None of them is there twice.
Once(q) ==
  \A k, l \in DOMAIN q : q[k].id # NoId /\ q[k].id = q[l].id /\ q[k].type = q[l].type => k = l

Leases == {"free", "held", "expired"}
Records == [id : Ids \cup {NoId}, type : Requests \cup {"exit"}, lease : Leases]

LEMMA EntryFacts ==
  /\ \A e \in Entries : e \in Records
  /\ \A e \in Records : e \in Entries <=>
       \/ e.id \in Ids /\ e.type \in Requests
       \/ e.id = NoId /\ e.type = "exit" /\ e.lease = "free"
BY DEF Entries, Records, Leases

LEMMA MarkFacts ==
  ASSUME NEW q, NEW m \in Nat, DOMAIN q = 1..m, \A k \in 1..m : q[k] \in Records,
         NEW S, NEW l \in Leases
  PROVE  /\ DOMAIN Mark(q, S, l) = 1..m
         /\ \A k \in 1..m :
              /\ Mark(q, S, l)[k] \in Records
              /\ Mark(q, S, l)[k].id = q[k].id /\ Mark(q, S, l)[k].type = q[k].type
              /\ k \in S => Mark(q, S, l)[k].lease = l
              /\ k \notin S => Mark(q, S, l)[k] = q[k]
<1>1. ASSUME NEW e \in Records
      PROVE  /\ [e EXCEPT !.lease = l] \in Records
             /\ [e EXCEPT !.lease = l].id = e.id /\ [e EXCEPT !.lease = l].type = e.type
             /\ [e EXCEPT !.lease = l].lease = l
  BY DEF Records
<1>2. /\ DOMAIN Mark(q, S, l) = 1..m
      /\ \A k \in 1..m :
           Mark(q, S, l)[k] = IF k \in S THEN [q[k] EXCEPT !.lease = l] ELSE q[k]
  BY DEF Mark
<1> QED BY <1>1, <1>2

\* What is picked of a queue keeps its requests if every place that is left
\* out holds an exit, and duplicates nothing.
LEMMA PickedRequests ==
  ASSUME NEW q, NEW m \in Nat, DOMAIN q = 1..m, NEW S \in SUBSET (1..m),
         \A k \in S : q[k] \in Entries
  PROVE  /\ Picked(q, S) \in Seq(Entries)
         /\ InQueue(Picked(q, S)) = {<<q[k].id, q[k].type>> : k \in S \ Exits(q)}
         /\ Once(q) => Once(Picked(q, S))
         /\ \A n \in DOMAIN Picked(q, S) : \E k \in S : Picked(q, S)[n] = q[k]
<1> DEFINE p == Picked(q, S)
<1>1. p \in Seq(Entries) /\ \E f : Picks(f, p, q, S)
  BY PickedFacts
<1>2. PICK f : Picks(f, p, q, S)
  BY <1>1
<1> HIDE DEF p
<1>3. \A n \in DOMAIN p : f[n] \in S /\ f[n] \in DOMAIN q
  BY <1>2 DEF Picks
<1>4. InQueue(p) = {<<q[k].id, q[k].type>> : k \in S \ Exits(q)}
  <2>1. ASSUME NEW n \in DOMAIN p \ Exits(p)
        PROVE  f[n] \in S \ Exits(q) /\ p[n] = q[f[n]]
    BY <1>2, <1>3 DEF Exits, Picks
  <2>2. ASSUME NEW k \in S \ Exits(q)
        PROVE  \E n \in DOMAIN p \ Exits(p) : p[n] = q[k]
    BY <1>2, <1>3 DEF Exits, Picks
  <2> QED BY <2>1, <2>2 DEF InQueue
<1>5. ASSUME Once(q) PROVE Once(p)
  BY <1>2, <1>3, <1>5 DEF Once, Picks
<1>6. \A n \in DOMAIN p : \E k \in S : p[n] = q[k]
  BY <1>2, <1>3 DEF Picks
<1> QED BY <1>1, <1>4, <1>5, <1>6 DEF p

\* The entries of p come from q, those at the places in S with a new lease
\* and of the others those in late with one that has ended.
Handed(p, q, S, late) ==
  \A n \in DOMAIN p : \E k \in DOMAIN q :
    /\ k \in S => p[n].lease = "held"
    /\ k \notin S /\ k \in late => p[n].lease = "expired"
    /\ k \notin S /\ k \notin late => p[n].lease = q[k].lease

\* Leases that end and leases that begin change no request.
LEMMA LeasedFacts ==
  ASSUME NEW q \in Seq(Entries), NEW S \in SUBSET (DOMAIN q), NEW late \in SUBSET Held(q)
  PROVE  LET p == Leased(Mark(q, late, "expired"), S)
         IN  /\ p \in Seq(Entries)
             /\ InQueue(p) = InQueue(q)
             /\ Once(q) => Once(p)
             /\ Handed(p, q, S, late)
<1> DEFINE m == Len(q)
           x == Mark(q, late, "expired")
           y == Mark(x, S, "held")
           D == {k \in DOMAIN x : k \in S => x[k].id # NoId}
           p == Picked(y, D)
<1>1. m \in Nat /\ DOMAIN q = 1..m /\ \A k \in 1..m : q[k] \in Entries /\ q[k] \in Records
  BY LenProperties, ElementOfSeq, EntryFacts
<1>2. /\ DOMAIN x = 1..m
      /\ \A k \in 1..m :
           /\ x[k] \in Records /\ x[k].id = q[k].id /\ x[k].type = q[k].type
           /\ k \in late => x[k].lease = "expired"
           /\ k \notin late => x[k] = q[k]
  <2> HIDE DEF m
  <2>1. "expired" \in Leases
    BY DEF Leases
  <2> QED BY <1>1, <2>1, MarkFacts
<1>3. /\ DOMAIN y = 1..m
      /\ \A k \in 1..m :
           /\ y[k] \in Records /\ y[k].id = x[k].id /\ y[k].type = x[k].type
           /\ k \in S => y[k].lease = "held"
           /\ k \notin S => y[k] = x[k]
  <2> HIDE DEF m, x
  <2>1. "held" \in Leases
    BY DEF Leases
  <2> QED BY <1>1, <1>2, <2>1, MarkFacts
<1>4. Leased(x, S) = p
  BY DEF Leased
<1> HIDE DEF m, x, y
<1>5. \A k \in late : q[k].lease = "held"
  BY DEF Held
<1>6. D \in SUBSET (1..m) /\ \A k \in D : y[k] \in Entries
  <2>1. D \in SUBSET (1..m)
    BY <1>2
  <2>2. ASSUME NEW k \in D PROVE y[k] \in Entries
    <3>1. k \in 1..m /\ (k \in S => q[k].id # NoId)
      BY <1>2
    <3>2. CASE q[k].id \in Ids /\ q[k].type \in Requests
      BY <1>2, <1>3, <3>1, <3>2, EntryFacts
    <3>3. CASE q[k].id = NoId /\ q[k].type = "exit" /\ q[k].lease = "free"
      <4>1. k \notin late /\ k \notin S
        BY <1>5, <3>1, <3>3
      <4> QED BY <1>1, <1>2, <1>3, <3>1, <4>1
    <3> QED BY <1>1, <3>1, <3>2, <3>3, EntryFacts
  <2> QED BY <2>1, <2>2
<1>7. /\ p \in Seq(Entries)
      /\ InQueue(p) = {<<y[k].id, y[k].type>> : k \in D \ Exits(y)}
      /\ Once(y) => Once(p)
      /\ \A n \in DOMAIN p : \E k \in D : p[n] = y[k]
  <2> HIDE DEF D
  <2> QED BY <1>1, <1>3, <1>6, PickedRequests
<1>8. \A k \in 1..m : y[k].id = q[k].id /\ y[k].type = q[k].type
  BY <1>2, <1>3
<1>9. InQueue(p) = InQueue(q)
  <2>1. D \ Exits(y) = DOMAIN q \ Exits(q)
    BY <1>1, <1>2, <1>3, <1>8 DEF Exits
  <2> HIDE DEF D, p
  <2>2. {<<y[k].id, y[k].type>> : k \in D \ Exits(y)} = InQueue(q)
    BY <1>1, <1>8, <2>1 DEF InQueue
  <2> QED BY <1>7, <2>2
<1>10. ASSUME Once(q) PROVE Once(p)
  <2>1. Once(y)
    BY <1>1, <1>3, <1>8, <1>10 DEF Once
  <2> QED BY <1>7, <2>1
<1>11. ASSUME NEW n \in DOMAIN p
       PROVE  \E k \in DOMAIN q :
                /\ k \in S => p[n].lease = "held"
                /\ k \notin S /\ k \in late => p[n].lease = "expired"
                /\ k \notin S /\ k \notin late => p[n].lease = q[k].lease
  <2>1. PICK k \in D : p[n] = y[k]
    BY <1>7
  <2>2. k \in 1..m
    BY <1>6
  <2> HIDE DEF D, p
  <2> QED BY <1>1, <1>2, <1>3, <2>1, <2>2
<1>12. Handed(p, q, S, late)
  <2> HIDE DEF p, D
  <2> QED BY <1>11 DEF Handed
<1> HIDE DEF p, D
<1> QED BY <1>4, <1>7, <1>9, <1>10, <1>12 DEF x

\* An answer for session i takes one of its requests away, if it has one.
LEMMA AcknowledgedFacts ==
  ASSUME NEW q \in Seq(Entries), NEW i \in Ids, Once(q)
  PROVE  /\ Acknowledged(q, i) \in Seq(Entries)
         /\ Once(Acknowledged(q, i))
         /\ \/ /\ InQueue(Acknowledged(q, i)) = InQueue(q)
               /\ \A type \in Requests : <<i, type>> \notin InQueue(q)
            \/ \E type \in Requests :
                 /\ <<i, type>> \in InQueue(q)
                 /\ InQueue(Acknowledged(q, i)) = InQueue(q) \ {<<i, type>>}
<1> DEFINE m == Len(q)
           Mine == {k \in DOMAIN q : q[k].id = i}
           D == {k \in DOMAIN q : q[k].id = i => \E j \in DOMAIN q : j < k /\ q[j].id = i}
           p == Picked(q, D)
<1>1. /\ m \in Nat /\ DOMAIN q = 1..m
      /\ \A k \in 1..m : q[k] \in Entries /\ q[k] \in Records /\ k \in Nat
  BY LenProperties, ElementOfSeq, EntryFacts
<1>2. Acknowledged(q, i) = p
  BY DEF Acknowledged
<1> HIDE DEF m
<1>3. D \in SUBSET (1..m) /\ \A k \in D : q[k] \in Entries
  BY <1>1
<1>4. /\ p \in Seq(Entries)
      /\ InQueue(p) = {<<q[k].id, q[k].type>> : k \in D \ Exits(q)}
      /\ Once(q) => Once(p)
  <2> HIDE DEF D
  <2> QED BY <1>1, <1>3, PickedRequests
<1>5. NoId # i /\ \A k \in Mine : k \notin Exits(q)
  BY ConstantsAssumption DEF Exits
<1>6. CASE Mine = {}
  <2>1. D = DOMAIN q
    BY <1>6
  <2>2. InQueue(p) = InQueue(q)
    <3> HIDE DEF p, D
    <3> QED BY <1>4, <2>1 DEF InQueue
  <2>3. \A type \in Requests : <<i, type>> \notin InQueue(q)
    BY <1>6 DEF InQueue
  <2> HIDE DEF p, D, Mine
  <2> QED BY <1>2, <1>4, <2>2, <2>3
<1>7. CASE Mine # {}
  <2>1. PICK f \in Mine : \A j \in Mine : f <= j
    <3>1. Mine \in SUBSET (1..m)
      BY <1>1
    <3> HIDE DEF Mine
    <3> QED BY <1>1, <1>7, <3>1, FirstPlace
  <2>2. f \in DOMAIN q /\ q[f].id = i /\ f \in Nat
    BY <1>1
  <2>3. D = DOMAIN q \ {f}
    <3>1. f \notin D
      <4> SUFFICES ASSUME NEW j \in DOMAIN q, j < f, q[j].id = i PROVE FALSE
        BY <2>2
      <4>1. f <= j /\ j \in Nat
        BY <1>1, <2>1
      <4> QED BY <2>2, <4>1
    <3>2. ASSUME NEW k \in DOMAIN q, k # f
          PROVE  k \in D
      <4> SUFFICES ASSUME q[k].id = i PROVE f < k
        BY <2>2
      <4>1. f <= k /\ k \in Nat
        BY <1>1, <2>1
      <4> QED BY <2>2, <3>2, <4>1
    <3> QED BY <3>1, <3>2
  <2>4. q[f].type \in Requests
    BY <1>1, <1>5, <2>2, EntryFacts
  <2>5. <<i, q[f].type>> \in InQueue(q)
    BY <1>5, <2>1, <2>2 DEF InQueue
  <2>6. InQueue(p) = InQueue(q) \ {<<i, q[f].type>>}
    <3>1. ASSUME NEW k \in D \ Exits(q)
          PROVE  /\ <<q[k].id, q[k].type>> \in InQueue(q)
                 /\ <<q[k].id, q[k].type>> # <<i, q[f].type>>
      <4>1. k \in DOMAIN q \ Exits(q) /\ k # f /\ q[k].id # NoId
        BY <2>3 DEF Exits
      <4> HIDE DEF D, Mine
      <4>2. <<q[k].id, q[k].type>> \in InQueue(q)
        BY <4>1 DEF InQueue
      <4>3. ~(q[k].id = i /\ q[k].type = q[f].type)
        BY <2>2, <4>1 DEF Once
      <4> QED BY <4>2, <4>3
    <3>2. ASSUME NEW k \in DOMAIN q \ Exits(q), <<q[k].id, q[k].type>> # <<i, q[f].type>>
          PROVE  k \in D \ Exits(q)
      BY <2>2, <2>3, <3>2
    <3> HIDE DEF D, Mine, p
    <3> QED BY <1>4, <3>1, <3>2 DEF InQueue
  <2> HIDE DEF p, D, Mine
  <2> QED BY <1>2, <1>4, <2>4, <2>5, <2>6
<1> QED BY <1>6, <1>7

\* A new event comes to the end of the queue.
LEMMA AppendedFacts ==
  ASSUME NEW q \in Seq(Entries), NEW i, NEW type, Entry(i, type) \in Entries,
         ~Queued(q, i, type)
  PROVE  /\ Append(q, Entry(i, type)) \in Seq(Entries)
         /\ Once(q) => Once(Append(q, Entry(i, type)))
         /\ InQueue(Append(q, Entry(i, type))) =
              InQueue(q) \cup {x \in {<<i, type>>} : i # NoId}
<1> DEFINE m == Len(q)
           e == Entry(i, type)
           p == Append(q, e)
<1>1. /\ m \in Nat /\ DOMAIN q = 1..m
      /\ p \in Seq(Entries)
      /\ DOMAIN p = 1..(m + 1) /\ p[m + 1] = e /\ \A k \in 1..m : p[k] = q[k]
  <2>1. e \in Entries
    OBVIOUS
  <2> HIDE DEF e
  <2> QED BY <2>1, LenProperties, AppendProperties
<1>2. e.id = i /\ e.type = type
  BY DEF Entry
<1> HIDE DEF m, e, p
<1>3. \A k \in 1..(m + 1) : k \in 1..m \/ k = m + 1
  BY <1>1
<1>4. 1..m \subseteq 1..(m + 1) /\ m + 1 \in 1..(m + 1) /\ m + 1 \notin 1..m
  BY <1>1
<1>5. ASSUME Once(q) PROVE Once(p)
  <2> SUFFICES ASSUME NEW k \in 1..(m + 1), NEW l \in 1..(m + 1),
                      p[k].id # NoId, p[k].id = p[l].id, p[k].type = p[l].type
               PROVE  k = l
    BY <1>1 DEF Once
  <2>1. CASE k \in 1..m /\ l \in 1..m
    BY <1>1, <1>5, <2>1 DEF Once
  <2>2. CASE k = m + 1 /\ l \in 1..m
    BY <1>1, <1>2, <2>2 DEF Queued
  <2>3. CASE k \in 1..m /\ l = m + 1
    BY <1>1, <1>2, <2>3 DEF Queued
  <2> QED BY <1>3, <2>1, <2>2, <2>3
<1>6. InQueue(p) = InQueue(q) \cup {x \in {<<i, type>>} : i # NoId}
  <2>1. ASSUME NEW k \in 1..m
        PROVE  p[k] = q[k] /\ k \in DOMAIN p /\ (k \in Exits(p) <=> k \in Exits(q))
    BY <1>1, <1>4 DEF Exits
  <2>2. m + 1 \in DOMAIN p /\ (m + 1 \in Exits(p) <=> i = NoId) /\ <<p[m + 1].id, p[m + 1].type>> = <<i, type>>
    BY <1>1, <1>2, <1>4 DEF Exits
  <2> QED BY <1>1, <1>3, <1>4, <2>1, <2>2 DEF InQueue
<1> QED BY <1>1, <1>5, <1>6 DEF p, e

-----------------------------------------------------------------------------
(* The inductive invariant *)

\* A journal remembers a request only of an active session, so that what is
\* remembered and what a new server would restore are the same.
PendingIsActive == \A i \in Ids : journal[i].pending # "none" => IsActive(journal[i])

\* What a journal remembers is in the queue of the server that runs.
Remembered ==
  up => \A i \in Ids \ parted :
          journal[i].pending # "none" => <<i, journal[i].pending>> \in InQueue(queue)

\* While a poll waits, everything in the queue has been handed out; and if
\* there is anything, whether its lease runs or has ended, the timer is set.
WaitingIsServed ==
  Waiting(agent) # {} =>
    /\ \A k \in DOMAIN queue : queue[k].lease # "free"
    /\ DOMAIN queue # {} => leaseTimer \/ slipped

\* A server that is down has nothing and nobody waits for it.
DownIsEmpty == ~up => DOMAIN queue = {} /\ Waiting(agent) = {}

Inv == TypeOK /\ QueuedOnce /\ PendingIsActive /\ Remembered /\ WaitingIsServed /\ DownIsEmpty

LEMMA OnceIsQueuedOnce == QueuedOnce <=> Once(queue)
BY DEF QueuedOnce, Once

-----------------------------------------------------------------------------
(* Handing out *)

\* The polls in to's range are answered with an entry that can be answered.
LEMMA HandOutFacts ==
  ASSUME NEW q \in Seq(Entries), NEW late \in SUBSET Held(q),
         NEW ags \in [Agents -> AgentStates],
         NEW D \in SUBSET Available(q), NEW to \in [D -> Waiting(ags) \cup {a \in Agents : ags[a].pc = "idle"}],
         HandOut(Mark(q, late, "expired"), ags, to)
  PROVE  /\ queue' \in Seq(Entries)
         /\ InQueue(queue') = InQueue(q)
         /\ Once(q) => Once(queue')
         /\ Handed(queue', q, D, late)
         /\ agent' \in [Agents -> AgentStates]
         /\ Waiting(agent') = Waiting(ags) \ Range(to)
<1> DEFINE x == Mark(q, late, "expired")
           e(a) == x[CHOOSE k \in D : to[k] = a]
<1>0. DOMAIN to = D /\ Range(to) \subseteq Agents
  BY DEF Range, Waiting
<1>1. /\ queue' = Leased(x, D)
      /\ agent' = [a \in Agents |->
                     IF a \in Range(to) THEN Does("handling", e(a).id, e(a).type) ELSE ags[a]]
  BY <1>0 DEF HandOut
<1>2. D \in SUBSET (DOMAIN q) /\ \A k \in D : k \notin late
  BY DEF Available, Held
<1>3. /\ queue' \in Seq(Entries)
      /\ InQueue(queue') = InQueue(q)
      /\ Once(q) => Once(queue')
      /\ Handed(queue', q, D, late)
  <2> HIDE DEF x, e
  <2> QED BY <1>1, <1>2, LeasedFacts DEF x
<1>4. ASSUME NEW a \in Range(to)
      PROVE  e(a) \in Entries
  <2>1. PICK k \in D : to[k] = a
    BY <1>0 DEF Range
  <2>2. PICK l \in D : l = CHOOSE j \in D : to[j] = a
    BY <2>1
  <2>3. x[l] = q[l] /\ q[l] \in Entries
    BY <1>2, ElementOfSeq, LenProperties DEF Mark
  <2> HIDE DEF x
  <2> QED BY <2>2, <2>3
<1>5. ASSUME NEW a \in Agents
      PROVE  /\ agent'[a] \in AgentStates
             /\ a \in Range(to) => agent'[a].pc = "handling"
             /\ a \notin Range(to) => agent'[a] = ags[a]
  <2>1. CASE a \in Range(to)
    <3> DEFINE c == e(a)
    <3>1. c \in Entries
      BY <1>4, <2>1
    <3>2. agent'[a] = Does("handling", c.id, c.type)
      BY <1>1, <2>1
    <3> HIDE DEF c, e, x
    <3>3. (c.id \in Ids /\ c.type \in Requests) \/ (c.id = NoId /\ c.type = "exit")
      BY <3>1, EntryFacts
    <3> QED BY <2>1, <3>2, <3>3 DEF Does, AgentStates
  <2>2. CASE a \notin Range(to)
    <3> HIDE DEF e, x
    <3> QED BY <1>1, <2>2
  <2> QED BY <2>1, <2>2
<1>6. agent' \in [Agents -> AgentStates]
  <2>1. DOMAIN agent' = Agents /\ agent' = [a \in Agents |-> agent'[a]]
    <3> HIDE DEF e, x
    <3> QED BY <1>1
  <2> QED BY <1>5, <2>1
<1>7. Waiting(agent') = Waiting(ags) \ Range(to)
  BY <1>5 DEF Waiting
<1> QED BY <1>3, <1>6, <1>7

\* flushPendingPolls keeps every request, once, and leaves a poll waiting
\* only if everything has been handed out.
LEMMA FlushFacts ==
  ASSUME NEW q \in Seq(Entries), NEW ags \in [Agents -> AgentStates],
         slipped \in BOOLEAN, Flush(q, ags)
  PROVE  /\ queue' \in Seq(Entries)
         /\ InQueue(queue') = InQueue(q)
         /\ Once(q) => Once(queue')
         /\ agent' \in [Agents -> AgentStates]
         /\ leaseTimer' \in BOOLEAN /\ slipped' \in BOOLEAN
         /\ WaitingIsServed'
<1> DEFINE n == Cardinality(Waiting(ags))
           D == FirstAvailable(q, n)
<1>1. PICK late \in SUBSET Held(q), to \in Injection(D, Waiting(ags)) :
        /\ Slip(late)
        /\ HandOut(Mark(q, late, "expired"), ags, to)
        /\ leaseTimer' = Scheduled(queue', agent')
  BY DEF Flush
<1>2. D \in SUBSET Available(q)
  BY DEF FirstAvailable
<1>3. to \in [D -> Waiting(ags)] /\ DOMAIN to = D
  <2> HIDE DEF D
  <2> QED BY <1>1 DEF Injection
<1>4. /\ queue' \in Seq(Entries)
      /\ InQueue(queue') = InQueue(q)
      /\ Once(q) => Once(queue')
      /\ Handed(queue', q, D, late)
      /\ agent' \in [Agents -> AgentStates]
      /\ Waiting(agent') = Waiting(ags) \ Range(to)
  <2>1. to \in [D -> Waiting(ags) \cup {a \in Agents : ags[a].pc = "idle"}]
    <3> HIDE DEF D
    <3> QED BY <1>3
  <2> HIDE DEF D
  <2> QED BY <1>1, <1>2, <2>1, HandOutFacts
<1>5. leaseTimer' \in BOOLEAN
  BY <1>1 DEF Scheduled
<1>6. slipped' \in BOOLEAN /\ (late # {} => slipped')
  BY <1>1 DEF Slip
<1>7. WaitingIsServed'
  <2> SUFFICES ASSUME NEW a \in Waiting(agent')
               PROVE  /\ \A i \in DOMAIN queue' : queue'[i].lease # "free"
                      /\ DOMAIN queue' # {} => leaseTimer' \/ slipped'
    BY DEF WaitingIsServed, Waiting
  <2>1. D = Available(q)
    <3>1. a \in Waiting(ags) /\ a \notin Range(to)
      BY <1>4
    <3>2. Waiting(ags) \in SUBSET Agents
      BY DEF Waiting
    <3>3. IsFiniteSet(Waiting(ags))
      BY <3>2, ConstantsAssumption, FS_Subset
    <3>4. Len(q) \in Nat /\ DOMAIN q = 1..Len(q)
      BY LenProperties
    <3> QED BY <1>1, <3>1, <3>3, <3>4, FirstAvailableFacts
  <2>2. \A k \in DOMAIN q : k \notin D => q[k].lease = "held"
    BY <2>1 DEF Available, Held
  <2> HIDE DEF D
  <2>3. \A i \in DOMAIN queue' : queue'[i].lease = "held" \/ (queue'[i].lease = "expired" /\ late # {})
    BY <1>4, <2>2 DEF Handed
  <2>4. CASE late = {}
    <3>1. Held(queue') = DOMAIN queue'
      BY <2>3, <2>4 DEF Held
    <3>2. DOMAIN queue' # {} => leaseTimer'
      BY <1>1, <3>1 DEF Scheduled
    <3> QED BY <2>3, <3>2
  <2>5. CASE late # {}
    BY <1>6, <2>3, <2>5
  <2> QED BY <2>4, <2>5
<1> HIDE DEF D
<1> QED BY <1>4, <1>5, <1>6, <1>7

-----------------------------------------------------------------------------
(* What maps to which step of LiveDelivery *)

Delivers == [Delivery!Next]_(Delivery!vars)

SamePending == \A i \in Ids : journal'[i].pending = journal[i].pending

\* The journal of i remembers pending, the others what they did.
NowPending(i, pending) ==
  \A j \in Ids : journal'[j].pending = IF j = i THEN pending ELSE journal[j].pending

LEMMA RememberedMaps ==
  /\ SamePending => [i \in Ids |-> journal[i].pending]' = [i \in Ids |-> journal[i].pending]
  /\ \A i \in Ids : \A pending :
       NowPending(i, pending) =>
         [j \in Ids |-> journal[j].pending]' = [[j \in Ids |-> journal[j].pending] EXCEPT ![i] = pending]
BY DEF SamePending, NowPending

LEMMA SameRequests == Delivery!Requests = Requests
BY DEF Delivery!Requests, Requests

LEMMA DeliversNothing ==
  ASSUME InQueue(queue') = InQueue(queue), SamePending
  PROVE  Delivers
BY RememberedMaps DEF Delivers, Delivery!vars, InQueue

LEMMA DeliversRequest ==
  ASSUME NEW i \in Ids, NEW type \in Requests, NowPending(i, type),
         InQueue(queue') = InQueue(queue) \cup {<<i, type>>} \/ InQueue(queue') = InQueue(queue)
  PROVE  Delivers
<1>1. CASE InQueue(queue') = InQueue(queue) \cup {<<i, type>>}
  <2>1. Delivery!Request(i, type)
    BY <1>1, RememberedMaps DEF Delivery!Request, InQueue
  <2> QED BY <2>1, SameRequests DEF Delivers, Delivery!Next
<1>2. CASE InQueue(queue') = InQueue(queue)
  <2>1. Delivery!HalfRequest(i, type)
    BY <1>2, RememberedMaps DEF Delivery!HalfRequest, InQueue
  <2> QED BY <2>1, SameRequests DEF Delivers, Delivery!Next
<1> QED BY <1>1, <1>2

LEMMA DeliversAnswer ==
  ASSUME NEW i \in Ids,
         \/ /\ InQueue(queue') = InQueue(queue)
            /\ \A type \in Requests : <<i, type>> \notin InQueue(queue)
         \/ \E type \in Requests :
              /\ <<i, type>> \in InQueue(queue)
              /\ InQueue(queue') = InQueue(queue) \ {<<i, type>>},
         SamePending \/ NowPending(i, "none")
  PROVE  Delivers
<1>1. [j \in Ids |-> journal[j].pending]' \in
        {[j \in Ids |-> journal[j].pending], [[j \in Ids |-> journal[j].pending] EXCEPT ![i] = "none"]}
  BY RememberedMaps
<1>2. Delivery!Answer(i)
  BY <1>1, SameRequests DEF Delivery!Answer, InQueue
<1> QED BY <1>2 DEF Delivers, Delivery!Next

LEMMA DeliversOffline ==
  ASSUME NEW i \in Ids, InQueue(queue') = InQueue(queue), NowPending(i, "none")
  PROVE  Delivers
<1>1. Delivery!AnswerOffline(i)
  BY RememberedMaps DEF Delivery!AnswerOffline, InQueue
<1> QED BY <1>1 DEF Delivers, Delivery!Next

LEMMA DeliversCrash ==
  ASSUME InQueue(queue') = {}, SamePending
  PROVE  Delivers
<1>1. Delivery!Crash
  BY RememberedMaps DEF Delivery!Crash, InQueue
<1> QED BY <1>1 DEF Delivers, Delivery!Next

LEMMA DeliversRestart ==
  ASSUME InQueue(queue) = {}, SamePending,
         InQueue(queue') = {<<i, journal[i].pending>> : i \in {j \in Ids : journal[j].pending # "none"}}
  PROVE  Delivers
<1> DEFINE rem == [j \in Ids |-> journal[j].pending]
<1>1. \A j \in Ids : rem[j] = journal[j].pending
  OBVIOUS
<1>2. {<<i, journal[i].pending>> : i \in {j \in Ids : journal[j].pending # "none"}}
        = {<<i, rem[i]>> : i \in {j \in Ids : rem[j] # "none"}}
  <2> HIDE DEF rem
  <2> QED BY <1>1
<1>3. Delivery!Restart
  BY <1>2, RememberedMaps DEF Delivery!Restart, InQueue
<1> QED BY <1>3 DEF Delivers, Delivery!Next

-----------------------------------------------------------------------------
(* Journals and agents *)

Journals == Snapshots({0}, {0})

LEMMA JournalFacts ==
  ASSUME NEW s \in Journals
  PROVE  /\ \A type \in Requests :
              /\ Requested(s, type) \in Journals
              /\ Requested(s, type).pending = type /\ IsActive(Requested(s, type))
         /\ \A ans \in Answers :
              Settled(s, ans) \in Journals /\ Settled(s, ans).pending = "none"
         /\ LET c == Checkpointed(s, "cycling", s.revision, s.visible)
            IN  c \in Journals /\ c.pending = s.pending /\ IsActive(c)
<1>1. /\ s.phase \in Phases /\ s.pending \in Requests \cup {"none"}
      /\ s.revision = 0 /\ s.visible = 0
      /\ DOMAIN s = {"phase", "pending", "revision", "visible"}
  BY DEF Journals, Snapshots
<1>2. ASSUME NEW phase \in Phases, NEW pending \in Requests \cup {"none"}
      PROVE  /\ [s EXCEPT !.phase = phase, !.pending = pending] \in Journals
             /\ [s EXCEPT !.phase = phase, !.pending = pending].phase = phase
             /\ [s EXCEPT !.phase = phase, !.pending = pending].pending = pending
  BY DEF Journals, Snapshots
<1>3. ASSUME NEW type \in Requests
      PROVE  RequestPhase[type] \in Phases \ CompletedPhases
  BY DEF RequestPhase, Requests, Phases, CompletedPhases
<1>4. ASSUME NEW ans \in Answers
      PROVE  PhaseAfter[ans] \in Phases
  BY DEF PhaseAfter, Answers, Phases
<1>5. ASSUME NEW type \in Requests
      PROVE  /\ Requested(s, type) \in Journals
             /\ Requested(s, type).pending = type /\ IsActive(Requested(s, type))
  BY <1>2, <1>3 DEF Requested, IsActive
<1>6. ASSUME NEW ans \in Answers
      PROVE  Settled(s, ans) \in Journals /\ Settled(s, ans).pending = "none"
  BY <1>2, <1>4 DEF Settled
<1>7. /\ Checkpointed(s, "cycling", s.revision, s.visible) \in Journals
      /\ Checkpointed(s, "cycling", s.revision, s.visible).pending = s.pending
      /\ IsActive(Checkpointed(s, "cycling", s.revision, s.visible))
  <2>1. "cycling" \in Phases \ CompletedPhases
    BY DEF Phases, BrowserPhases, CompletedPhases
  <2> DEFINE c == [s EXCEPT !.phase = "cycling", !.revision = 0, !.visible = 0]
  <2>2. Checkpointed(s, "cycling", s.revision, s.visible) = c
    BY <1>1 DEF Checkpointed
  <2>3. c \in Journals /\ c.pending = s.pending /\ c.phase = "cycling"
    BY <1>1, <2>1 DEF Journals, Snapshots
  <2> HIDE DEF c
  <2> QED BY <2>1, <2>2, <2>3 DEF IsActive
<1> QED BY <1>5, <1>6, <1>7

LEMMA AgentFacts ==
  ASSUME NEW s \in AgentStates
  PROVE  /\ s.pc = "handling" /\ s.what \in Requests => s.id \in Ids
         /\ s.pc = "replying" => s.id \in Ids /\ s.what \in Answers
         /\ s.pc = "cleanup" => s.id \in Ids
BY DEF AgentStates, Requests

\* What an agent may turn to by itself, beside waiting.
LEMMA StateFacts ==
  /\ Idle \in AgentStates /\ Idle.pc = "idle"
  /\ Does("waiting", NoId, "none") \in AgentStates
  /\ \A i \in Ids :
       /\ Does("cleanup", i, "none") \in AgentStates /\ Does("cleanup", i, "none").pc = "cleanup"
       /\ \A ans \in Answers :
            Does("replying", i, ans) \in AgentStates /\ Does("replying", i, ans).pc = "replying"
BY DEF Idle, Does, AgentStates

LEMMA TurnFacts ==
  ASSUME agent \in [Agents -> AgentStates], NEW a \in Agents, NEW s \in AgentStates
  PROVE  /\ [agent EXCEPT ![a] = s] \in [Agents -> AgentStates]
         /\ s.pc # "waiting" => Waiting([agent EXCEPT ![a] = s]) \subseteq Waiting(agent)
BY DEF Waiting

\* A poll that no longer waits is no reason for a timer.
LEMMA WaitingShrinks ==
  ASSUME WaitingIsServed, Waiting(agent') \subseteq Waiting(agent),
         UNCHANGED <<queue, leaseTimer, slipped>>
  PROVE  WaitingIsServed'
BY DEF WaitingIsServed, Waiting

LEMMA DownStaysEmpty ==
  ASSUME DownIsEmpty, up' = up, queue' = queue, Waiting(agent') \subseteq Waiting(agent)
  PROVE  DownIsEmpty'
BY DEF DownIsEmpty, Waiting

-----------------------------------------------------------------------------
(* What the browser sends *)

Outcome == Inv' /\ Delivers

LEMMA OnceNext == QueuedOnce' <=> Once(queue')
BY DEF QueuedOnce, Once

\* enqueueEvent: the queue has the new event as well, and nothing twice.
LEMMA EnqueueFacts ==
  ASSUME Inv, NEW i, NEW type, Entry(i, type) \in Entries, Enqueue(i, type)
  PROVE  /\ queue' \in Seq(Entries)
         /\ InQueue(queue') = InQueue(queue) \cup {x \in {<<i, type>>} : i # NoId}
         /\ QueuedOnce'
         /\ agent' \in [Agents -> AgentStates]
         /\ leaseTimer' \in BOOLEAN /\ slipped' \in BOOLEAN
         /\ WaitingIsServed'
<1>1. /\ queue \in Seq(Entries) /\ agent \in [Agents -> AgentStates]
      /\ leaseTimer \in BOOLEAN /\ slipped \in BOOLEAN
      /\ Once(queue) /\ WaitingIsServed
  BY OnceIsQueuedOnce DEF Inv, TypeOK
<1>2. CASE Queued(queue, i, type)
  <2>1. UNCHANGED <<queue, agent, leaseTimer, slipped>>
    BY <1>2 DEF Enqueue
  <2>2. i # NoId /\ <<i, type>> \in InQueue(queue)
    BY <1>2 DEF Queued, InQueue, Exits
  <2>3. WaitingIsServed'
    BY <1>1, <2>1, WaitingShrinks DEF Waiting
  <2> QED BY <1>1, <2>1, <2>2, <2>3, OnceNext
<1>3. CASE ~Queued(queue, i, type)
  <2> DEFINE q == Append(queue, Entry(i, type))
  <2>1. Flush(q, agent)
    BY <1>3 DEF Enqueue
  <2>2. /\ q \in Seq(Entries) /\ Once(q)
        /\ InQueue(q) = InQueue(queue) \cup {x \in {<<i, type>>} : i # NoId}
    BY <1>1, <1>3, AppendedFacts
  <2> HIDE DEF q
  <2> QED BY <1>1, <2>1, <2>2, FlushFacts, OnceNext
<1> QED BY <1>2, <1>3

LEMMA EntryTypes ==
  /\ \A i \in Ids, type \in Requests : Entry(i, type) \in Entries /\ i # NoId
  /\ Entry(NoId, "exit") \in Entries
BY ConstantsAssumption DEF Entry, Entries

\* A request in the journal of i.
LEMMA JournalRequested ==
  ASSUME Inv, NEW i \in Ids, NEW type \in Requests,
         journal' = [journal EXCEPT ![i] = Requested(@, type)]
  PROVE  journal' \in [Ids -> Journals] /\ PendingIsActive' /\ NowPending(i, type)
<1>1. journal \in [Ids -> Journals] /\ PendingIsActive
  BY DEF Inv, TypeOK, Journals
<1>2. /\ Requested(journal[i], type) \in Journals
      /\ Requested(journal[i], type).pending = type /\ IsActive(Requested(journal[i], type))
  BY <1>1, JournalFacts
<1>3. \A j \in Ids : journal'[j] = IF j = i THEN Requested(journal[i], type) ELSE journal[j]
  BY <1>1
<1> QED BY <1>1, <1>2, <1>3 DEF PendingIsActive, NowPending, IsActive

\* An answer in the journal of i.
LEMMA JournalSettled ==
  ASSUME Inv, NEW i \in Ids, NEW ans \in Answers,
         journal' = [journal EXCEPT ![i] = Settled(@, ans)]
  PROVE  journal' \in [Ids -> Journals] /\ PendingIsActive' /\ NowPending(i, "none")
<1>1. journal \in [Ids -> Journals] /\ PendingIsActive
  BY DEF Inv, TypeOK, Journals
<1>2. Settled(journal[i], ans) \in Journals /\ Settled(journal[i], ans).pending = "none"
  BY <1>1, JournalFacts
<1>3. \A j \in Ids : journal'[j] = IF j = i THEN Settled(journal[i], ans) ELSE journal[j]
  BY <1>1
<1> QED BY <1>1, <1>2, <1>3 DEF PendingIsActive, NowPending, IsActive

LEMMA JournalSame ==
  ASSUME Inv, journal' = journal
  PROVE  journal' \in [Ids -> Journals] /\ PendingIsActive' /\ SamePending
BY DEF Inv, TypeOK, Journals, PendingIsActive, IsActive, SamePending

LEMMA PostStep ==
  ASSUME Inv, NEW i \in Ids, NEW type \in Requests, Post(i, type)
  PROVE  Outcome
<1>1. /\ up /\ journal' = [journal EXCEPT ![i] = Requested(@, type)]
      /\ Enqueue(i, type)
      /\ UNCHANGED <<up, clients, exitTimer, source, parted, faults>>
  BY DEF Post
<1>2. /\ queue' \in Seq(Entries)
      /\ InQueue(queue') = InQueue(queue) \cup {<<i, type>>}
      /\ QueuedOnce' /\ WaitingIsServed'
      /\ agent' \in [Agents -> AgentStates] /\ leaseTimer' \in BOOLEAN /\ slipped' \in BOOLEAN
  BY <1>1, EntryTypes, EnqueueFacts
<1>3. journal' \in [Ids -> Journals] /\ PendingIsActive' /\ NowPending(i, type)
  BY <1>1, JournalRequested
<1>4. TypeOK'
  BY <1>1, <1>2, <1>3 DEF Inv, TypeOK, Journals
<1>5. Remembered'
  BY <1>1, <1>2, <1>3 DEF Inv, Remembered, NowPending
<1>6. DownIsEmpty'
  BY <1>1 DEF DownIsEmpty
<1>7. Delivers
  BY <1>2, <1>3, DeliversRequest
<1> QED BY <1>2, <1>3, <1>4, <1>5, <1>6, <1>7 DEF Inv, Outcome

LEMMA PostHalfFailsStep ==
  ASSUME Inv, NEW i \in Ids, NEW type \in Requests, PostHalfFails(i, type)
  PROVE  Outcome
<1>1. /\ Fault /\ journal' = [journal EXCEPT ![i] = Requested(@, type)]
      /\ parted' = parted \cup {i}
      /\ UNCHANGED <<up, queue, leaseTimer, clients, exitTimer, agent, source, slipped>>
  BY DEF PostHalfFails, server
<1>2. journal' \in [Ids -> Journals] /\ PendingIsActive' /\ NowPending(i, type)
  BY <1>1, JournalRequested
<1>3. TypeOK'
  BY <1>1, <1>2, ConstantsAssumption DEF Inv, TypeOK, Journals, Fault
<1>4. Remembered'
  BY <1>1, <1>2 DEF Inv, Remembered, NowPending
<1>5. QueuedOnce' /\ WaitingIsServed' /\ DownIsEmpty'
  BY <1>1 DEF Inv, QueuedOnce, WaitingIsServed, Waiting, DownIsEmpty
<1>6. Delivers
  BY <1>1, <1>2, DeliversRequest
<1> QED BY <1>2, <1>3, <1>4, <1>5, <1>6 DEF Inv, Outcome

LEMMA PostCheckpointStep ==
  ASSUME Inv, NEW i \in Ids, PostCheckpoint(i, "cycling")
  PROVE  Outcome
<1> DEFINE c == Checkpointed(journal[i], "cycling", journal[i].revision, journal[i].visible)
<1>1. /\ journal' = [journal EXCEPT ![i] = c]
      /\ UNCHANGED <<up, queue, leaseTimer, clients, exitTimer, agent, source, parted, slipped, faults>>
  BY DEF PostCheckpoint, server, ghosts
<1>2. journal \in [Ids -> Journals] /\ PendingIsActive
  BY DEF Inv, TypeOK, Journals
<1>3. c \in Journals /\ c.pending = journal[i].pending /\ IsActive(c)
  BY <1>2, JournalFacts
<1> HIDE DEF c
<1>4. journal' \in [Ids -> Journals] /\ \A j \in Ids : journal'[j] = IF j = i THEN c ELSE journal[j]
  BY <1>1, <1>2, <1>3
<1>5. PendingIsActive' /\ SamePending
  BY <1>2, <1>3, <1>4 DEF PendingIsActive, SamePending, IsActive
<1>6. TypeOK'
  BY <1>1, <1>4 DEF Inv, TypeOK, Journals
<1>7. Remembered'
  BY <1>1, <1>5 DEF Inv, Remembered, SamePending
<1>8. QueuedOnce' /\ WaitingIsServed' /\ DownIsEmpty'
  BY <1>1 DEF Inv, QueuedOnce, WaitingIsServed, Waiting, DownIsEmpty
<1>9. Delivers
  BY <1>1, <1>5, DeliversNothing
<1> QED BY <1>5, <1>6, <1>7, <1>8, <1>9 DEF Inv, Outcome

\* An exit is queued; it is nobody's request.
LEMMA ExitStep ==
  ASSUME Inv, up, Enqueue(NoId, "exit"), exitTimer' \in BOOLEAN,
         UNCHANGED <<up, clients, journal, source, parted, faults>>
  PROVE  Outcome
<1>1. /\ queue' \in Seq(Entries)
      /\ InQueue(queue') = InQueue(queue)
      /\ QueuedOnce' /\ WaitingIsServed'
      /\ agent' \in [Agents -> AgentStates] /\ leaseTimer' \in BOOLEAN /\ slipped' \in BOOLEAN
  BY EntryTypes, EnqueueFacts
<1>2. journal' \in [Ids -> Journals] /\ PendingIsActive' /\ SamePending
  BY JournalSame
<1>3. TypeOK'
  BY <1>1, <1>2 DEF Inv, TypeOK, Journals
<1>4. Remembered'
  BY <1>1, <1>2 DEF Inv, Remembered, SamePending
<1>5. DownIsEmpty'
  BY DEF DownIsEmpty
<1>6. Delivers
  BY <1>1, <1>2, DeliversNothing
<1> QED BY <1>1, <1>2, <1>3, <1>4, <1>5, <1>6 DEF Inv, Outcome

\* Steps that leave the queue, the journals and the agents alone.
LEMMA AsideStep ==
  ASSUME Inv, clients' \in 0..MaxClients, exitTimer' \in BOOLEAN,
         source' \in [Ids -> {"plain", "variants", "carbonize"}],
         UNCHANGED <<up, queue, leaseTimer, journal, agent, parted, slipped, faults>>
  PROVE  Outcome
<1>1. PendingIsActive' /\ SamePending
  BY JournalSame
<1>2. TypeOK' /\ QueuedOnce' /\ Remembered' /\ WaitingIsServed' /\ DownIsEmpty'
  BY DEF Inv, TypeOK, QueuedOnce, Remembered, WaitingIsServed, Waiting, DownIsEmpty
<1>3. Delivers
  BY <1>1, DeliversNothing
<1> QED BY <1>1, <1>2, <1>3 DEF Inv, Outcome

LEMMA TabStep ==
  ASSUME Inv, PostExit \/ Connect \/ Disconnect \/ ExitTimerFires
  PROVE  Outcome
<1>0. /\ clients \in 0..MaxClients /\ exitTimer \in BOOLEAN /\ MaxClients \in Nat
      /\ source \in [Ids -> {"plain", "variants", "carbonize"}]
  BY ConstantsAssumption DEF Inv, TypeOK
<1>1. CASE PostExit
  <2>1. exitTimer' \in BOOLEAN
    BY <1>0, <1>1 DEF PostExit
  <2> QED BY <1>1, <2>1, ExitStep DEF PostExit
<1>2. CASE Connect
  <2>1. /\ clients < MaxClients /\ clients' = clients + 1 /\ exitTimer' = FALSE
        /\ UNCHANGED <<up, queue, leaseTimer, journal, agent, source, parted, slipped, faults>>
    BY <1>2 DEF Connect, ghosts
  <2>2. clients' \in 0..MaxClients
    BY <1>0, <2>1
  <2>3. exitTimer' \in BOOLEAN
    BY <2>1
  <2> QED BY <1>0, <2>1, <2>2, <2>3, AsideStep
<1>3. CASE Disconnect
  <2>1. clients' \in 0..MaxClients /\ exitTimer' \in BOOLEAN
    BY <1>0, <1>3 DEF Disconnect
  <2> QED BY <1>0, <1>3, <2>1, AsideStep DEF Disconnect, ghosts
<1>4. CASE ExitTimerFires /\ clients = 0
  <2>1. exitTimer' \in BOOLEAN
    BY <1>4 DEF ExitTimerFires
  <2> QED BY <1>4, <2>1, ExitStep DEF ExitTimerFires
<1>5. CASE ExitTimerFires /\ clients # 0
  <2>1. exitTimer' \in BOOLEAN
    BY <1>5 DEF ExitTimerFires
  <2> QED BY <1>0, <1>5, <2>1, AsideStep DEF ExitTimerFires
<1> QED BY <1>1, <1>2, <1>3, <1>4, <1>5

-----------------------------------------------------------------------------
(* Polls and leases *)

\* Leases that end, and agents that do not begin to wait.
LEMMA EndedFacts ==
  ASSUME Inv, NEW late \in SUBSET Held(queue), queue' = Mark(queue, late, "expired")
  PROVE  /\ queue' \in Seq(Entries) /\ DOMAIN queue' = DOMAIN queue
         /\ InQueue(queue') = InQueue(queue)
         /\ QueuedOnce'
         /\ \A k \in DOMAIN queue : queue'[k].lease = "free" => queue[k].lease = "free"
<1> DEFINE m == Len(queue)
<1>1. queue \in Seq(Entries) /\ Once(queue)
  BY OnceIsQueuedOnce DEF Inv, TypeOK
<1>2. /\ m \in Nat /\ DOMAIN queue = 1..m
      /\ \A k \in 1..m : queue[k] \in Entries /\ queue[k] \in Records
  BY <1>1, LenProperties, ElementOfSeq, EntryFacts
<1> HIDE DEF m
<1>3. /\ DOMAIN queue' = 1..m
      /\ \A k \in 1..m :
           /\ queue'[k] \in Records
           /\ queue'[k].id = queue[k].id /\ queue'[k].type = queue[k].type
           /\ k \in late => queue'[k].lease = "expired"
           /\ k \notin late => queue'[k] = queue[k]
  <2>1. "expired" \in Leases
    BY DEF Leases
  <2> QED BY <1>2, <2>1, MarkFacts
<1>4. \A k \in late : queue[k].lease = "held"
  BY DEF Held
<1>5. \A k \in 1..m : queue'[k] \in Entries
  BY <1>2, <1>3, <1>4, EntryFacts
<1>6. queue' \in Seq(Entries)
  <2>1. queue' = [k \in 1..m |-> queue'[k]]
    <3>1. queue' = [k \in DOMAIN queue' |-> queue'[k]]
      BY DEF Mark
    <3> QED BY <1>3, <3>1
  <2> QED BY <1>2, <1>5, <2>1, SeqDef
<1>7. InQueue(queue') = InQueue(queue)
  <2>1. \A k \in 1..m : k \in Exits(queue') <=> k \in Exits(queue)
    BY <1>2, <1>3 DEF Exits
  <2> QED BY <1>2, <1>3, <2>1 DEF InQueue
<1>8. Once(queue')
  BY <1>1, <1>2, <1>3 DEF Once
<1>9. \A k \in 1..m : queue'[k].lease = "free" => queue[k].lease = "free"
  BY <1>3
<1> QED BY <1>2, <1>3, <1>6, <1>7, <1>8, <1>9, OnceNext

\* Steps that leave the journals alone and keep every request.
LEMMA KeepStep ==
  ASSUME Inv, queue' \in Seq(Entries), InQueue(queue') = InQueue(queue), QueuedOnce',
         agent' \in [Agents -> AgentStates], leaseTimer' \in BOOLEAN, slipped' \in BOOLEAN,
         WaitingIsServed', DownIsEmpty',
         source' \in [Ids -> {"plain", "variants", "carbonize"}],
         faults' \in 0..MaxFaults,
         UNCHANGED <<up, clients, exitTimer, journal, parted>>
  PROVE  Outcome
<1>1. PendingIsActive' /\ SamePending
  BY JournalSame
<1>2. TypeOK'
  BY DEF Inv, TypeOK
<1>3. Remembered'
  BY DEF Inv, Remembered
<1>4. Delivers
  BY <1>1, DeliversNothing
<1> QED BY <1>1, <1>2, <1>3, <1>4 DEF Inv, Outcome

\* An agent turns to something else than waiting.
LEMMA TurnStep ==
  ASSUME Inv, NEW a \in Agents, NEW s \in AgentStates, s.pc # "waiting",
         agent' = [agent EXCEPT ![a] = s],
         source' \in [Ids -> {"plain", "variants", "carbonize"}],
         faults' \in 0..MaxFaults,
         UNCHANGED <<up, queue, leaseTimer, clients, exitTimer, journal, parted, slipped>>
  PROVE  Outcome
<1>1. agent' \in [Agents -> AgentStates] /\ Waiting(agent') \subseteq Waiting(agent)
  BY TurnFacts DEF Inv, TypeOK
<1>2. WaitingIsServed' /\ DownIsEmpty'
  BY <1>1, WaitingShrinks, DownStaysEmpty DEF Inv
<1>3. /\ queue' \in Seq(Entries) /\ InQueue(queue') = InQueue(queue) /\ QueuedOnce'
      /\ leaseTimer' \in BOOLEAN /\ slipped' \in BOOLEAN
  BY DEF Inv, TypeOK, QueuedOnce
<1> QED BY <1>1, <1>2, <1>3, KeepStep

LEMMA SameSource ==
  ASSUME Inv
  PROVE  /\ source' = source => source' \in [Ids -> {"plain", "variants", "carbonize"}]
         /\ faults' = faults => faults' \in 0..MaxFaults
         /\ Fault => faults' \in 0..MaxFaults
BY ConstantsAssumption DEF Inv, TypeOK, Fault

LEMMA PollGetStep ==
  ASSUME Inv, NEW a \in Agents, PollGet(a)
  PROVE  Outcome
<1>1. /\ up /\ agent[a].pc = "idle"
      /\ UNCHANGED <<up, clients, exitTimer, journal, source, parted, faults>>
  BY DEF PollGet
<1>2. /\ queue \in Seq(Entries) /\ agent \in [Agents -> AgentStates]
      /\ leaseTimer \in BOOLEAN /\ slipped \in BOOLEAN
      /\ Once(queue) /\ WaitingIsServed
  BY OnceIsQueuedOnce DEF Inv, TypeOK
<1>3. DownIsEmpty'
  BY <1>1 DEF DownIsEmpty
<1>4. CASE Available(queue) # {}
  <2>1. PICK k \in FirstAvailable(queue, 1) : HandOut(queue, agent, [j \in {k} |-> a])
    BY <1>4 DEF PollGet
  <2>2. UNCHANGED <<leaseTimer, slipped>>
    BY <1>4 DEF PollGet
  <2> DEFINE to == [j \in {k} |-> a]
  <2>3. /\ {k} \in SUBSET Available(queue)
        /\ to \in [{k} -> Waiting(agent) \cup {b \in Agents : agent[b].pc = "idle"}]
        /\ Range(to) = {a}
    BY <1>1, <2>1 DEF FirstAvailable, Range
  <2>4. Mark(queue, {}, "expired") = queue
    BY <1>2 DEF Mark
  <2> HIDE DEF to
  <2>5. /\ queue' \in Seq(Entries)
        /\ InQueue(queue') = InQueue(queue)
        /\ Once(queue) => Once(queue')
        /\ Handed(queue', queue, {k}, {})
        /\ agent' \in [Agents -> AgentStates]
        /\ Waiting(agent') = Waiting(agent) \ Range(to)
    <3>1. HandOut(Mark(queue, {}, "expired"), agent, to)
      BY <2>1, <2>4 DEF to
    <3> QED BY <1>2, <2>3, <3>1, HandOutFacts
  <2>6. WaitingIsServed'
    <3> SUFFICES ASSUME Waiting(agent') # {}
                 PROVE  /\ \A i \in DOMAIN queue' : queue'[i].lease # "free"
                        /\ DOMAIN queue' # {} => leaseTimer' \/ slipped'
      BY DEF WaitingIsServed, Waiting
    <3>1. Waiting(agent) # {}
      BY <2>5
    <3>2. /\ \A i \in DOMAIN queue : queue[i].lease # "free"
          /\ DOMAIN queue # {} => leaseTimer \/ slipped
      BY <1>2, <3>1 DEF WaitingIsServed
    <3>3. \A i \in DOMAIN queue' : queue'[i].lease # "free"
      BY <2>5, <3>2 DEF Handed
    <3>4. DOMAIN queue' # {} => DOMAIN queue # {}
      BY <2>5 DEF Handed
    <3> QED BY <2>2, <3>2, <3>3, <3>4
  <2> QED BY <1>1, <1>2, <1>3, <2>2, <2>5, <2>6, OnceNext, SameSource, KeepStep
<1>5. CASE Available(queue) = {}
  <2>1. PICK late \in SUBSET Held(queue) :
          /\ Slip(late)
          /\ queue' = Mark(queue, late, "expired")
          /\ agent' = [agent EXCEPT ![a] = Does("waiting", NoId, "none")]
          /\ leaseTimer' = Scheduled(queue', agent')
    BY <1>5 DEF PollGet
  <2>2. /\ queue' \in Seq(Entries) /\ DOMAIN queue' = DOMAIN queue
        /\ InQueue(queue') = InQueue(queue)
        /\ QueuedOnce'
        /\ \A k \in DOMAIN queue : queue'[k].lease = "free" => queue[k].lease = "free"
    BY <2>1, EndedFacts
  <2>3. agent' \in [Agents -> AgentStates]
    BY <1>2, <2>1, StateFacts
  <2>4. leaseTimer' \in BOOLEAN
    BY <2>1 DEF Scheduled
  <2>5. slipped' \in BOOLEAN /\ (late # {} => slipped')
    BY <2>1 DEF Slip
  <2>6. \A k \in DOMAIN queue : queue[k].lease = "held"
    BY <1>5 DEF Available, Held
  <2>7. WaitingIsServed'
    <3>1. \A k \in DOMAIN queue' : queue'[k].lease # "free"
      BY <2>2, <2>6
    <3>2. a \in Waiting(agent')
      BY <1>2, <2>1 DEF Waiting, Does
    <3>3. CASE late = {}
      <4>1. Held(queue') = DOMAIN queue'
        BY <1>2, <2>1, <2>2, <2>6, <3>3 DEF Held, Mark
      <4>2. DOMAIN queue' # {} => leaseTimer'
        BY <2>1, <3>2, <4>1 DEF Scheduled
      <4> QED BY <3>1, <4>2 DEF WaitingIsServed
    <3>4. CASE late # {}
      BY <2>5, <3>1, <3>4 DEF WaitingIsServed
    <3> QED BY <3>3, <3>4
  <2> QED BY <1>1, <1>3, <2>2, <2>3, <2>4, <2>5, <2>7, SameSource, KeepStep
<1> QED BY <1>4, <1>5

LEMMA PollTimeoutStep ==
  ASSUME Inv, NEW a \in Agents, PollTimeout(a)
  PROVE  Outcome
<1>1. /\ agent' = [agent EXCEPT ![a] = Idle]
      /\ UNCHANGED <<up, queue, leaseTimer, clients, exitTimer, journal, source, parted, slipped, faults>>
  BY DEF PollTimeout, server, ghosts
<1> QED BY <1>1, StateFacts, SameSource, TurnStep

LEMMA LeaseEndsStep ==
  ASSUME Inv, NEW k \in DOMAIN queue, LeaseEnds(k)
  PROVE  Outcome
<1>1. /\ {k} \in SUBSET Held(queue) /\ queue' = Mark(queue, {k}, "expired")
      /\ UNCHANGED <<up, leaseTimer, clients, exitTimer, journal, agent, source, parted, slipped, faults>>
  BY DEF LeaseEnds, ghosts
<1>2. /\ queue' \in Seq(Entries) /\ DOMAIN queue' = DOMAIN queue
      /\ InQueue(queue') = InQueue(queue)
      /\ QueuedOnce'
      /\ \A j \in DOMAIN queue : queue'[j].lease = "free" => queue[j].lease = "free"
  BY <1>1, EndedFacts
<1>3. WaitingIsServed' /\ DownIsEmpty'
  BY <1>1, <1>2 DEF Inv, WaitingIsServed, Waiting, DownIsEmpty
<1>4. agent' \in [Agents -> AgentStates] /\ leaseTimer' \in BOOLEAN /\ slipped' \in BOOLEAN
  BY <1>1 DEF Inv, TypeOK
<1> QED BY <1>1, <1>2, <1>3, <1>4, SameSource, KeepStep

LEMMA LeaseTimerFiresStep ==
  ASSUME Inv, LeaseTimerFires
  PROVE  Outcome
<1>1. /\ up /\ Flush(queue, agent)
      /\ UNCHANGED <<up, clients, exitTimer, journal, source, parted, faults>>
  BY DEF LeaseTimerFires
<1>2. queue \in Seq(Entries) /\ agent \in [Agents -> AgentStates] /\ slipped \in BOOLEAN /\ Once(queue)
  BY OnceIsQueuedOnce DEF Inv, TypeOK
<1>3. /\ queue' \in Seq(Entries)
      /\ InQueue(queue') = InQueue(queue)
      /\ QueuedOnce'
      /\ agent' \in [Agents -> AgentStates]
      /\ leaseTimer' \in BOOLEAN /\ slipped' \in BOOLEAN
      /\ WaitingIsServed'
  BY <1>1, <1>2, FlushFacts, OnceNext
<1>4. DownIsEmpty'
  BY <1>1 DEF DownIsEmpty
<1> QED BY <1>1, <1>3, <1>4, SameSource, KeepStep

-----------------------------------------------------------------------------
(* The agent *)

\* An answer takes one request of its session out of the queue and, if it
\* can be written, out of the journal.
LEMMA ReplyStep ==
  ASSUME Inv, NEW a \in Agents, agent[a].id \in Ids, NEW ans \in Answers, NEW next \in AgentStates,
         Reply(a, ans, next),
         source' \in [Ids -> {"plain", "variants", "carbonize"}]
  PROVE  Outcome
<1> DEFINE i == agent[a].id
           q == Acknowledged(queue, i)
           ags == [agent EXCEPT ![a] = next]
<1>1. /\ up /\ Flush(q, ags) /\ UNCHANGED <<up, clients, exitTimer>>
      /\ \/ /\ journal' = [journal EXCEPT ![i] = Settled(@, ans)]
            /\ UNCHANGED <<parted, faults>>
         \/ /\ Fault
            /\ parted' = parted \cup {i}
            /\ UNCHANGED journal
  BY DEF Reply
<1>2. /\ queue \in Seq(Entries) /\ agent \in [Agents -> AgentStates]
      /\ slipped \in BOOLEAN /\ Once(queue) /\ i \in Ids
  BY OnceIsQueuedOnce DEF Inv, TypeOK
<1>3. ags \in [Agents -> AgentStates]
  BY <1>2
<1> HIDE DEF i, ags
<1>4. /\ q \in Seq(Entries) /\ Once(q)
      /\ \/ /\ InQueue(q) = InQueue(queue)
            /\ \A type \in Requests : <<i, type>> \notin InQueue(queue)
         \/ \E type \in Requests :
              /\ <<i, type>> \in InQueue(queue)
              /\ InQueue(q) = InQueue(queue) \ {<<i, type>>}
  BY <1>2, AcknowledgedFacts
<1> HIDE DEF q
<1>5. /\ queue' \in Seq(Entries)
      /\ InQueue(queue') = InQueue(q)
      /\ QueuedOnce' /\ WaitingIsServed'
      /\ agent' \in [Agents -> AgentStates] /\ leaseTimer' \in BOOLEAN /\ slipped' \in BOOLEAN
  BY <1>1, <1>2, <1>3, <1>4, FlushFacts, OnceNext
<1>6. /\ journal' \in [Ids -> Journals] /\ PendingIsActive'
      /\ SamePending \/ NowPending(i, "none")
  BY <1>1, <1>2, JournalSame, JournalSettled
<1>7. parted' \subseteq Ids /\ faults' \in 0..MaxFaults
  BY <1>1, <1>2, SameSource DEF Inv, TypeOK
<1>8. TypeOK'
  BY <1>1, <1>5, <1>6, <1>7 DEF Inv, TypeOK, Journals
<1>9. Remembered'
  <2> SUFFICES ASSUME NEW j \in Ids \ parted', journal'[j].pending # "none"
               PROVE  <<j, journal'[j].pending>> \in InQueue(queue')
    BY DEF Remembered
  <2>1. j # i /\ j \notin parted /\ journal'[j].pending = journal[j].pending
    <3>1. CASE journal' = [journal EXCEPT ![i] = Settled(@, ans)] /\ UNCHANGED parted
      <4>1. NowPending(i, "none")
        BY <1>2, <3>1, JournalSettled
      <4> QED BY <3>1, <4>1 DEF NowPending
    <3>2. CASE parted' = parted \cup {i} /\ UNCHANGED journal
      BY <3>2
    <3> QED BY <1>1, <3>1, <3>2
  <2>2. <<j, journal[j].pending>> \in InQueue(queue)
    BY <1>1, <2>1 DEF Inv, Remembered
  <2> QED BY <1>4, <1>5, <2>1, <2>2
<1>10. DownIsEmpty'
  BY <1>1 DEF DownIsEmpty
<1>11. Delivers
  BY <1>2, <1>4, <1>5, <1>6, DeliversAnswer
<1> QED BY <1>5, <1>6, <1>8, <1>9, <1>10, <1>11 DEF Inv, Outcome

Sources == [Ids -> {"plain", "variants", "carbonize"}]

LEMMA SourceFacts ==
  ASSUME Inv, NEW i \in Ids
  PROVE  /\ \A src \in {"plain", "variants", "carbonize"} : [source EXCEPT ![i] = src] \in Sources
         /\ source[i] \in {"plain", "variants", "carbonize"}
BY DEF Inv, TypeOK, Sources

LEMMA AgentIds ==
  ASSUME Inv, NEW a \in Agents
  PROVE  /\ Handles(a, {"generate"}) \/ Handles(a, {"accept", "discard"}) => agent[a].id \in Ids
         /\ agent[a].pc = "replying" => agent[a].id \in Ids /\ agent[a].what \in Answers
         /\ agent[a].pc = "cleanup" => agent[a].id \in Ids
<1>1. agent[a] \in AgentStates
  BY DEF Inv, TypeOK
<1> QED BY <1>1, AgentFacts DEF Handles, Requests

LEMMA GenerateStep ==
  ASSUME Inv, NEW a \in Agents, Generate(a)
  PROVE  Outcome
<1>1. agent[a].id \in Ids
  BY AgentIds DEF Generate
<1>2. source' \in [Ids -> {"plain", "variants", "carbonize"}]
  BY SameSource DEF Generate
<1>3. Reply(a, "agent_done", Idle) \/ Reply(a, "agent_error", Idle)
  BY DEF Generate
<1>4. "agent_done" \in Answers /\ "agent_error" \in Answers
  BY DEF Answers
<1> QED BY <1>1, <1>2, <1>3, <1>4, StateFacts, ReplyStep

LEMMA WriteVariantsStep ==
  ASSUME Inv, NEW a \in Agents, WriteVariants(a)
  PROVE  Outcome
<1>1. /\ agent[a].id \in Ids
      /\ source' = [source EXCEPT ![agent[a].id] = "variants"]
      /\ UNCHANGED <<up, queue, leaseTimer, clients, exitTimer, journal, agent, parted, slipped, faults>>
  BY AgentIds DEF WriteVariants, server, ghosts
<1>2. source' \in [Ids -> {"plain", "variants", "carbonize"}]
  BY <1>1, SourceFacts DEF Sources
<1>3. clients' \in 0..MaxClients /\ exitTimer' \in BOOLEAN
  BY <1>1 DEF Inv, TypeOK
<1> QED BY <1>1, <1>2, <1>3, AsideStep

LEMMA SpliceStep ==
  ASSUME Inv, NEW a \in Agents, Splice(a)
  PROVE  Outcome
<1> DEFINE i == agent[a].id
<1>1. /\ i \in Ids
      /\ UNCHANGED <<up, queue, leaseTimer, clients, exitTimer, journal, parted, slipped, faults>>
  BY AgentIds DEF Splice, server, ghosts
<1>2. \E src \in {"plain", "variants", "carbonize"}, ans \in Answers :
        /\ source' = [source EXCEPT ![i] = src]
        /\ agent' = [agent EXCEPT ![a] = Does("replying", i, ans)]
  <2>1. /\ "discarded" \in Answers /\ "complete" \in Answers /\ "carbonize" \in Answers
        /\ "agent_error" \in Answers /\ "agent_done" \in Answers
    BY DEF Answers
  <2>2. source[i] \in {"plain", "variants", "carbonize"}
    BY <1>1, SourceFacts
  <2> QED BY <2>1, <2>2 DEF Splice
<1>3. PICK src \in {"plain", "variants", "carbonize"}, ans \in Answers :
        /\ source' = [source EXCEPT ![i] = src]
        /\ agent' = [agent EXCEPT ![a] = Does("replying", i, ans)]
  BY <1>2
<1> HIDE DEF i
<1>4. source' \in [Ids -> {"plain", "variants", "carbonize"}]
  BY <1>1, <1>3, SourceFacts DEF Sources
<1>5. Does("replying", i, ans) \in AgentStates /\ Does("replying", i, ans).pc # "waiting"
  BY <1>1, StateFacts
<1> QED BY <1>1, <1>3, <1>4, <1>5, SameSource, TurnStep

LEMMA SpliceFailsStep ==
  ASSUME Inv, NEW a \in Agents, SpliceFails(a)
  PROVE  Outcome
<1> DEFINE s == Does("replying", agent[a].id, "agent_error")
<1>1. /\ agent[a].id \in Ids /\ Fault
      /\ agent' = [agent EXCEPT ![a] = s]
      /\ UNCHANGED <<up, queue, leaseTimer, clients, exitTimer, journal, source, parted, slipped>>
  BY AgentIds DEF SpliceFails, server
<1>2. s \in AgentStates /\ s.pc # "waiting"
  <2>1. "agent_error" \in Answers
    BY DEF Answers
  <2> QED BY <1>1, <2>1, StateFacts
<1> HIDE DEF s
<1> QED BY <1>1, <1>2, SameSource, TurnStep

LEMMA PostReplyStep ==
  ASSUME Inv, NEW a \in Agents, PostReply(a)
  PROVE  Outcome
<1> DEFINE next == IF agent[a].what = "carbonize" THEN Does("cleanup", agent[a].id, "none") ELSE Idle
<1>1. agent[a].id \in Ids /\ agent[a].what \in Answers /\ Reply(a, agent[a].what, next)
  BY AgentIds DEF PostReply
<1>2. next \in AgentStates
  BY <1>1, StateFacts
<1>3. source' \in [Ids -> {"plain", "variants", "carbonize"}]
  BY SameSource DEF PostReply
<1> HIDE DEF next
<1> QED BY <1>1, <1>2, <1>3, ReplyStep

LEMMA CompleteStep ==
  ASSUME Inv, NEW a \in Agents, Complete(a)
  PROVE  Outcome
<1>1. /\ agent[a].id \in Ids
      /\ source' = [source EXCEPT ![agent[a].id] = "plain"]
      /\ Reply(a, "complete", Idle)
  BY AgentIds DEF Complete
<1>2. source' \in [Ids -> {"plain", "variants", "carbonize"}]
  BY <1>1, SourceFacts DEF Sources
<1>3. "complete" \in Answers
  BY DEF Answers
<1> QED BY <1>1, <1>2, <1>3, StateFacts, ReplyStep

LEMMA CompleteOfflineStep ==
  ASSUME Inv, NEW a \in Agents, CompleteOffline(a)
  PROVE  Outcome
<1> DEFINE i == agent[a].id
<1>1. /\ i \in Ids
      /\ IF up THEN Uncertain /\ Fault ELSE UNCHANGED faults
      /\ source' = [source EXCEPT ![i] = "plain"]
      /\ journal' = [journal EXCEPT ![i] = Settled(@, "complete")]
      /\ agent' = [agent EXCEPT ![a] = Idle]
      /\ UNCHANGED <<up, queue, leaseTimer, clients, exitTimer, parted, slipped>>
  BY AgentIds DEF CompleteOffline, server
<1> HIDE DEF i
<1>2. source' \in [Ids -> {"plain", "variants", "carbonize"}] /\ faults' \in 0..MaxFaults
  BY <1>1, SourceFacts, SameSource DEF Sources
<1>3. journal' \in [Ids -> Journals] /\ PendingIsActive' /\ NowPending(i, "none")
  <2>1. "complete" \in Answers
    BY DEF Answers
  <2> QED BY <1>1, <2>1, JournalSettled
<1>4. agent' \in [Agents -> AgentStates] /\ Waiting(agent') \subseteq Waiting(agent)
  BY <1>1, StateFacts, TurnFacts DEF Inv, TypeOK
<1>5. TypeOK'
  BY <1>1, <1>2, <1>3, <1>4 DEF Inv, TypeOK, Journals
<1>6. QueuedOnce' /\ WaitingIsServed' /\ DownIsEmpty'
  BY <1>1, <1>4, WaitingShrinks, DownStaysEmpty DEF Inv, QueuedOnce
<1>7. Remembered'
  BY <1>1, <1>3 DEF Inv, Remembered, NowPending
<1>8. Delivers
  BY <1>1, <1>3, DeliversOffline
<1> QED BY <1>3, <1>5, <1>6, <1>7, <1>8 DEF Inv, Outcome

LEMMA ResumeStep ==
  ASSUME Inv, NEW a \in Agents, Resume(a)
  PROVE  Outcome
<1>1. PICK i \in Ids : agent' = [agent EXCEPT ![a] = Does("cleanup", i, "none")]
  BY DEF Resume
<1>2. UNCHANGED <<up, queue, leaseTimer, clients, exitTimer, journal, source, parted, slipped, faults>>
  BY DEF Resume, server, ghosts
<1>3. Does("cleanup", i, "none") \in AgentStates /\ Does("cleanup", i, "none").pc # "waiting"
  BY StateFacts
<1> QED BY <1>1, <1>2, <1>3, SameSource, TurnStep

LEMMA InterruptStep ==
  ASSUME Inv, NEW a \in Agents, Interrupt(a)
  PROVE  Outcome
<1>1. /\ Fault /\ agent' = [agent EXCEPT ![a] = Idle]
      /\ UNCHANGED <<up, queue, leaseTimer, clients, exitTimer, journal, source, parted, slipped>>
  BY DEF Interrupt, server
<1> QED BY <1>1, StateFacts, SameSource, TurnStep

-----------------------------------------------------------------------------
(* The life of the server *)

\* The death of the server empties the queue and ends every poll.
LEMMA DownStep ==
  ASSUME Inv, NEW ags \in [Agents -> AgentStates], Down(ags), faults' \in 0..MaxFaults
  PROVE  Outcome
<1>1. /\ up' = FALSE /\ queue' = <<>> /\ leaseTimer' = FALSE /\ clients' = 0
      /\ exitTimer' = FALSE /\ slipped' = FALSE
      /\ agent' = [a \in Agents |-> IF ags[a].pc \in {"waiting", "replying"} THEN Idle ELSE ags[a]]
      /\ UNCHANGED <<journal, source, parted>>
  BY DEF Down
<1>2. queue' \in Seq(Entries) /\ DOMAIN queue' = {} /\ InQueue(queue') = {}
  BY <1>1, EmptySeq DEF InQueue
<1>3. agent' \in [Agents -> AgentStates] /\ Waiting(agent') = {}
  BY <1>1, StateFacts DEF Waiting
<1>4. journal' \in [Ids -> Journals] /\ PendingIsActive' /\ SamePending
  BY <1>1, JournalSame
<1>5. TypeOK'
  <2>1. clients' \in 0..MaxClients
    BY <1>1, ConstantsAssumption
  <2>2. up' \in BOOLEAN /\ leaseTimer' \in BOOLEAN /\ exitTimer' \in BOOLEAN /\ slipped' \in BOOLEAN
    BY <1>1
  <2> QED BY <1>1, <1>2, <1>3, <1>4, <2>1, <2>2 DEF Inv, TypeOK, Journals
<1>6. QueuedOnce' /\ Remembered' /\ WaitingIsServed' /\ DownIsEmpty'
  BY <1>1, <1>2, <1>3 DEF QueuedOnce, Remembered, WaitingIsServed, Waiting, DownIsEmpty
<1>7. Delivers
  BY <1>2, <1>4, DeliversCrash
<1> QED BY <1>4, <1>5, <1>6, <1>7 DEF Inv, Outcome

LEMMA CrashStep == Inv /\ Crash => Outcome
BY DownStep, SameSource DEF Crash, Inv, TypeOK

LEMMA StopStep ==
  ASSUME Inv, NEW a \in Agents, Stop(a)
  PROVE  Outcome
<1>1. faults' = faults /\ agent \in [Agents -> AgentStates]
  BY DEF Stop, Inv, TypeOK
<1>2. CASE up
  <2>1. Down([agent EXCEPT ![a] = Idle])
    BY <1>2 DEF Stop
  <2>2. [agent EXCEPT ![a] = Idle] \in [Agents -> AgentStates]
    BY <1>1, StateFacts
  <2> QED BY <1>1, <2>1, <2>2, DownStep, SameSource
<1>3. CASE ~up
  <2>1. /\ agent' = [agent EXCEPT ![a] = Idle]
        /\ UNCHANGED <<up, queue, leaseTimer, clients, exitTimer, journal, source, parted, slipped>>
    BY <1>3 DEF Stop, server
  <2> QED BY <1>1, <2>1, StateFacts, SameSource, TurnStep
<1> QED BY <1>2, <1>3

\* A new server queues what the journals remember, each request once.
LEMMA RestartStep == Inv /\ Restart => Outcome
<1> SUFFICES ASSUME Inv, Restart PROVE Outcome
  OBVIOUS
<1>1. /\ ~up /\ up' = TRUE /\ parted' = {}
      /\ UNCHANGED <<leaseTimer, clients, exitTimer, journal, agent, source, slipped, faults>>
  BY DEF Restart
<1>2. PICK order \in SetToSeqs(ToRestore) :
        queue' = [k \in DOMAIN order |-> Entry(order[k], journal[order[k]].pending)]
  BY DEF Restart
<1> DEFINE R == {j \in Ids : journal[j].pending # "none"}
           C == Cardinality(ToRestore)
<1>3. journal \in [Ids -> Journals] /\ \A j \in Ids : journal[j].pending \in Requests \cup {"none"}
  BY DEF Inv, TypeOK, Journals, Snapshots
<1>4. ToRestore = R
  BY DEF ToRestore, Inv, PendingIsActive
<1>5. IsFiniteSet(ToRestore) /\ C \in Nat
  <2>1. ToRestore \in SUBSET Ids
    BY DEF ToRestore
  <2>2. IsFiniteSet(ToRestore)
    BY <2>1, ConstantsAssumption, FS_Subset
  <2> QED BY <2>2, FS_CardinalityType
<1>6. /\ order \in [1..C -> ToRestore]
      /\ \A k, l \in 1..C : k # l => order[k] # order[l]
  BY DEF SetToSeqs
<1>7. \A i \in ToRestore : \E k \in 1..C : order[k] = i
  <2> HIDE DEF C
  <2>1. order \in Injection(1..C, ToRestore)
    BY <1>6 DEF Injection, IsInjective
  <2>2. IsFiniteSet(1..C) /\ Cardinality(1..C) = C
    BY <1>5, FS_Interval
  <2>3. order \in Surjection(1..C, ToRestore)
    BY <1>5, <2>1, <2>2, FS_Injection DEF C
  <2> QED BY <2>3 DEF Surjection
<1> HIDE DEF C
<1>8. /\ DOMAIN queue' = 1..C
      /\ \A k \in 1..C : /\ order[k] \in R /\ queue'[k] = Entry(order[k], journal[order[k]].pending)
                         /\ queue'[k] \in Entries
                         /\ queue'[k].id = order[k] /\ queue'[k].type = journal[order[k]].pending
  <2>1. DOMAIN order = 1..C
    BY <1>6
  <2>2. ASSUME NEW k \in 1..C
        PROVE  order[k] \in R /\ order[k] \in Ids /\ journal[order[k]].pending \in Requests
    BY <1>3, <1>4, <1>6
  <2>3. ASSUME NEW i \in Ids, NEW type \in Requests
        PROVE  Entry(i, type) \in Entries /\ Entry(i, type).id = i /\ Entry(i, type).type = type
    BY EntryTypes DEF Entry
  <2> QED BY <1>2, <2>1, <2>2, <2>3
<1>9. queue' \in Seq(Entries)
  <2>1. queue' = [k \in 1..C |-> queue'[k]]
    <3>1. queue' = [k \in DOMAIN queue' |-> queue'[k]]
      BY <1>2
    <3> QED BY <1>8, <3>1
  <2> HIDE DEF R
  <2> QED BY <1>5, <1>8, <2>1, SeqDef
<1>10. InQueue(queue') = {<<i, journal[i].pending>> : i \in R}
  <2>1. \A k \in 1..C : k \notin Exits(queue')
    BY <1>8, ConstantsAssumption DEF Exits
  <2>2. InQueue(queue') = {<<queue'[k].id, queue'[k].type>> : k \in 1..C}
    <3> HIDE DEF R
    <3> QED BY <1>8, <2>1 DEF InQueue, Exits
  <2>3. ASSUME NEW k \in 1..C
        PROVE  /\ order[k] \in R
               /\ <<queue'[k].id, queue'[k].type>> = <<order[k], journal[order[k]].pending>>
    BY <1>8
  <2> HIDE DEF R
  <2> QED BY <1>4, <1>7, <2>2, <2>3
<1>11. QueuedOnce'
  <2> HIDE DEF R
  <2> QED BY <1>6, <1>8 DEF QueuedOnce
<1>12. PendingIsActive' /\ SamePending
  BY <1>1, JournalSame
<1>13. TypeOK'
  BY <1>1, <1>9 DEF Inv, TypeOK
<1>14. Remembered'
  BY <1>1, <1>10 DEF Remembered
<1>15. DOMAIN queue = {} /\ Waiting(agent) = {}
  BY <1>1 DEF Inv, DownIsEmpty
<1>16. WaitingIsServed' /\ DownIsEmpty'
  BY <1>1, <1>15 DEF WaitingIsServed, DownIsEmpty, Waiting
<1>17. Delivers
  <2>1. InQueue(queue) = {}
    BY <1>15 DEF InQueue
  <2> QED BY <1>10, <1>12, <2>1, DeliversRestart
<1> QED BY <1>11, <1>12, <1>13, <1>14, <1>16, <1>17 DEF Inv, Outcome

-----------------------------------------------------------------------------
(* The theorems *)

LEMMA InitInv == Init => Inv /\ Delivery!Init
<1> SUFFICES ASSUME Init PROVE Inv /\ Delivery!Init
  OBVIOUS
<1>1. queue \in Seq(Entries) /\ DOMAIN queue = {}
  BY EmptySeq DEF Init
<1>2. /\ BaseSnapshot \in Journals /\ BaseSnapshot.pending = "none"
      /\ Idle \in AgentStates /\ Idle.pc = "idle"
  BY StateFacts DEF BaseSnapshot, Journals, Snapshots, Phases
<1>3. 0 \in 0..MaxClients /\ 0 \in 0..MaxFaults
  BY ConstantsAssumption
<1>4. TypeOK
  BY <1>1, <1>2, <1>3 DEF Init, TypeOK, Journals
<1>5. QueuedOnce /\ WaitingIsServed /\ DownIsEmpty
  BY <1>1, <1>2 DEF Init, QueuedOnce, WaitingIsServed, DownIsEmpty, Waiting
<1>6. PendingIsActive /\ Remembered
  BY <1>2 DEF Init, PendingIsActive, Remembered
<1>7. Delivery!Init
  BY <1>1, <1>2 DEF Init, Delivery!Init
<1> QED BY <1>4, <1>5, <1>6, <1>7 DEF Inv

LEMMA AgentStep ==
  ASSUME Inv, NEW a \in Agents, Agent(a)
  PROVE  Outcome
BY PollGetStep, PollTimeoutStep, GenerateStep, WriteVariantsStep, SpliceStep, SpliceFailsStep,
   PostReplyStep, CompleteStep, CompleteOfflineStep, ResumeStep, InterruptStep, StopStep
   DEF Agent

LEMMA BrowserStep == Inv /\ Browser => Outcome
<1> SUFFICES ASSUME Inv, Browser PROVE Outcome
  OBVIOUS
<1>1. CASE \E i \in Ids, type \in Requests : Post(i, type) \/ PostHalfFails(i, type)
  BY <1>1, PostStep, PostHalfFailsStep
<1>2. CASE \E i \in Ids, phase \in {"cycling"} : PostCheckpoint(i, phase)
  BY <1>2, PostCheckpointStep
<1>3. CASE PostExit \/ Connect \/ Disconnect
  BY <1>3, TabStep
<1> QED BY <1>1, <1>2, <1>3 DEF Browser

LEMMA InvStep == Inv /\ [Next]_vars => Outcome
<1> SUFFICES ASSUME Inv, [Next]_vars PROVE Outcome
  OBVIOUS
<1>1. CASE Browser
  BY <1>1, BrowserStep
<1>2. CASE \E a \in Agents : Agent(a)
  BY <1>2, AgentStep
<1>3. CASE \E k \in DOMAIN queue : LeaseEnds(k)
  BY <1>3, LeaseEndsStep
<1>4. CASE ExitTimerFires
  BY <1>4, TabStep
<1>5. CASE LeaseTimerFires
  BY <1>5, LeaseTimerFiresStep
<1>6. CASE Crash \/ Restart
  BY <1>6, CrashStep, RestartStep
<1>7. CASE UNCHANGED vars
  <2>1. UNCHANGED <<up, queue, leaseTimer, clients, exitTimer, journal, agent, source, parted, slipped, faults>>
    BY <1>7 DEF vars, server, ghosts
  <2>2. clients' \in 0..MaxClients /\ exitTimer' \in BOOLEAN
    BY <2>1 DEF Inv, TypeOK
  <2> QED BY <2>1, <2>2, SameSource, AsideStep
<1> QED BY <1>1, <1>2, <1>3, <1>4, <1>5, <1>6, <1>7 DEF Next

LEMMA Invariance == Spec => []Inv
<1>1. Inv /\ [Next]_vars => Inv'
  BY InvStep DEF Outcome
<1> QED BY InitInv, <1>1, PTL DEF Spec

\* The queue holds requests of sessions and exits, and only a request can be
\* leased; agents handle only what was queued (live-server.mjs:62-143).
THEOREM ServerTypeCorrect == Spec => []TypeOK
<1>1. Inv => TypeOK
  BY DEF Inv
<1> QED BY <1>1, Invariance, PTL

\* A request is queued once, whatever is sent again and whatever is restored
\* (enqueueEvent, restorePendingEventsFromStore).
THEOREM RequestsQueuedOnce == Spec => []QueuedOnce
<1>1. Inv => QueuedOnce
  BY DEF Inv
<1> QED BY <1>1, Invariance, PTL

\* What live-resume tells the agent to poll for is in the queue of the server
\* that runs, after any restart and any answer, unless a failed write has
\* parted the journal and the queue.
THEOREM ResumedWorkIsQueued == Spec => []ResumeFindsWork
<1>1. Inv => ResumeFindsWork
  <2> SUFFICES ASSUME Inv, NEW i \in Ids \ parted, up, NextAction(journal[i]) = "poll"
               PROVE  \E k \in DOMAIN queue : queue[k].id = i /\ queue[k].type = journal[i].pending
    BY DEF ResumeFindsWork
  <2>1. journal[i].pending # "none"
    BY DEF NextAction
  <2>2. <<i, journal[i].pending>> \in InQueue(queue)
    BY <2>1 DEF Inv, Remembered
  <2> QED BY <2>2 DEF InQueue
<1> QED BY <1>1, Invariance, PTL

\* No poll sleeps beside an event that nobody was handed, and none waits for
\* a lease without a timer, for any number of polls (flushPendingPolls,
\* scheduleLeaseFlush); only a lease that ends between two looks at the clock
\* is missed.
THEOREM WakeupsAreNotMissed == Spec => []NoMissedWakeup
<1>1. Inv => NoMissedWakeup
  BY DEF Inv, WaitingIsServed, NoMissedWakeup, Held
<1> QED BY <1>1, Invariance, PTL

\* The server with its leases, polls, timers, interrupted agents and restarts
\* implements LiveDelivery: no request is lost or invented.
THEOREM DeliveryKept == Spec => KeepsDelivery
<1> SUFFICES Spec => Delivery!Spec
  BY DEF KeepsDelivery
<1>1. Inv /\ [Next]_vars => [Delivery!Next]_(Delivery!vars)
  BY InvStep DEF Outcome, Delivers
<1> QED BY InitInv, <1>1, Invariance, PTL DEF Spec, Delivery!Spec

=============================================================================
