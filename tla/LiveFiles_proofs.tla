-------------------------- MODULE LiveFiles_proofs --------------------------
(***************************************************************************)
(* Two arguments about the files of live mode, for every value of the      *)
(* constants.  The first is about live-inject alone: a removal gives back  *)
(* what was there before an injection, an injection from another port      *)
(* replaces the first, and the policy lets in the port of the tag.  The    *)
(* second is about all the scripts together: every line that starts a tag, *)
(* a marker block or a wrapper has the line that ends it, the pairs do not *)
(* cross, and every step of every script cuts and pastes whole pairs.      *)
(***************************************************************************)
EXTENDS LiveFiles, Places_proofs

TagKinds == {"tagStart", "script", "tagEnd"}

PlainLines ==
  [kind : Kinds \ TagKinds, of : Elements \cup {None}, by : Sessions \cup {None},
   n : 0..Variants \cup Ports, in : Nat]

\* The files without a tag, whose policy is the author's.
Untagged ==
  {f \in Seq(PlainLines) : \A k \in DOMAIN f : f[k].kind = "policy" => f[k].n = 0}

\* insertBefore or insertAfter, of config.json.
Inserts == {"before", "after"}

-----------------------------------------------------------------------------
(* One edit after the other *)

\* The policy of a line let in the port, and taken back.
Patched(l, port) == IF l.kind = "policy" /\ l.n = 0 THEN [l EXCEPT !.n = port] ELSE l

Reverted(l) == IF l.kind = "policy" THEN [l EXCEPT !.n = 0] ELSE l

LEMMA PatchFacts ==
  ASSUME NEW l \in PlainLines, l.kind = "policy" => l.n = 0, NEW port \in Ports
  PROVE  /\ Patched(l, port) \in PlainLines
         /\ Reverted(Patched(l, port)) = l /\ Reverted(l) = l
         /\ Patched(l, port).kind = l.kind /\ Patched(l, port).in = l.in
         /\ l.kind = "policy" => Patched(l, port).n = port
<1>1. CASE l.kind = "policy"
  <2>1. Patched(l, port) = [l EXCEPT !.n = port]
    BY <1>1 DEF Patched
  <2> QED BY <1>1, <2>1 DEF PlainLines, Reverted
<1>2. CASE l.kind # "policy"
  BY <1>2 DEF Patched, Reverted
<1> QED BY <1>1, <1>2

LEMMA PatchedFile ==
  ASSUME NEW f \in Untagged, NEW port \in Ports
  PROVE  /\ PatchCspMeta(f, port) \in Seq(PlainLines)
         /\ Len(PatchCspMeta(f, port)) = Len(f)
         /\ \A k \in 1..Len(f) : PatchCspMeta(f, port)[k] = Patched(f[k], port)
         /\ RevertCspMeta(PatchCspMeta(f, port)) = f
         /\ RevertCspMeta(f) = f
<1> DEFINE g == PatchCspMeta(f, port)
<1>1. /\ f \in Seq(PlainLines) /\ DOMAIN f = 1..Len(f) /\ Len(f) \in Nat
      /\ \A k \in 1..Len(f) : f[k] \in PlainLines /\ (f[k].kind = "policy" => f[k].n = 0)
  BY DEF Untagged
<1>2. g = [k \in 1..Len(f) |-> Patched(f[k], port)]
  BY <1>1 DEF PatchCspMeta, Patched
<1> HIDE DEF g
<1>3. \A k \in 1..Len(f) : Patched(f[k], port) \in PlainLines /\ Reverted(Patched(f[k], port)) = f[k]
      /\ Reverted(f[k]) = f[k]
  BY <1>1, PatchFacts
<1>4. g \in Seq(PlainLines) /\ Len(g) = Len(f) /\ DOMAIN g = 1..Len(f)
  BY <1>1, <1>2, <1>3
<1>5. RevertCspMeta(g) = [k \in 1..Len(f) |-> Reverted(g[k])]
  BY <1>4 DEF RevertCspMeta, Reverted
<1>6. RevertCspMeta(f) = [k \in 1..Len(f) |-> Reverted(f[k])]
  BY <1>1 DEF RevertCspMeta, Reverted
<1>7. f = [k \in 1..Len(f) |-> f[k]]
  BY <1>1
<1>8. RevertCspMeta(g) = f /\ RevertCspMeta(f) = f
  BY <1>2, <1>3, <1>5, <1>6, <1>7
<1> QED BY <1>2, <1>4, <1>8 DEF g

LEMMA RevertedFile ==
  ASSUME NEW f \in Untagged
  PROVE  RevertCspMeta(f) = f
<1>1. /\ f \in Seq(PlainLines) /\ DOMAIN f = 1..Len(f)
      /\ \A k \in 1..Len(f) : f[k] \in PlainLines /\ (f[k].kind = "policy" => f[k].n = 0)
  BY DEF Untagged
<1>2. \A k \in 1..Len(f) : Reverted(f[k]) = f[k]
  BY <1>1 DEF PlainLines, Reverted
<1>3. RevertCspMeta(f) = [k \in 1..Len(f) |-> Reverted(f[k])]
  BY <1>1 DEF RevertCspMeta, Reverted
<1>4. f = [k \in 1..Len(f) |-> f[k]]
  BY <1>1
<1> QED BY <1>2, <1>3, <1>4

\* g is f with the tag for port before line a, to which x of the line's
\* indentation has gone.
WithTag(g, f, a, x, port) ==
  /\ a \in 1..(Len(f) + 1) /\ x \in Nat
  /\ a = Len(f) + 1 => x = 0
  /\ g = [j \in 1..(Len(f) + 3) |->
            IF j < a THEN f[j]
            ELSE IF j = a THEN At("tagStart", None, x)
            ELSE IF j = a + 1 THEN At("script", port, 0)
            ELSE IF j = a + 2 THEN At("tagEnd", None, 0)
            ELSE IF j = a + 3 THEN [f[a] EXCEPT !.in = @ - x]
            ELSE f[j - 3]]

LEMMA ConcatOfFour ==
  ASSUME NEW a, NEW b, NEW c, NEW d
  PROVE  /\ <<a, b, c>> \o <<d>> = <<a, b, c, d>>
         /\ <<a>> \o <<b, c, d>> = <<a, b, c, d>>
<1> DEFINE S == {a, b, c, d}
<1>1. /\ <<a, b, c>> \in Seq(S) /\ <<d>> \in Seq(S) /\ <<a>> \in Seq(S) /\ <<b, c, d>> \in Seq(S)
      /\ Len(<<a, b, c>>) = 3 /\ Len(<<d>>) = 1 /\ Len(<<a>>) = 1 /\ Len(<<b, c, d>>) = 3
  BY SeqDef
<1>2. <<a, b, c>> \o <<d>> = Joined(<<a, b, c>>, <<d>>)
  BY <1>1, ConcatPlaces
<1>3. <<a>> \o <<b, c, d>> = Joined(<<a>>, <<b, c, d>>)
  BY <1>1, ConcatPlaces
<1>4. <<a, b, c, d>> = [i \in 1..4 |-> IF i = 1 THEN a ELSE IF i = 2 THEN b ELSE IF i = 3 THEN c ELSE d]
  OBVIOUS
<1>5. <<a, b, c>> \o <<d>>
        = [i \in 1..4 |-> IF i = 1 THEN a ELSE IF i = 2 THEN b ELSE IF i = 3 THEN c ELSE d]
  BY <1>1, <1>2 DEF Joined
<1>6. <<a>> \o <<b, c, d>>
        = [i \in 1..4 |-> IF i = 1 THEN a ELSE IF i = 2 THEN b ELSE IF i = 3 THEN c ELSE d]
  BY <1>1, <1>3 DEF Joined
<1> QED BY <1>4, <1>5, <1>6

\* f with ls for line k.
Replaced(f, k, ls) ==
  [j \in 1..(Len(f) - 1 + Len(ls)) |->
     IF j < k THEN f[j]
     ELSE IF j < k + Len(ls) THEN ls[j - k + 1]
     ELSE f[j - Len(ls) + 1]]

ReplacedByFour(f, k, a, b, c, d) ==
  [j \in 1..(Len(f) + 3) |->
     IF j < k THEN f[j] ELSE IF j = k THEN a ELSE IF j = k + 1 THEN b
     ELSE IF j = k + 2 THEN c ELSE IF j = k + 3 THEN d ELSE f[j - 3]]

LEMMA SplicedPlaces ==
  ASSUME NEW S, NEW f \in Seq(S), NEW ls \in Seq(S), NEW k \in 1..Len(f)
  PROVE  Spliced(f, <<k, k>>, ls) = Replaced(f, k, ls)
<1> DEFINE head == SubSeq(f, 1, k - 1)
           rest == SubSeq(f, k + 1, Len(f))
           both == head \o ls
<1>1. Spliced(f, <<k, k>>, ls) = both \o rest
  BY DEF Spliced
<1>2. Len(f) \in Nat /\ Len(ls) \in Nat /\ k \in Nat
  OBVIOUS
<1>3. /\ head \in Seq(S) /\ Len(head) = k - 1
      /\ \A j \in 1..(k - 1) : head[j] = f[j]
  BY <1>2
<1>4. /\ rest \in Seq(S) /\ Len(rest) = Len(f) - k
      /\ \A j \in 1..(Len(f) - k) : rest[j] = f[j + k]
  BY <1>2
<1> HIDE DEF head, rest
<1>5. /\ both \in Seq(S) /\ Len(both) = k - 1 + Len(ls)
      /\ both = [j \in 1..(k - 1 + Len(ls)) |-> IF j <= k - 1 THEN head[j] ELSE ls[j - (k - 1)]]
  <2>1. both \in Seq(S) /\ Len(both) = Len(head) + Len(ls)
    BY <1>3, ConcatProperties
  <2>2. both = Joined(head, ls)
    BY <1>3, ConcatPlaces
  <2> HIDE DEF both
  <2> QED BY <1>2, <1>3, <2>1, <2>2 DEF Joined
<1> HIDE DEF both
<1>6. both \o rest
        = [j \in 1..(Len(f) - 1 + Len(ls)) |->
             IF j <= k - 1 + Len(ls) THEN both[j] ELSE rest[j - (k - 1 + Len(ls))]]
  <2>1. Len(both) + Len(rest) = Len(f) - 1 + Len(ls)
    BY <1>2, <1>4, <1>5
  <2>2. both \o rest = Joined(both, rest)
    BY <1>4, <1>5, ConcatPlaces
  <2> QED BY <1>5, <2>1, <2>2 DEF Joined
<1>7. ASSUME NEW j \in 1..(Len(f) - 1 + Len(ls))
      PROVE  (IF j <= k - 1 + Len(ls) THEN both[j] ELSE rest[j - (k - 1 + Len(ls))])
               = IF j < k THEN f[j]
                 ELSE IF j < k + Len(ls) THEN ls[j - k + 1]
                 ELSE f[j - Len(ls) + 1]
  <2>1. CASE j < k
    <3>1. j \in 1..(k - 1) /\ j \in 1..(k - 1 + Len(ls)) /\ j <= k - 1 /\ j <= k - 1 + Len(ls)
      BY <1>2, <2>1
    <3>2. both[j] = head[j] /\ head[j] = f[j]
      BY <1>3, <1>5, <3>1
    <3> QED BY <2>1, <3>1, <3>2
  <2>2. CASE ~(j < k) /\ j < k + Len(ls)
    <3>1. j \in 1..(k - 1 + Len(ls)) /\ ~(j <= k - 1) /\ j <= k - 1 + Len(ls)
          /\ j - (k - 1) = j - k + 1
      BY <1>2, <2>2
    <3>2. both[j] = ls[j - k + 1]
      BY <1>5, <3>1
    <3> QED BY <2>2, <3>1, <3>2
  <2>3. CASE ~(j < k + Len(ls))
    <3>1. /\ ~(j < k) /\ ~(j <= k - 1 + Len(ls))
          /\ j - (k - 1 + Len(ls)) \in 1..(Len(f) - k)
          /\ j - (k - 1 + Len(ls)) + k = j - Len(ls) + 1
      BY <1>2, <2>3
    <3>2. rest[j - (k - 1 + Len(ls))] = f[j - Len(ls) + 1]
      BY <1>4, <3>1
    <3> QED BY <2>3, <3>1, <3>2
  <2> QED BY <2>1, <2>2, <2>3
<1> QED BY <1>1, <1>6, <1>7 DEF Replaced

LEMMA SplicedFour ==
  ASSUME NEW S, NEW f \in Seq(S), NEW k \in 1..Len(f),
         NEW a \in S, NEW b \in S, NEW c \in S, NEW d \in S
  PROVE  Spliced(f, <<k, k>>, <<a, b, c, d>>) = ReplacedByFour(f, k, a, b, c, d)
<1> DEFINE ls == <<a, b, c, d>>
<1>1. /\ ls \in Seq(S) /\ Len(ls) = 4
      /\ ls[1] = a /\ ls[2] = b /\ ls[3] = c /\ ls[4] = d
  OBVIOUS
<1> HIDE DEF ls
<1>2. Len(f) \in Nat /\ k \in Nat
  OBVIOUS
<1>3. Spliced(f, <<k, k>>, ls) = Replaced(f, k, ls)
  BY <1>1, SplicedPlaces
<1>4. Spliced(f, <<k, k>>, ls)
        = [j \in 1..(Len(f) + 3) |->
             IF j < k THEN f[j]
             ELSE IF j < k + 4 THEN ls[j - k + 1]
             ELSE f[j - 4 + 1]]
  BY <1>1, <1>2, <1>3 DEF Replaced
<1>5. ASSUME NEW j \in 1..(Len(f) + 3)
      PROVE  (IF j < k THEN f[j] ELSE IF j < k + 4 THEN ls[j - k + 1] ELSE f[j - 4 + 1])
               = IF j < k THEN f[j] ELSE IF j = k THEN a ELSE IF j = k + 1 THEN b
                 ELSE IF j = k + 2 THEN c ELSE IF j = k + 3 THEN d ELSE f[j - 3]
  <2>1. CASE j < k
    BY <2>1
  <2>2. CASE j = k \/ j = k + 1 \/ j = k + 2 \/ j = k + 3
    <3>1. j < k + 4 /\ ~(j < k)
      BY <1>2, <2>2
    <3>2. (j = k => j - k + 1 = 1) /\ (j = k + 1 => j - k + 1 = 2)
            /\ (j = k + 2 => j - k + 1 = 3) /\ (j = k + 3 => j - k + 1 = 4)
      BY <1>2
    <3> QED BY <1>1, <1>2, <2>2, <3>1, <3>2
  <2>3. CASE ~(j < k + 4)
    <3>1. j - 4 + 1 = j - 3 /\ ~(j < k) /\ j # k /\ j # k + 1 /\ j # k + 2 /\ j # k + 3
      BY <1>2, <2>3
    <3> QED BY <2>3, <3>1
  <2>4. j < k \/ j = k \/ j = k + 1 \/ j = k + 2 \/ j = k + 3 \/ ~(j < k + 4)
    BY <1>2
  <2> QED BY <2>1, <2>2, <2>3, <2>4
<1> QED BY <1>4, <1>5 DEF ls, ReplacedByFour

Anchors(f) == {k \in 1..Len(f) : f[k].kind = "anchor"}

\* insertTag, before the last anchor or after the first one.
LEMMA InsertedFile ==
  ASSUME NEW f \in Seq(PlainLines), NEW port, NEW where \in Inserts
  PROVE  /\ Anchors(f) = {} => InsertTag(f, port, where) = f
         /\ Anchors(f) # {} =>
              \E a \in 1..(Len(f) + 1), x \in Nat : WithTag(InsertTag(f, port, where), f, a, x, port)
<1> DEFINE S == Anchors(f)
           g == InsertTag(f, port, where)
           tag(in) == <<At("tagStart", None, in), At("script", port, 0), At("tagEnd", None, 0)>>
<1>1. /\ DOMAIN f = 1..Len(f) /\ Len(f) \in Nat
      /\ \A k \in 1..Len(f) : f[k] \in PlainLines
  OBVIOUS
<1>2. Lines(f, 1, Len(f), LAMBDA l : l.kind = "anchor") = S
  BY <1>1 DEF Lines, Anchors
<1>3. CASE S = {}
  BY <1>2, <1>3 DEF InsertTag
<1>4. CASE S # {}
  <2>1. S \in SUBSET (1..Len(f)) /\ Min(S) \in S /\ Max(S) \in S
    BY <1>1, <1>4, MinMaxFacts DEF Anchors
  <2>2. CASE where = "before"
    <3> DEFINE k == Max(S)
    <3>1. g = Spliced(f, <<k, k>>, tag(f[k].in) \o <<[f[k] EXCEPT !.in = 0]>>)
      BY <1>2, <1>4, <2>2 DEF InsertTag
    <3>2. k \in 1..Len(f)
      BY <2>1
    <3> HIDE DEF g, k, S
    <3>3. f[k] \in PlainLines /\ f[k].in \in Nat
      BY <1>1, <3>2 DEF PlainLines
    <3>4. [f[k] EXCEPT !.in = 0] = [f[k] EXCEPT !.in = @ - f[k].in]
      BY <3>3
    <3> DEFINE x == f[k].in
               l1 == At("tagStart", None, x)
               l2 == At("script", port, 0)
               l3 == At("tagEnd", None, 0)
               l4 == [f[k] EXCEPT !.in = 0]
               L == PlainLines \cup {l1, l2, l3, l4}
    <3>5. tag(x) \o <<l4>> = <<l1, l2, l3, l4>>
      BY ConcatOfFour
    <3>6. g = Spliced(f, <<k, k>>, <<l1, l2, l3, l4>>)
      BY <3>1, <3>5
    <3> HIDE DEF x, l1, l2, l3, l4
    <3>7. f \in Seq(L) /\ l1 \in L /\ l2 \in L /\ l3 \in L /\ l4 \in L
      BY SeqDef
    <3>9. g = [j \in 1..(Len(f) + 3) |->
                 IF j < k THEN f[j] ELSE IF j = k THEN l1 ELSE IF j = k + 1 THEN l2
                 ELSE IF j = k + 2 THEN l3 ELSE IF j = k + 3 THEN l4 ELSE f[j - 3]]
      <4>1. g = ReplacedByFour(f, k, l1, l2, l3, l4)
        <5> HIDE DEF L
        <5> QED BY <3>2, <3>6, <3>7, SplicedFour
      <4> QED BY <4>1 DEF ReplacedByFour
    <3>10. WithTag(g, f, k, x, port)
      BY <1>1, <3>2, <3>3, <3>4, <3>9 DEF WithTag, x, l1, l2, l3, l4
    <3> QED BY <1>1, <1>4, <3>2, <3>3, <3>10 DEF g, S, x
  <2>3. CASE where # "before"
    <3> DEFINE k == Min(S)
               l1 == At("tagStart", None, 0)
               l2 == At("script", port, 0)
               l3 == At("tagEnd", None, 0)
               l4 == f[k]
               L == PlainLines \cup {l1, l2, l3}
    <3>1. g = Spliced(f, <<k, k>>, <<f[k]>> \o tag(0))
      BY <1>2, <1>4, <2>3 DEF InsertTag
    <3>2. k \in 1..Len(f)
      BY <2>1
    <3>3. <<f[k]>> \o tag(0) = <<l4, l1, l2, l3>>
      BY ConcatOfFour
    <3> HIDE DEF g, k, S, l1, l2, l3
    <3>4. f[k] \in PlainLines /\ \A j \in 1..Len(f) : f[j] = [f[j] EXCEPT !.in = @ - 0]
      BY <1>1, <3>2 DEF PlainLines
    <3>5. f \in Seq(L) /\ l1 \in L /\ l2 \in L /\ l3 \in L /\ l4 \in L
      BY <3>4, SeqDef
    <3>6. g = [j \in 1..(Len(f) + 3) |->
                 IF j < k THEN f[j] ELSE IF j = k THEN l4 ELSE IF j = k + 1 THEN l1
                 ELSE IF j = k + 2 THEN l2 ELSE IF j = k + 3 THEN l3 ELSE f[j - 3]]
      <4>1. g = Spliced(f, <<k, k>>, <<l4, l1, l2, l3>>)
        BY <3>1, <3>3
      <4>2. g = ReplacedByFour(f, k, l4, l1, l2, l3)
        <5> HIDE DEF L, l4
        <5> QED BY <4>1, <3>2, <3>5, SplicedFour
      <4> HIDE DEF l4
      <4> QED BY <4>2 DEF ReplacedByFour
    <3>7. g = [j \in 1..(Len(f) + 3) |->
                 IF j < k + 1 THEN f[j] ELSE IF j = k + 1 THEN l1 ELSE IF j = k + 2 THEN l2
                 ELSE IF j = k + 3 THEN l3 ELSE f[j - 3]]
      <4>1. l4 = f[k]
        OBVIOUS
      <4> HIDE DEF l4
      <4> QED BY <1>1, <3>2, <3>6, <4>1
    <3>8. WithTag(g, f, k + 1, 0, port)
      <4> DEFINE h == [j \in 1..(Len(f) + 3) |->
            IF j < k + 1 THEN f[j]
            ELSE IF j = k + 1 THEN l1
            ELSE IF j = k + 1 + 1 THEN l2
            ELSE IF j = k + 1 + 2 THEN l3
            ELSE IF j = k + 1 + 3 THEN [f[k + 1] EXCEPT !.in = @ - 0]
            ELSE f[j - 3]]
      <4>1. g = h
        <5>1. \A j \in 1..(Len(f) + 3) : j = k + 1 + 3 => [f[k + 1] EXCEPT !.in = @ - 0] = f[j - 3]
          BY <1>1, <3>2, <3>4
        <5> QED BY <1>1, <3>2, <3>7, <5>1
      <4>2. k + 1 \in 1..(Len(f) + 1)
        BY <1>1, <3>2
      <4> QED BY <4>1, <4>2 DEF WithTag, l1, l2, l3
    <3> QED BY <1>1, <1>4, <3>2, <3>8 DEF g, S
  <2> QED BY <2>2, <2>3
<1> QED BY <1>3, <1>4

-----------------------------------------------------------------------------
(* removeTag *)

NoTag(f) == \A k \in 1..Len(f) : f[k].kind # "tagStart"

\* Without a tag, removeTag does nothing.
LEMMA NothingRemoved ==
  ASSUME NEW f, DOMAIN f = 1..Len(f), NoTag(f)
  PROVE  RemoveTag(f) = f
<1>1. Lines(f, 1, Len(f), LAMBDA l : l.kind = "tagStart") = {}
  BY DEF NoTag, Lines
<1> QED BY <1>1 DEF RemoveTag, First

\* What a file with a tag looks like, line by line.
TagPlaces(g, f, a, x, port) ==
  /\ Len(g) = Len(f) + 3 /\ DOMAIN g = 1..(Len(f) + 3)
  /\ \A j \in 1..(a - 1) : g[j] = f[j]
  /\ g[a] = At("tagStart", None, x)
  /\ g[a + 1] = At("script", port, 0)
  /\ g[a + 2] = At("tagEnd", None, 0)
  /\ a <= Len(f) => g[a + 3] = [f[a] EXCEPT !.in = @ - x]
  /\ \A j \in (a + 4)..(Len(f) + 3) : g[j] = f[j - 3]

LEMMA WithTagPlaces ==
  ASSUME NEW f \in Seq(PlainLines), NEW a, NEW x, NEW port, NEW g, WithTag(g, f, a, x, port)
  PROVE  TagPlaces(g, f, a, x, port)
<1>1. a \in 1..(Len(f) + 1) /\ Len(f) \in Nat /\ a \in Nat /\ a - 1 \in Int
  BY DEF WithTag
<1> DEFINE at(j) == IF j < a THEN f[j]
                    ELSE IF j = a THEN At("tagStart", None, x)
                    ELSE IF j = a + 1 THEN At("script", port, 0)
                    ELSE IF j = a + 2 THEN At("tagEnd", None, 0)
                    ELSE IF j = a + 3 THEN [f[a] EXCEPT !.in = @ - x]
                    ELSE f[j - 3]
<1>2. g = [j \in 1..(Len(f) + 3) |-> at(j)]
  BY DEF WithTag
<1> HIDE DEF at
<1>3. DOMAIN g = 1..(Len(f) + 3) /\ \A j \in 1..(Len(f) + 3) : g[j] = at(j)
  BY <1>2
<1>4. Len(g) = Len(f) + 3
  BY <1>1, <1>3
<1>5. ASSUME NEW j \in 1..(a - 1) PROVE g[j] = f[j]
  BY <1>1, <1>3 DEF at
<1>6. g[a] = at(a) /\ g[a + 1] = at(a + 1) /\ g[a + 2] = at(a + 2)
  BY <1>1, <1>3
<1>7. /\ at(a) = At("tagStart", None, x) /\ at(a + 1) = At("script", port, 0)
      /\ at(a + 2) = At("tagEnd", None, 0) /\ at(a + 3) = [f[a] EXCEPT !.in = @ - x]
  BY <1>1 DEF at
<1>8. a <= Len(f) => g[a + 3] = at(a + 3)
  BY <1>1, <1>3
<1>9. ASSUME NEW j \in (a + 4)..(Len(f) + 3) PROVE g[j] = f[j - 3]
  BY <1>1, <1>3 DEF at
<1> QED BY <1>3, <1>4, <1>5, <1>6, <1>7, <1>8, <1>9 DEF TagPlaces

\* The kinds of the lines of a file with a tag.
LEMMA WithTagKinds ==
  ASSUME NEW f \in Seq(PlainLines), NEW a, NEW x, NEW port, NEW g, WithTag(g, f, a, x, port)
  PROVE  /\ a \in 1..(Len(f) + 1)
         /\ g[a].kind = "tagStart" /\ g[a].in = x /\ g[a + 1].kind = "script"
         /\ g[a + 1].n = port /\ g[a + 2].kind = "tagEnd"
         /\ \A j \in 1..(Len(f) + 3) :
              j \notin {a, a + 1, a + 2} =>
                \E i \in 1..Len(f) : g[j].kind = f[i].kind /\ g[j].n = f[i].n
<1>1. a \in 1..(Len(f) + 1) /\ Len(f) \in Nat /\ a \in Nat
  BY DEF WithTag
<1>2. TagPlaces(g, f, a, x, port)
  BY WithTagPlaces
<1>3. g[a] = At("tagStart", None, x) /\ g[a + 1] = At("script", port, 0) /\ g[a + 2] = At("tagEnd", None, 0)
  BY <1>2 DEF TagPlaces
<1>4. /\ g[a].kind = "tagStart" /\ g[a].in = x /\ g[a + 1].kind = "script"
      /\ g[a + 1].n = port /\ g[a + 2].kind = "tagEnd"
  BY <1>3 DEF At, Line
<1>5. ASSUME NEW j \in 1..(Len(f) + 3), j \notin {a, a + 1, a + 2}
      PROVE  \E i \in 1..Len(f) : g[j].kind = f[i].kind /\ g[j].n = f[i].n
  <2>1. CASE j < a
    <3>1. j \in 1..(a - 1) /\ j \in 1..Len(f)
      BY <1>1, <2>1
    <3>2. g[j] = f[j]
      BY <1>2, <3>1 DEF TagPlaces
    <3> QED BY <3>1, <3>2
  <2>2. CASE j = a + 3
    <3>1. a \in 1..Len(f) /\ a <= Len(f)
      BY <1>1, <2>2
    <3>2. g[a + 3] = [f[a] EXCEPT !.in = @ - x]
      BY <1>2, <3>1 DEF TagPlaces
    <3>3. f[a] \in PlainLines
      BY <3>1
    <3>4. g[a + 3].kind = f[a].kind /\ g[a + 3].n = f[a].n
      BY <3>2, <3>3 DEF PlainLines
    <3> QED BY <2>2, <3>1, <3>4
  <2>3. CASE j > a + 3
    <3>1. j \in (a + 4)..(Len(f) + 3) /\ j - 3 \in 1..Len(f)
      BY <1>1, <2>3
    <3>2. g[j] = f[j - 3]
      BY <1>2, <3>1 DEF TagPlaces
    <3> QED BY <3>1, <3>2
  <2> QED BY <1>1, <1>5, <2>1, <2>2, <2>3
<1> QED BY <1>1, <1>4, <1>5

\* A sequence as the part before a place and the rest from it.
LEMMA HeadAndRest ==
  ASSUME NEW S, NEW f \in Seq(S), NEW a \in 1..(Len(f) + 1),
         NEW head \in Seq(S), Len(head) = a - 1, \A j \in 1..(a - 1) : head[j] = f[j],
         NEW rest \in Seq(S), Len(rest) = Len(f) + 1 - a,
         \A j \in 1..(Len(f) + 1 - a) : rest[j] = f[j + a - 1]
  PROVE  head \o rest = f
<1>1. Len(f) \in Nat /\ a \in Nat
  OBVIOUS
<1>2. head \o rest = Joined(head, rest)
  BY ConcatPlaces
<1>3. Len(head) + Len(rest) = Len(f)
  BY <1>1
<1>4. head \o rest = [j \in 1..Len(f) |-> IF j <= a - 1 THEN head[j] ELSE rest[j - (a - 1)]]
  BY <1>2, <1>3 DEF Joined
<1>5. ASSUME NEW j \in 1..Len(f)
      PROVE  (IF j <= a - 1 THEN head[j] ELSE rest[j - (a - 1)]) = f[j]
  <2>1. CASE j <= a - 1
    BY <1>1, <2>1
  <2>2. CASE ~(j <= a - 1)
    <3>1. j - (a - 1) \in 1..(Len(f) + 1 - a) /\ j - (a - 1) + a - 1 = j
      BY <1>1, <2>2
    <3> QED BY <2>2, <3>1
  <2> QED BY <2>1, <2>2
<1>6. f = [j \in 1..Len(f) |-> f[j]]
  OBVIOUS
<1> QED BY <1>4, <1>5, <1>6

\* The indentation that went to the tag comes back.
LEMMA IndentedBack ==
  ASSUME NEW l \in PlainLines, NEW x \in Nat
  PROVE  [[l EXCEPT !.in = @ - x] EXCEPT !.in = @ + x] = l
<1> DEFINE m == [l EXCEPT !.in = @ - x]
<1>1. m.in = l.in - x /\ l.in \in Nat
  BY DEF PlainLines
<1>2. m.in + x = l.in
  BY <1>1
<1>3. [m EXCEPT !.in = l.in] = l
  BY DEF PlainLines
<1> QED BY <1>2, <1>3

\* removeTag takes out what insertTag put in, the indentation included.
LEMMA RemovedFile ==
  ASSUME NEW f \in Seq(PlainLines), NEW a, NEW x, NEW port, NEW g, WithTag(g, f, a, x, port)
  PROVE  RemoveTag(g) = f
<1>1. a \in 1..(Len(f) + 1) /\ Len(f) \in Nat /\ a \in Nat /\ x \in Nat
  BY DEF WithTag
<1>2. TagPlaces(g, f, a, x, port)
  BY WithTagPlaces
<1>3. Len(g) = Len(f) + 3 /\ DOMAIN g = 1..(Len(f) + 3)
  BY <1>2 DEF TagPlaces
<1>4. /\ g[a].kind = "tagStart" /\ g[a].in = x /\ g[a + 1].kind = "script" /\ g[a + 2].kind = "tagEnd"
      /\ \A j \in 1..(Len(f) + 3) :
           j \notin {a, a + 1, a + 2} => \E i \in 1..Len(f) : g[j].kind = f[i].kind
  BY WithTagKinds
<1>5. \A i \in 1..Len(f) : f[i].kind \notin TagKinds
  <2>1. \A l \in PlainLines : l.kind \notin TagKinds
    BY DEF PlainLines
  <2> QED BY <2>1
<1>6. \A j \in 1..(Len(f) + 3) : (g[j].kind = "tagStart" <=> j = a) /\ (g[j].kind = "tagEnd" <=> j = a + 2)
  <2>1. ASSUME NEW j \in 1..(Len(f) + 3), j \notin {a, a + 1, a + 2}
        PROVE  g[j].kind # "tagStart" /\ g[j].kind # "tagEnd" /\ j # a /\ j # a + 2
    BY <1>4, <1>5, <2>1 DEF TagKinds
  <2>2. a # a + 2 /\ a # a + 1 /\ a + 1 # a + 2
    BY <1>1
  <2> QED BY <1>4, <2>1, <2>2
<1>7. Lines(g, 1, Len(g), LAMBDA l : l.kind = "tagStart") = {a}
  <2>1. {j \in 1..Len(g) : j \in DOMAIN g /\ g[j].kind = "tagStart"} = {a}
    BY <1>1, <1>3, <1>6
  <2> QED BY <2>1, Zenon DEF Lines
<1>8. Lines(g, a, Len(g), LAMBDA l : l.kind = "tagEnd") = {a + 2}
  <2>1. {j \in a..Len(g) : j \in DOMAIN g /\ g[j].kind = "tagEnd"} = {a + 2}
    BY <1>1, <1>3, <1>6
  <2> QED BY <2>1, Zenon DEF Lines
<1> DEFINE head == SubSeq(g, 1, a - 1)
           tail == SubSeq(g, a + 3, Len(g))
           rest == [k \in DOMAIN tail |-> IF k = 1 THEN [tail[1] EXCEPT !.in = @ + g[a].in] ELSE tail[k]]
           S == PlainLines \cup {g[j] : j \in 1..Len(g)}
<1>9. First({a}, 0) = a /\ First({a + 2}, 0) = a + 2 /\ a # 0 /\ a + 2 # 0
  <2>1. Min({a}) = a /\ Min({a + 2}) = a + 2 /\ {a} # {} /\ {a + 2} # {}
    BY <1>1, MinOfOne
  <2> QED BY <1>1, <2>1 DEF First
<1>10. RemoveTag(g) = head \o rest
  <2>1. a + 2 + 1 = a + 3
    BY <1>1
  <2> QED BY <1>7, <1>8, <1>9, <2>1 DEF RemoveTag
<1>11. g \in Seq(S)
  <2>1. \A j \in 1..Len(g) : g[j] \in S
    OBVIOUS
  <2>2. g = [j \in 1..(Len(f) + 3) |-> g[j]] /\ Len(f) + 3 \in Nat
    BY <1>1, <1>3 DEF WithTag
  <2> HIDE DEF S
  <2> QED BY <1>3, <2>1, <2>2, SeqDef
<1>12. head \in Seq(PlainLines) /\ Len(head) = a - 1 /\ \A j \in 1..(a - 1) : head[j] = f[j]
  <2>1. head = [j \in 1..(a - 1) |-> g[j]]
    BY <1>1, <1>3, <1>11, SubSeqProperties
  <2>2. \A j \in 1..(a - 1) : g[j] = f[j] /\ f[j] \in PlainLines
    BY <1>1, <1>2 DEF TagPlaces
  <2>3. a - 1 \in Nat
    BY <1>1
  <2> HIDE DEF head
  <2> QED BY <2>1, <2>2, <2>3, SeqDef
<1>13. /\ DOMAIN tail = 1..(Len(f) + 1 - a)
       /\ \A j \in 1..(Len(f) + 1 - a) : tail[j] = g[a + 2 + j]
  <2>1. /\ tail \in Seq(S) /\ Len(tail) = (IF a + 3 <= Len(g) THEN Len(g) - (a + 3) + 1 ELSE 0)
        /\ \A j \in 1..(Len(g) - (a + 3) + 1) : tail[j] = g[a + 3 + j - 1]
    <3>1. a + 3 \in Int /\ Len(g) \in Int /\ \A j \in (a + 3)..Len(g) : g[j] \in S
      BY <1>1, <1>3
    <3> HIDE DEF S
    <3> QED BY <3>1, SubSeqProperties
  <2>2. Len(g) - (a + 3) + 1 = Len(f) + 1 - a /\ Len(tail) = Len(f) + 1 - a
    BY <1>1, <1>3, <2>1
  <2>3. \A j \in 1..(Len(f) + 1 - a) : a + 3 + j - 1 = a + 2 + j
    BY <1>1
  <2> HIDE DEF tail, S
  <2> QED BY <2>1, <2>2, <2>3
<1>14. \A j \in DOMAIN tail : rest[j] = IF j = 1 THEN [tail[1] EXCEPT !.in = @ + x] ELSE tail[j]
  BY <1>4
<1>15. DOMAIN rest = DOMAIN tail
  OBVIOUS
<1> HIDE DEF tail, rest
<1>16. ASSUME NEW j \in 1..(Len(f) + 1 - a) PROVE rest[j] = f[j + a - 1]
  <2>1. CASE j = 1
    <3>1. a \in 1..Len(f) /\ a <= Len(f) /\ a + 2 + 1 = a + 3 /\ 1 + a - 1 = a
      BY <1>1, <1>16, <2>1
    <3>2. tail[1] = [f[a] EXCEPT !.in = @ - x]
      BY <1>2, <1>13, <2>1, <3>1 DEF TagPlaces
    <3>3. rest[1] = [tail[1] EXCEPT !.in = @ + x]
      BY <1>13, <1>14, <2>1
    <3>4. f[a] \in PlainLines
      BY <3>1
    <3>5. [[f[a] EXCEPT !.in = @ - x] EXCEPT !.in = @ + x] = f[a]
      BY <1>1, <3>4, IndentedBack
    <3> QED BY <2>1, <3>1, <3>2, <3>3, <3>5
  <2>2. CASE j # 1
    <3> DEFINE i == a + 2 + j
    <3>1. i \in (a + 4)..(Len(f) + 3) /\ i - 3 = j + a - 1
      BY <1>1, <2>2
    <3>2. tail[j] = g[i]
      BY <1>13
    <3> HIDE DEF i
    <3>3. \A k \in (a + 4)..(Len(f) + 3) : g[k] = f[k - 3]
      BY <1>2 DEF TagPlaces
    <3>4. g[i] = f[i - 3]
      BY <3>1, <3>3
    <3>5. rest[j] = tail[j]
      BY <1>13, <1>14, <2>2
    <3> QED BY <3>1, <3>2, <3>4, <3>5
  <2> QED BY <2>1, <2>2
<1>17. rest \in Seq(PlainLines) /\ Len(rest) = Len(f) + 1 - a
  <2>1. \A j \in 1..(Len(f) + 1 - a) : rest[j] \in PlainLines
    <3>1. \A j \in 1..(Len(f) + 1 - a) : j + a - 1 \in 1..Len(f)
      BY <1>1
    <3> QED BY <1>16, <3>1
  <2>2. Len(f) + 1 - a \in Nat
    BY <1>1
  <2>3. rest = [j \in 1..(Len(f) + 1 - a) |-> rest[j]]
    BY <1>13, <1>15 DEF rest
  <2> QED BY <2>1, <2>2, <2>3, SeqDef
<1> HIDE DEF head
<1>18. head \o rest = f
  BY <1>1, <1>12, <1>16, <1>17, HeadAndRest
<1> QED BY <1>10, <1>18

-----------------------------------------------------------------------------
(* live-inject on one file *)

\* A policy is patched whatever its indentation.
LEMMA PatchedIndented ==
  ASSUME NEW l \in PlainLines, NEW x \in Nat, NEW port
  PROVE  Patched([l EXCEPT !.in = @ - x], port) = [Patched(l, port) EXCEPT !.in = @ - x]
<1> DEFINE m == [l EXCEPT !.in = @ - x]
<1>1. m.kind = l.kind /\ m.n = l.n
  BY DEF PlainLines
<1>2. CASE l.kind = "policy" /\ l.n = 0
  <2>1. Patched(m, port) = [m EXCEPT !.n = port] /\ Patched(l, port) = [l EXCEPT !.n = port]
    BY <1>1, <1>2 DEF Patched
  <2>2. [m EXCEPT !.n = port] = [[l EXCEPT !.n = port] EXCEPT !.in = @ - x]
    BY DEF PlainLines
  <2> QED BY <2>1, <2>2
<1>3. CASE ~(l.kind = "policy" /\ l.n = 0)
  BY <1>1, <1>3 DEF Patched
<1> QED BY <1>2, <1>3

\* The policies of a file with a tag are patched as those of the file are.
LEMMA PatchedWithTag ==
  ASSUME NEW f \in Untagged, NEW port \in Ports,
         NEW a, NEW x, NEW g, WithTag(g, f, a, x, port)
  PROVE  /\ WithTag(PatchCspMeta(g, port), PatchCspMeta(f, port), a, x, port)
         /\ PatchCspMeta(f, port) \in Seq(PlainLines)
<1> DEFINE h == PatchCspMeta(g, port)
           p == PatchCspMeta(f, port)
<1>1. /\ f \in Seq(PlainLines) /\ Len(f) \in Nat
      /\ \A k \in 1..Len(f) : f[k] \in PlainLines /\ (f[k].kind = "policy" => f[k].n = 0)
  BY DEF Untagged
<1>2. p \in Seq(PlainLines) /\ Len(p) = Len(f) /\ \A k \in 1..Len(f) : p[k] = Patched(f[k], port)
  BY PatchedFile
<1>3. a \in 1..(Len(f) + 1) /\ a \in Nat /\ x \in Nat /\ (a = Len(f) + 1 => x = 0)
  BY DEF WithTag
<1>4. TagPlaces(g, f, a, x, port)
  BY <1>1, WithTagPlaces
<1>5. Len(g) = Len(f) + 3 /\ DOMAIN g = 1..(Len(f) + 3)
  BY <1>4 DEF TagPlaces
<1>6. h = [j \in 1..(Len(f) + 3) |-> Patched(g[j], port)]
  BY <1>5 DEF PatchCspMeta, Patched
<1> DEFINE at(j) == IF j < a THEN p[j]
                    ELSE IF j = a THEN At("tagStart", None, x)
                    ELSE IF j = a + 1 THEN At("script", port, 0)
                    ELSE IF j = a + 2 THEN At("tagEnd", None, 0)
                    ELSE IF j = a + 3 THEN [p[a] EXCEPT !.in = @ - x]
                    ELSE p[j - 3]
<1> HIDE DEF h, p
<1>7. ASSUME NEW j \in 1..(Len(f) + 3) PROVE Patched(g[j], port) = at(j)
  <2>1. CASE j < a
    <3>1. j \in 1..(a - 1) /\ j \in 1..Len(f)
      BY <1>1, <1>3, <2>1
    <3>2. g[j] = f[j]
      BY <1>4, <3>1 DEF TagPlaces
    <3> QED BY <1>2, <2>1, <3>1, <3>2
  <2>2. CASE j = a
    <3>1. g[j] = At("tagStart", None, x)
      BY <1>4, <2>2 DEF TagPlaces
    <3>2. Patched(g[j], port) = g[j]
      BY <3>1 DEF At, Line, Patched
    <3> QED BY <1>3, <2>2, <3>1, <3>2
  <2>3. CASE j = a + 1
    <3>1. g[j] = At("script", port, 0)
      BY <1>4, <2>3 DEF TagPlaces
    <3>2. Patched(g[j], port) = g[j]
      BY <3>1 DEF At, Line, Patched
    <3> QED BY <1>3, <2>3, <3>1, <3>2
  <2>4. CASE j = a + 2
    <3>1. g[j] = At("tagEnd", None, 0)
      BY <1>4, <2>4 DEF TagPlaces
    <3>2. Patched(g[j], port) = g[j]
      BY <3>1 DEF At, Line, Patched
    <3> QED BY <1>3, <2>4, <3>1, <3>2
  <2>5. CASE j = a + 3
    <3>1. a \in 1..Len(f) /\ a <= Len(f)
      BY <1>1, <1>3, <2>5
    <3>2. g[a + 3] = [f[a] EXCEPT !.in = @ - x]
      BY <1>4, <3>1 DEF TagPlaces
    <3>3. f[a] \in PlainLines /\ p[a] = Patched(f[a], port)
      BY <1>1, <1>2, <3>1
    <3>4. Patched([f[a] EXCEPT !.in = @ - x], port) = [Patched(f[a], port) EXCEPT !.in = @ - x]
      BY <1>3, <3>3, PatchedIndented
    <3> QED BY <1>3, <2>5, <3>2, <3>3, <3>4
  <2>6. CASE j > a + 3
    <3>1. j \in (a + 4)..(Len(f) + 3) /\ j - 3 \in 1..Len(f)
      BY <1>1, <1>3, <2>6
    <3>2. \A i \in (a + 4)..(Len(f) + 3) : g[i] = f[i - 3]
      BY <1>4 DEF TagPlaces
    <3>3. g[j] = f[j - 3]
      BY <3>1, <3>2
    <3>4. p[j - 3] = Patched(f[j - 3], port)
      BY <1>2, <3>1
    <3> QED BY <1>3, <2>6, <3>3, <3>4
  <2> QED BY <1>3, <2>1, <2>2, <2>3, <2>4, <2>5, <2>6
<1>8. h = [j \in 1..(Len(f) + 3) |-> at(j)]
  <2> HIDE DEF at
  <2> QED BY <1>6, <1>7
<1>9. WithTag(h, p, a, x, port)
  BY <1>2, <1>3, <1>8 DEF WithTag
<1> QED BY <1>2, <1>9 DEF h, p

LEMMA UntaggedFile ==
  ASSUME NEW u \in Untagged
  PROVE  /\ u \in Seq(PlainLines) /\ Len(u) \in Nat
         /\ \A k \in 1..Len(u) : u[k].kind \notin TagKinds
         /\ RemoveTag(u) = u
<1>1. u \in Seq(PlainLines) /\ DOMAIN u = 1..Len(u) /\ Len(u) \in Nat
  BY DEF Untagged
<1>2. \A l \in PlainLines : l.kind \notin TagKinds
  BY DEF PlainLines
<1>3. \A k \in 1..Len(u) : u[k].kind \notin TagKinds
  BY <1>1, <1>2
<1>4. NoTag(u)
  BY <1>3 DEF NoTag, TagKinds
<1> QED BY <1>1, <1>3, <1>4, NothingRemoved

\* What live-inject makes of a file without a tag.
LEMMA InjectedFile ==
  ASSUME NEW u \in Untagged, NEW port \in Ports, NEW where \in Inserts
  PROVE  IF Anchors(u) = {}
         THEN InsertTag(u, port, where) = u /\ Injected(u, port, where) = u
         ELSE /\ InsertTag(u, port, where) # u
              /\ Injected(u, port, where) = PatchCspMeta(InsertTag(u, port, where), port)
              /\ \E a, x : WithTag(Injected(u, port, where), PatchCspMeta(u, port), a, x, port)
<1>1. u \in Seq(PlainLines) /\ RemoveTag(u) = u /\ Len(u) \in Nat
  BY UntaggedFile
<1>2. RevertCspMeta(u) = u
  BY PatchedFile
<1>3. Injected(u, port, where) = IF InsertTag(u, port, where) = u THEN u ELSE PatchCspMeta(InsertTag(u, port, where), port)
  BY <1>1, <1>2 DEF Injected
<1>4. CASE Anchors(u) = {}
  BY <1>1, <1>3, <1>4, InsertedFile
<1>5. CASE Anchors(u) # {}
  <2>1. PICK a, x : WithTag(InsertTag(u, port, where), u, a, x, port)
    BY <1>1, <1>5, InsertedFile
  <2>2. InsertTag(u, port, where) # u
    <3>1. TagPlaces(InsertTag(u, port, where), u, a, x, port)
      BY <1>1, <2>1, WithTagPlaces
    <3>2. Len(InsertTag(u, port, where)) = Len(u) + 3
      BY <3>1 DEF TagPlaces
    <3> QED BY <1>1, <3>2
  <2>3. WithTag(PatchCspMeta(InsertTag(u, port, where), port), PatchCspMeta(u, port), a, x, port)
    BY <2>1, PatchedWithTag
  <2> QED BY <1>3, <1>5, <2>2, <2>3
<1> QED BY <1>4, <1>5

\* live-inject --remove after live-inject --port gives the page back as it
\* was, the line that the tag was put before with its indentation, the
\* policies with their own text (removeTag, revertCspMeta).
THEOREM InjectUndone ==
  ASSUME NEW u \in Untagged, NEW port \in Ports, NEW where \in Inserts
  PROVE  RevertCspMeta(RemoveTag(Injected(u, port, where))) = u
<1> DEFINE g == Injected(u, port, where)
           p == PatchCspMeta(u, port)
<1>1. RevertCspMeta(u) = u /\ RevertCspMeta(p) = u /\ p \in Seq(PlainLines)
  BY PatchedFile
<1>2. CASE Anchors(u) = {}
  BY <1>1, <1>2, InjectedFile, UntaggedFile
<1>3. CASE Anchors(u) # {}
  <2>1. PICK a, x : WithTag(g, p, a, x, port)
    BY <1>3, InjectedFile
  <2>2. RemoveTag(g) = p
    <3> HIDE DEF g, p
    <3> QED BY <1>1, <2>1, RemovedFile
  <2> QED BY <1>1, <2>2
<1> QED BY <1>2, <1>3

\* live-inject --port after the server has moved to another port replaces
\* the tag and the policies: the page is the one it would be if the first
\* server had never been there.
THEOREM InjectReplaces ==
  ASSUME NEW u \in Untagged, NEW port \in Ports, NEW old \in Ports, NEW where \in Inserts
  PROVE  Injected(Injected(u, old, where), port, where) = Injected(u, port, where)
<1> DEFINE g == Injected(u, old, where)
<1>1. RevertCspMeta(RemoveTag(g)) = u
  BY InjectUndone
<1>2. CASE Anchors(u) = {}
  BY <1>2, InjectedFile
<1>3. CASE Anchors(u) # {}
  <2>1. InsertTag(u, port, where) # u /\ Injected(u, port, where) = PatchCspMeta(InsertTag(u, port, where), port)
    BY <1>3, InjectedFile
  <2>2. Injected(g, port, where) = IF InsertTag(u, port, where) = u THEN g ELSE PatchCspMeta(InsertTag(u, port, where), port)
    BY <1>1 DEF Injected
  <2> QED BY <2>1, <2>2
<1> QED BY <1>2, <1>3

\* A file without a tag has only the author's policies.
LEMMA UntaggedMatches ==
  ASSUME NEW u \in Untagged
  PROVE  TagMatches(u)
<1>1. /\ DOMAIN u = 1..Len(u)
      /\ \A k \in 1..Len(u) : u[k].kind \notin TagKinds /\ (u[k].kind = "policy" => u[k].n = 0)
  BY UntaggedFile DEF Untagged
<1>2. {k \in DOMAIN u : u[k].kind = "script"} = {}
  BY <1>1 DEF TagKinds
<1> QED BY <1>1, <1>2 DEF TagMatches

\* The policies of an injected page let in the port of its tag.
LEMMA InjectedMatches ==
  ASSUME NEW u \in Untagged, NEW port \in Ports, NEW where \in Inserts
  PROVE  TagMatches(Injected(u, port, where))
<1> DEFINE p == PatchCspMeta(u, port)
           g == Injected(u, port, where)
<1>1. /\ DOMAIN u = 1..Len(u) /\ Len(u) \in Nat
      /\ \A k \in 1..Len(u) : u[k] \in PlainLines /\ u[k].kind \notin TagKinds
                              /\ (u[k].kind = "policy" => u[k].n = 0)
  BY UntaggedFile DEF Untagged
<1>2. CASE Anchors(u) = {}
  BY <1>2, InjectedFile, UntaggedMatches
<1>3. CASE Anchors(u) # {}
  <2>1. PICK a, x : WithTag(g, p, a, x, port)
    BY <1>3, InjectedFile
  <2>2. p \in Seq(PlainLines) /\ Len(p) = Len(u) /\ \A k \in 1..Len(u) : p[k] = Patched(u[k], port)
    BY PatchedFile
  <2>3. \A k \in 1..Len(u) : p[k].kind = u[k].kind /\ (u[k].kind = "policy" => p[k].n = port)
    BY <1>1, <2>2, PatchFacts
  <2> HIDE DEF p, g
  <2>4. DOMAIN g = 1..(Len(u) + 3)
    <3>1. TagPlaces(g, p, a, x, port)
      BY <2>1, <2>2, WithTagPlaces
    <3> QED BY <2>2, <3>1 DEF TagPlaces
  <2>5. /\ a \in 1..(Len(u) + 1)
        /\ g[a].kind = "tagStart" /\ g[a + 1].kind = "script" /\ g[a + 1].n = port /\ g[a + 2].kind = "tagEnd"
        /\ \A j \in 1..(Len(u) + 3) :
             j \notin {a, a + 1, a + 2} =>
               \E i \in 1..Len(u) : g[j].kind = p[i].kind /\ g[j].n = p[i].n
    BY <2>1, <2>2, WithTagKinds
  <2>6. {k \in DOMAIN g : g[k].kind = "script"} = {a + 1}
    <3>1. \A j \in 1..(Len(u) + 3) : j \notin {a, a + 1, a + 2} => g[j].kind # "script"
      BY <1>1, <2>3, <2>5 DEF TagKinds
    <3>2. a + 1 \in 1..(Len(u) + 3)
      BY <1>1, <2>5
    <3> QED BY <2>4, <2>5, <3>1, <3>2
  <2>7. ASSUME NEW k \in DOMAIN g, g[k].kind = "policy"
        PROVE  g[k].n = port
    <3>1. k \in 1..(Len(u) + 3) /\ k \notin {a, a + 1, a + 2}
      BY <2>4, <2>5, <2>7
    <3>2. PICK i \in 1..Len(u) : g[k].kind = p[i].kind /\ g[k].n = p[i].n
      BY <2>5, <3>1
    <3> QED BY <2>3, <2>7, <3>2
  <2>8. TagMatches(g)
    BY <2>5, <2>6, <2>7 DEF TagMatches
  <2> QED BY <2>8 DEF g
<1> QED BY <1>2, <1>3

-----------------------------------------------------------------------------
(* Any number of servers, one after the other *)

\* The behaviours in which only live-inject writes.
Injecting == Init /\ [][(\E port \in Ports : Inject(port)) \/ RemoveAll]_vars

\* A page is the author's, or that with one tag.
Tagged(f) ==
  project[f] = Source[f] \/ \E port \in Ports : project[f] = Injected(Source[f], port, insert)

OnlyTagged == \A f \in Files : Tagged(f)

PagesInv == insert \in Inserts /\ OnlyTagged

\* The author's lines are plain, and none has let a port in.
LEMMA SourceUntagged == Source \in [Files -> Untagged]
<1>1. ASSUME NEW l \in AuthorsLines
      PROVE  l \in PlainLines /\ l.n = 0
  <2>1. l \in AllLines /\ (IsUsers(l) \/ IsBlank(l)) /\ l.n = 0
    BY DEF AuthorsLines
  <2>2. l.kind \notin TagKinds
    BY <2>1 DEF IsUsers, IsBlank, TagKinds
  <2>3. 0 \in 0..Variants
    BY ConstantsAssumption
  <2>4. [l EXCEPT !.n = 0] = l
    BY <2>1 DEF AllLines
  <2>5. [l EXCEPT !.n = 0] \in PlainLines
    BY <2>1, <2>2, <2>3 DEF AllLines, PlainLines
  <2> QED BY <2>1, <2>4, <2>5
<1>2. ASSUME NEW f \in Seq(AuthorsLines) PROVE f \in Untagged
  <2>1. f \in Seq(PlainLines)
    BY <1>1, SeqDef
  <2>2. \A k \in DOMAIN f : f[k] \in AuthorsLines
    OBVIOUS
  <2> QED BY <1>1, <2>1, <2>2 DEF Untagged
<1> QED BY <1>2, SourceAssumption

LEMMA PagesInit ==
  ASSUME Init
  PROVE  PagesInv
BY DEF Init, PagesInv, OnlyTagged, Tagged, Inserts

LEMMA PagesStep ==
  ASSUME PagesInv, [(\E port \in Ports : Inject(port)) \/ RemoveAll]_vars
  PROVE  PagesInv'
<1>1. insert' = insert
  BY DEF vars, Inject, RemoveAll
<1>2. insert \in Inserts
  BY DEF PagesInv
<1>3. ASSUME NEW f \in Files PROVE Tagged(f)'
  <2>1. Source[f] \in Untagged /\ Tagged(f)
    BY SourceUntagged DEF PagesInv, OnlyTagged
  <2>2. CASE UNCHANGED vars
    BY <1>1, <2>1, <2>2 DEF vars, Tagged
  <2>3. RevertCspMeta(RemoveTag(project[f])) = Source[f]
    <3>1. RevertCspMeta(RemoveTag(Source[f])) = Source[f]
      BY <2>1, UntaggedFile, RevertedFile
    <3> QED BY <1>2, <2>1, <3>1, InjectUndone DEF Tagged
  <2>4. ASSUME NEW port \in Ports, Inject(port) PROVE Tagged(f)'
    <3>1. project'[f] = IF f \in Configured THEN Injected(project[f], port, insert) ELSE project[f]
      BY <2>4 DEF Inject
    <3>2. Injected(project[f], port, insert) = Injected(Source[f], port, insert)
      BY <1>2, <2>1, InjectReplaces DEF Tagged
    <3> QED BY <1>1, <2>1, <3>1, <3>2 DEF Tagged
  <2>5. CASE RemoveAll
    <3>1. project'[f] = IF f \in Configured THEN RevertCspMeta(RemoveTag(project[f])) ELSE project[f]
      BY <2>5 DEF RemoveAll
    <3> QED BY <1>1, <2>1, <2>3, <3>1 DEF Tagged
  <2> QED BY <2>2, <2>4, <2>5
<1> QED BY <1>1, <1>2, <1>3 DEF PagesInv, OnlyTagged

\* However often live-inject runs, from whatever ports, a page is the
\* author's or that with the tag of one server: nothing of an earlier one
\* stays, and nothing of the page is lost.
THEOREM PagesAreTagged == Injecting => []OnlyTagged
<1>1. Init => PagesInv
  BY PagesInit
<1>2. PagesInv /\ [(\E port \in Ports : Inject(port)) \/ RemoveAll]_vars => PagesInv'
  BY PagesStep
<1>3. PagesInv => OnlyTagged
  BY DEF PagesInv
<1> QED BY <1>1, <1>2, <1>3, PTL DEF Injecting

\* And the policies of a page let in the port of its tag, and no other
\* (TagMatchesPolicy of the run, as far as live-inject goes).
THEOREM TagsMatchPolicies == Injecting => []TagMatchesPolicy
<1>1. Init => PagesInv
  BY PagesInit
<1>2. PagesInv /\ [(\E port \in Ports : Inject(port)) \/ RemoveAll]_vars => PagesInv'
  BY PagesStep
<1>3. PagesInv => TagMatchesPolicy
  <2>1. SUFFICES ASSUME PagesInv, NEW f \in Configured PROVE TagMatches(project[f])
    BY DEF TagMatchesPolicy
  <2>2. f \in Files
    BY ConstantsAssumption
  <2>3. Source[f] \in Untagged /\ Tagged(f) /\ insert \in Inserts
    BY <2>1, <2>2, SourceUntagged DEF PagesInv, OnlyTagged
  <2> QED BY <2>3, InjectedMatches, UntaggedMatches DEF Tagged
<1> QED BY <1>1, <1>2, <1>3, PTL DEF Injecting

-----------------------------------------------------------------------------
(* Pairs of lines *)

StartKinds == {"open", "outer", "variant", "accepted", "style", "start", "carbonStart", "tagStart"}
EndKinds == {"close", "outerEnd", "variantEnd", "styleEnd", "end", "carbonEnd", "tagEnd"}

IsStart(l) == l.kind \in StartKinds
IsEnd(l) == l.kind \in EndKinds

\* Line b ends what line a starts.
Mates(a, b) ==
  /\ a.by = b.by /\ (a.kind = "open" <=> a.of # None) /\ (a.of = None <=> b.of = None)
  /\ \/ a.kind = "open" /\ b.kind = "close" /\ a.n = b.n /\ TagOf[a.of] = TagOf[b.of]
     \/ a.kind = "outer" /\ b.kind = "outerEnd"
     \/ a.kind \in {"variant", "accepted"} /\ b.kind = "variantEnd"
     \/ a.kind = "style" /\ b.kind = "styleEnd"
     \/ a.kind = "start" /\ b.kind = "end"
     \/ a.kind = "carbonStart" /\ b.kind = "carbonEnd"
     \/ a.kind = "tagStart" /\ b.kind = "tagEnd"

\* Line b may be between line a and its end: only a style element has CSS, and
\* only CSS, the tag of the helper is a script and nothing else, a carbon block is a style
\* element or what is left of one, and no session starts again inside of itself.
Allowed(a, b) ==
  /\ a.kind = "style" => b.kind = "css"
  /\ a.kind = "tagStart" => b.kind = "script"
  /\ a.kind = "carbonStart" => b.kind \in {"style", "css", "styleEnd", "blank"}
  /\ a.kind = "start" /\ b.kind = "start" => a.by # b.by

\* m pairs the lines of f that start something with those that end it; the
\* pairs do not cross.
Pairs(f, m) ==
  /\ m \in [1..Len(f) -> 1..Len(f)]
  /\ \A i \in 1..Len(f) : m[m[i]] = i
  /\ \A i \in 1..Len(f) : (IsStart(f[i]) <=> i < m[i]) /\ (IsEnd(f[i]) <=> m[i] < i)
  /\ \A i \in 1..Len(f) : i < m[i] => Mates(f[i], f[m[i]])
  /\ \A i, j \in 1..Len(f) : i < j /\ j < m[i] => i < m[j] /\ m[j] < m[i] /\ Allowed(f[i], f[j])

\* What may be inside of the narrow kinds only.
NarrowKinds == {"css", "script", "style", "styleEnd", "blank"}

\* In JSX a session's start marker is below its wrapper's tag.
Linked(f) == \A k \in 2..Len(f) : f[k].kind = "start" => f[k - 1].kind = "outer"

\* A piece of a file, in which no session but those in T starts; linked,
\* also to what is before it.
Piece(f, T, linked) ==
  /\ f \in Seq(AllLines)
  /\ \E m : Pairs(f, m)
  /\ \A k \in 1..Len(f) : f[k].kind = "start" => f[k].by \in T
  /\ linked => Linked(f) /\ (Len(f) # 0 => f[1].kind # "start")

\* The types in what pairs lines.
LEMMA PairsType ==
  ASSUME NEW f \in Seq(AllLines), NEW m, Pairs(f, m)
  PROVE  /\ Len(f) \in Nat /\ DOMAIN f = 1..Len(f)
         /\ \A i \in 1..Len(f) : f[i] \in AllLines /\ m[i] \in 1..Len(f) /\ i \in Nat /\ m[i] \in Nat
BY DEF Pairs

\* No line both starts and ends something.
LEMMA StartsOrEnds ==
  ASSUME NEW l
  PROVE  ~(IsStart(l) /\ IsEnd(l))
BY DEF IsStart, IsEnd, StartKinds, EndKinds

\* g has lines of f in their order, line u[j] at j, with their partners, each
\* as it was or as a line that neither starts nor ends anything.
Embeds(u, f, m, g) ==
  /\ u \in [1..Len(g) -> 1..Len(f)]
  /\ \A i, j \in 1..Len(g) : i < j => u[i] < u[j]
  /\ \A j \in 1..Len(g) : \E k \in 1..Len(g) : u[k] = m[u[j]]
  /\ \A j \in 1..Len(g) : (IsStart(g[j]) => IsStart(f[u[j]])) /\ (IsEnd(g[j]) => IsEnd(f[u[j]]))
  /\ \A j, k \in 1..Len(g) : u[k] = m[u[j]] /\ j < k => (IsStart(g[j]) <=> IsEnd(g[k]))
  /\ \A j, k \in 1..Len(g) : u[k] = m[u[j]] /\ j < k /\ IsStart(g[j]) => Mates(g[j], g[k])
  /\ \A j, k \in 1..Len(g) : IsStart(g[j]) /\ Allowed(f[u[j]], f[u[k]]) => Allowed(g[j], g[k])

\* Lines that keep the order, the pairs and the sessions of others are paired
\* as those are.
LEMMA Embedded ==
  ASSUME NEW f \in Seq(AllLines), NEW m, Pairs(f, m), NEW g \in Seq(AllLines),
         NEW u, Embeds(u, f, m, g)
  PROVE  \E p : Pairs(g, p)
<1> DEFINE N == 1..Len(g)
           w(j) == CHOOSE k \in N : u[k] = m[u[j]]
           p == [j \in N |-> IF IsStart(g[j]) \/ IsEnd(g[j]) THEN w(j) ELSE j]
<1>0. Len(f) \in Nat /\ Len(g) \in Nat
  OBVIOUS
<1>1. /\ m \in [1..Len(f) -> 1..Len(f)]
      /\ \A i \in 1..Len(f) : m[m[i]] = i
      /\ \A i \in 1..Len(f) : (IsStart(f[i]) <=> i < m[i]) /\ (IsEnd(f[i]) <=> m[i] < i)
  BY DEF Pairs
<1>2. \A j \in N : w(j) \in N /\ u[w(j)] = m[u[j]]
  BY DEF Embeds
<1>3. \A j \in N : u[j] \in 1..Len(f) /\ u[j] \in Nat /\ j \in Nat
  <2>1. u \in [N -> 1..Len(f)]
    BY DEF N, Embeds
  <2>2. \A i \in 1..Len(f) : i \in Nat
    BY <1>0
  <2>3. \A j \in N : j \in Nat
    BY <1>0 DEF N
  <2> QED BY <2>1, <2>2, <2>3
<1>4. \A i, j \in N : (i < j <=> u[i] < u[j]) /\ (i = j <=> u[i] = u[j])
  <2>1. \A i, j \in N : i < j => u[i] < u[j]
    BY DEF N, Embeds
  <2> QED BY <1>3, <2>1
<1>5. \A j \in N : p[j] = IF IsStart(g[j]) \/ IsEnd(g[j]) THEN w(j) ELSE j
  OBVIOUS
<1>6. p \in [N -> N]
  BY <1>2
<1> HIDE DEF w, p, N
<1>7. \A j \in N : w(w(j)) = j
  <2>1. SUFFICES ASSUME NEW j \in N PROVE w(w(j)) = j
    OBVIOUS
  <2>2. u[w(w(j))] = m[m[u[j]]]
    BY <1>2
  <2> QED BY <1>1, <1>2, <1>3, <1>4, <2>2
<1>8. \A j \in N : (IsStart(g[j]) => j < w(j) /\ IsEnd(g[w(j)])) /\ (IsEnd(g[j]) => w(j) < j /\ IsStart(g[w(j)]))
  <2>1. SUFFICES ASSUME NEW j \in N
                 PROVE (IsStart(g[j]) => j < w(j) /\ IsEnd(g[w(j)])) /\ (IsEnd(g[j]) => w(j) < j /\ IsStart(g[w(j)]))
    OBVIOUS
  <2>2. u[w(j)] = m[u[j]] /\ w(j) \in N /\ u[j] \in 1..Len(f)
    BY <1>2, <1>3
  <2>3. CASE IsStart(g[j])
    <3>1. u[j] < m[u[j]]
      BY <1>1, <2>2, <2>3 DEF N, Embeds
    <3>2. j < w(j)
      BY <1>4, <2>2, <3>1
    <3> QED BY <2>2, <2>3, <3>2, StartsOrEnds DEF N, Embeds
  <2>4. CASE IsEnd(g[j])
    <3>1. m[u[j]] < u[j]
      BY <1>1, <2>2, <2>4 DEF N, Embeds
    <3>2. w(j) < j
      BY <1>4, <2>2, <3>1
    <3>3. u[j] = m[u[w(j)]]
      BY <1>1, <2>2
    <3> QED BY <2>2, <2>4, <3>2, <3>3, StartsOrEnds DEF N, Embeds
  <2> QED BY <2>3, <2>4
<1>9. \A j \in N : p[p[j]] = j
  BY <1>2, <1>5, <1>7, <1>8
<1>10. \A j \in N : (IsStart(g[j]) <=> j < p[j]) /\ (IsEnd(g[j]) <=> p[j] < j)
  <2>1. SUFFICES ASSUME NEW j \in N PROVE (IsStart(g[j]) <=> j < p[j]) /\ (IsEnd(g[j]) <=> p[j] < j)
    OBVIOUS
  <2>2. j \in Nat /\ w(j) \in Nat /\ p[j] = (IF IsStart(g[j]) \/ IsEnd(g[j]) THEN w(j) ELSE j)
    BY <1>2, <1>3, <1>5
  <2>3. ~(IsStart(g[j]) /\ IsEnd(g[j]))
    BY StartsOrEnds
  <2>4. (IsStart(g[j]) => j < w(j)) /\ (IsEnd(g[j]) => w(j) < j)
    BY <1>8
  <2> QED BY <2>2, <2>3, <2>4
<1>11. \A j \in N : j < p[j] => Mates(g[j], g[p[j]])
  <2>1. SUFFICES ASSUME NEW j \in N, j < p[j] PROVE Mates(g[j], g[p[j]])
    OBVIOUS
  <2>2. IsStart(g[j]) /\ p[j] = w(j) /\ w(j) \in N /\ u[w(j)] = m[u[j]]
    BY <1>2, <1>5, <1>10, <2>1
  <2> QED BY <2>1, <2>2 DEF N, Embeds
<1>12. ASSUME NEW i \in N, NEW j \in N, i < j, j < p[i]
       PROVE  i < p[j] /\ p[j] < p[i] /\ Allowed(g[i], g[j])
  <2>1. i \in Nat /\ j \in Nat /\ p[i] \in N /\ p[i] \in Nat
    BY <1>3, <1>6, <1>12
  <2>2. i < p[i]
    BY <1>12, <2>1
  <2>3. IsStart(g[i]) /\ p[i] = w(i) /\ u[p[i]] = m[u[i]]
    BY <1>2, <1>5, <1>10, <2>2
  <2>4. u[i] < u[j] /\ u[j] < m[u[i]]
    BY <1>4, <1>12, <2>1, <2>3
  <2>5. u[i] < m[u[j]] /\ m[u[j]] < m[u[i]] /\ Allowed(f[u[i]], f[u[j]])
    BY <1>3, <2>4 DEF Pairs
  <2>6. Allowed(g[i], g[j])
    BY <2>3, <2>5 DEF N, Embeds
  <2>7. i < w(j) /\ w(j) < p[i]
    BY <1>2, <1>4, <2>1, <2>3, <2>5
  <2>8. p[j] = w(j) \/ p[j] = j
    BY <1>5
  <2> QED BY <1>12, <2>6, <2>7, <2>8
<1>13. Pairs(g, p)
  BY <1>6, <1>9, <1>10, <1>11, <1>12 DEF Pairs, N
<1> QED BY <1>13

-----------------------------------------------------------------------------
(* Splicing *)

\* g is f with ls for lines a to b.
Splices(g, f, a, b, ls) ==
  /\ Len(g) = a - 1 + Len(ls) + (Len(f) - b)
  /\ \A j \in 1..(a - 1) : g[j] = f[j]
  /\ \A j \in 1..Len(ls) : g[a - 1 + j] = ls[j]
  /\ \A j \in 1..(Len(f) - b) : g[a - 1 + Len(ls) + j] = f[b + j]

\* What a splice has at each place.
LEMMA SplicedLines ==
  ASSUME NEW S, NEW f \in Seq(S), NEW ls \in Seq(S), NEW a \in 1..Len(f), NEW b \in a..Len(f)
  PROVE  Spliced(f, <<a, b>>, ls) \in Seq(S) /\ Splices(Spliced(f, <<a, b>>, ls), f, a, b, ls)
<1> DEFINE head == SubSeq(f, 1, a - 1)
           rest == SubSeq(f, b + 1, Len(f))
           both == head \o ls
           g == both \o rest
<1>1. Spliced(f, <<a, b>>, ls) = g
  BY DEF Spliced
<1>2. Len(f) \in Nat /\ Len(ls) \in Nat /\ a \in Nat /\ b \in Nat /\ a <= b /\ b <= Len(f) /\ 1 <= a
  OBVIOUS
<1>3. head \in Seq(S) /\ Len(head) = a - 1 /\ \A j \in 1..(a - 1) : head[j] = f[j]
  BY <1>2
<1>4. rest \in Seq(S) /\ Len(rest) = Len(f) - b /\ \A j \in 1..(Len(f) - b) : rest[j] = f[b + j]
  <2>1. /\ rest \in Seq(S) /\ Len(rest) = (IF b + 1 <= Len(f) THEN Len(f) - (b + 1) + 1 ELSE 0)
        /\ \A j \in 1..(Len(f) - (b + 1) + 1) : rest[j] = f[b + 1 + j - 1]
    <3>1. b + 1 \in Int /\ Len(f) \in Int /\ \A j \in (b + 1)..Len(f) : f[j] \in S
      BY <1>2
    <3> QED BY <3>1, SubSeqProperties
  <2>2. Len(f) - (b + 1) + 1 = Len(f) - b /\ Len(rest) = Len(f) - b
    BY <1>2, <2>1
  <2>3. \A j \in 1..(Len(f) - b) : b + 1 + j - 1 = b + j
    BY <1>2
  <2> HIDE DEF rest
  <2> QED BY <2>1, <2>2, <2>3
<1> HIDE DEF head, rest
<1>5. /\ both \in Seq(S) /\ Len(both) = a - 1 + Len(ls)
      /\ \A j \in 1..(a - 1) : both[j] = f[j]
      /\ \A j \in 1..Len(ls) : both[a - 1 + j] = ls[j]
  <2>1. both \in Seq(S) /\ Len(both) = a - 1 + Len(ls)
    BY <1>3, ConcatProperties
  <2>2. both = Joined(head, ls)
    BY <1>3, ConcatPlaces
  <2>3. \A j \in 1..(a - 1 + Len(ls)) : both[j] = IF j <= a - 1 THEN head[j] ELSE ls[j - (a - 1)]
    BY <1>3, <2>2 DEF Joined
  <2>4. \A j \in 1..(a - 1) : j \in 1..(a - 1 + Len(ls)) /\ j <= a - 1
    BY <1>2
  <2>5. \A j \in 1..Len(ls) : a - 1 + j \in 1..(a - 1 + Len(ls)) /\ ~(a - 1 + j <= a - 1)
                              /\ a - 1 + j - (a - 1) = j
    BY <1>2
  <2> HIDE DEF both
  <2>6. \A j \in 1..Len(ls) : both[a - 1 + j] = ls[j]
    BY <2>3, <2>5
  <2> QED BY <1>3, <2>1, <2>3, <2>4, <2>6
<1> HIDE DEF both
<1>6. /\ g \in Seq(S) /\ Len(g) = a - 1 + Len(ls) + (Len(f) - b)
  <2>1. g \in Seq(S) /\ Len(g) = Len(both) + Len(rest)
    BY <1>4, <1>5, ConcatProperties
  <2> HIDE DEF g
  <2> QED BY <1>2, <1>4, <1>5, <2>1
<1>7. g = Joined(both, rest)
  BY <1>4, <1>5, ConcatPlaces
<1>8. \A j \in 1..(a - 1 + Len(ls) + (Len(f) - b)) :
         g[j] = IF j <= a - 1 + Len(ls) THEN both[j] ELSE rest[j - (a - 1 + Len(ls))]
  BY <1>4, <1>5, <1>7 DEF Joined
<1> HIDE DEF g
<1>9. \A j \in 1..(a - 1) : j \in 1..(a - 1 + Len(ls) + (Len(f) - b)) /\ j <= a - 1 + Len(ls)
  BY <1>2
<1>10. \A j \in 1..Len(ls) : a - 1 + j \in 1..(a - 1 + Len(ls) + (Len(f) - b)) /\ a - 1 + j <= a - 1 + Len(ls)
  BY <1>2
<1>11. \A j \in 1..(Len(f) - b) : /\ a - 1 + Len(ls) + j \in 1..(a - 1 + Len(ls) + (Len(f) - b))
                                  /\ ~(a - 1 + Len(ls) + j <= a - 1 + Len(ls))
                                  /\ a - 1 + Len(ls) + j - (a - 1 + Len(ls)) = j
  BY <1>2
<1>12. \A j \in 1..(a - 1) : g[j] = f[j]
  BY <1>5, <1>8, <1>9
<1>13. \A j \in 1..Len(ls) : g[a - 1 + j] = ls[j]
  BY <1>5, <1>8, <1>10
<1>14. \A j \in 1..(Len(f) - b) : g[a - 1 + Len(ls) + j] = f[b + j]
  BY <1>4, <1>8, <1>11
<1> QED BY <1>1, <1>6, <1>12, <1>13, <1>14 DEF Splices

\* Lines a to b, which have their partners among them, give way to lines
\* that may be where they are.
LEMMA PairsSpliced ==
  ASSUME NEW f \in Seq(AllLines), NEW m, Pairs(f, m), NEW a \in 1..Len(f), NEW b \in a..Len(f),
         \A i \in a..b : m[i] \in a..b,
         NEW ls \in Seq(AllLines), NEW q, Pairs(ls, q),
         \A i \in 1..(a - 1), j \in 1..Len(ls) : m[i] > b => Allowed(f[i], ls[j])
  PROVE  \E p : Pairs(Spliced(f, <<a, b>>, ls), p)
<1> DEFINE g == Spliced(f, <<a, b>>, ls)
           c == a - 1 + Len(ls)
           N == 1..Len(g)
           Out == (1..(a - 1)) \cup ((b + 1)..Len(f))
           Far == (1..(a - 1)) \cup ((c + 1)..Len(g))
           In == a..c
           at == [i \in Out |-> IF i < a THEN i ELSE i + (c - b)]
           back == [j \in Far |-> IF j < a THEN j ELSE j - (c - b)]
           p == [j \in N |-> IF j \in In THEN a - 1 + q[j - (a - 1)] ELSE at[m[back[j]]]]
<1>1. Len(f) \in Nat /\ Len(ls) \in Nat /\ a \in Nat /\ b \in Nat /\ a <= b /\ b <= Len(f) /\ 1 <= a
  OBVIOUS
<1>2. /\ g \in Seq(AllLines) /\ Len(g) = a - 1 + Len(ls) + (Len(f) - b)
      /\ \A j \in 1..(a - 1) : g[j] = f[j]
      /\ \A j \in 1..Len(ls) : g[a - 1 + j] = ls[j]
      /\ \A j \in 1..(Len(f) - b) : g[a - 1 + Len(ls) + j] = f[b + j]
  <2>1. g \in Seq(AllLines) /\ Splices(g, f, a, b, ls)
    BY SplicedLines
  <2> HIDE DEF g
  <2> QED BY <2>1 DEF Splices
<1> HIDE DEF g
<1>3. c \in Nat /\ Len(g) \in Nat /\ Len(g) = c + (Len(f) - b) /\ a - 1 <= c
  BY <1>1, <1>2
<1>4. /\ \A i \in Out : i \in Nat /\ i \in 1..Len(f)
      /\ \A j \in N : j \in Nat /\ (j \in In \/ j \in Far) /\ ~(j \in In /\ j \in Far)
      /\ \A j \in Far : j \in Nat /\ j \in N
      /\ \A j \in In : j \in Nat /\ j \in N
  BY <1>1, <1>3
<1>5. /\ \A i \in Out : at[i] = (IF i < a THEN i ELSE i + (c - b)) /\ at[i] \in Far
      /\ \A j \in Far : back[j] = (IF j < a THEN j ELSE j - (c - b)) /\ back[j] \in Out
  BY <1>1, <1>3
<1>6. /\ \A i \in Out : back[at[i]] = i
      /\ \A j \in Far : at[back[j]] = j
  BY <1>1, <1>3, <1>5
<1> HIDE DEF at, back
<1>7. \A i, k \in Out : i < k => at[i] < at[k]
  BY <1>1, <1>3, <1>4, <1>5
<1>8. \A j \in Far : g[j] = f[back[j]]
  <2>1. SUFFICES ASSUME NEW j \in Far PROVE g[j] = f[back[j]]
    OBVIOUS
  <2>2. CASE j < a
    BY <1>1, <1>2, <1>4, <1>5, <2>2
  <2>3. CASE ~(j < a)
    <3>1. j - c \in 1..(Len(f) - b) /\ a - 1 + Len(ls) + (j - c) = j /\ b + (j - c) = back[j]
      BY <1>1, <1>3, <1>4, <1>5, <2>3
    <3> QED BY <1>2, <3>1
  <2> QED BY <2>2, <2>3
<1>9. /\ \A j \in In : j - (a - 1) \in 1..Len(ls) /\ g[j] = ls[j - (a - 1)]
  <2>1. \A j \in In : j - (a - 1) \in 1..Len(ls) /\ a - 1 + (j - (a - 1)) = j
    BY <1>1, <1>3
  <2> QED BY <1>2, <2>1
<1>10. /\ m \in [1..Len(f) -> 1..Len(f)]
       /\ \A i \in 1..Len(f) : m[m[i]] = i
  BY DEF Pairs
<1>11. /\ q \in [1..Len(ls) -> 1..Len(ls)]
       /\ \A i \in 1..Len(ls) : q[q[i]] = i
  BY DEF Pairs
<1>12. \A i \in Out : m[i] \in Out
  <2>1. SUFFICES ASSUME NEW i \in Out PROVE m[i] \in Out
    OBVIOUS
  <2>2. i \in 1..Len(f) /\ i \in Nat /\ m[i] \in 1..Len(f) /\ m[m[i]] = i /\ i \notin a..b
    <3>1. i \in 1..Len(f) /\ i \in Nat
      BY <1>4
    <3>2. i \notin a..b
      BY <1>1, <3>1
    <3>3. m[i] \in 1..Len(f) /\ m[m[i]] = i
      BY <1>10, <3>1
    <3> QED BY <3>1, <3>2, <3>3
  <2>3. m[i] \notin a..b
    BY <2>2
  <2> QED BY <1>1, <2>2, <2>3
<1> DEFINE off(j) == j - (a - 1)
<1>13. \A j \in In : p[j] = a - 1 + q[off(j)] /\ p[j] \in In /\ off(p[j]) = q[off(j)]
  <2>1. SUFFICES ASSUME NEW j \in In PROVE p[j] = a - 1 + q[off(j)] /\ p[j] \in In /\ off(p[j]) = q[off(j)]
    OBVIOUS
  <2>2. p[j] = a - 1 + q[off(j)]
    BY <1>4
  <2>3. q[off(j)] \in 1..Len(ls)
    BY <1>9, <1>11
  <2> HIDE DEF p
  <2> QED BY <1>1, <2>2, <2>3
<1>14. \A j \in Far : p[j] = at[m[back[j]]] /\ p[j] \in Far /\ back[p[j]] = m[back[j]]
  <2>1. SUFFICES ASSUME NEW j \in Far PROVE p[j] = at[m[back[j]]] /\ p[j] \in Far /\ back[p[j]] = m[back[j]]
    OBVIOUS
  <2>2. p[j] = at[m[back[j]]]
    BY <1>4
  <2> HIDE DEF p
  <2>3. m[back[j]] \in Out
    BY <1>5, <1>12
  <2> HIDE DEF Out, Far
  <2> QED BY <1>5, <1>6, <2>2, <2>3
<1>15. p \in [N -> N]
  <2>1. \A j \in N : p[j] \in N
    BY <1>4, <1>13, <1>14
  <2>2. p = [j \in N |-> p[j]]
    OBVIOUS
  <2> HIDE DEF p
  <2> QED BY <2>1, <2>2
<1> HIDE DEF p, c, N, Out, Far, In, off
<1>16. \A j \in N : p[p[j]] = j
  <2>1. SUFFICES ASSUME NEW j \in N PROVE p[p[j]] = j
    OBVIOUS
  <2>2. CASE j \in In
    <3>1. p[p[j]] = a - 1 + q[off(p[j])] /\ off(p[j]) = q[off(j)]
      BY <1>13, <2>2
    <3>2. q[q[off(j)]] = off(j)
      BY <1>9, <1>11, <2>2 DEF off
    <3>3. a - 1 + off(j) = j
      BY <1>1, <1>4, <2>2 DEF off
    <3> QED BY <3>1, <3>2, <3>3
  <2>3. CASE j \in Far
    <3>1. p[p[j]] = at[m[back[p[j]]]] /\ back[p[j]] = m[back[j]]
      BY <1>14, <2>3
    <3>2. m[m[back[j]]] = back[j]
      BY <1>4, <1>5, <1>10, <2>3
    <3> QED BY <1>6, <2>3, <3>1, <3>2
  <2> QED BY <1>4, <2>2, <2>3
<1>17. \A j \in Far : (j < p[j] <=> back[j] < m[back[j]]) /\ (p[j] < j <=> m[back[j]] < back[j])
  <2>1. SUFFICES ASSUME NEW j \in Far
                 PROVE (j < p[j] <=> back[j] < m[back[j]]) /\ (p[j] < j <=> m[back[j]] < back[j])
    OBVIOUS
  <2> DEFINE i == back[j]
             k == m[back[j]]
  <2>2. i \in Out /\ k \in Out /\ at[i] = j /\ at[k] = p[j]
    BY <1>5, <1>6, <1>12, <1>14
  <2> HIDE DEF i, k
  <2>3. i \in Nat /\ k \in Nat /\ j \in Nat /\ p[j] \in Nat
    BY <1>4, <1>14, <2>2
  <2>4. (i < k => j < p[j]) /\ (k < i => p[j] < j)
    BY <1>7, <2>2
  <2>5. i = k => j = p[j]
    BY <2>2
  <2>6. (j < p[j] <=> i < k) /\ (p[j] < j <=> k < i)
    BY <2>3, <2>4, <2>5
  <2> QED BY <2>6 DEF i, k
<1>18. \A j \in In : (j < p[j] <=> off(j) < q[off(j)]) /\ (p[j] < j <=> q[off(j)] < off(j))
  <2>1. SUFFICES ASSUME NEW j \in In
                 PROVE (j < p[j] <=> off(j) < q[off(j)]) /\ (p[j] < j <=> q[off(j)] < off(j))
    OBVIOUS
  <2>2. j \in Nat /\ p[j] \in Nat /\ off(p[j]) = q[off(j)]
    BY <1>4, <1>13
  <2>3. off(j) = j - (a - 1) /\ off(p[j]) = p[j] - (a - 1)
    BY DEF off
  <2> QED BY <1>1, <2>2, <2>3
<1>19. \A j \in N : (IsStart(g[j]) <=> j < p[j]) /\ (IsEnd(g[j]) <=> p[j] < j)
  <2>1. \A i \in 1..Len(f) : (IsStart(f[i]) <=> i < m[i]) /\ (IsEnd(f[i]) <=> m[i] < i)
    BY DEF Pairs
  <2>2. \A i \in 1..Len(ls) : (IsStart(ls[i]) <=> i < q[i]) /\ (IsEnd(ls[i]) <=> q[i] < i)
    BY DEF Pairs
  <2>3. ASSUME NEW j \in Far PROVE (IsStart(g[j]) <=> j < p[j]) /\ (IsEnd(g[j]) <=> p[j] < j)
    <3>1. back[j] \in 1..Len(f)
      BY <1>4, <1>5
    <3> QED BY <1>8, <1>17, <2>1, <3>1
  <2>4. ASSUME NEW j \in In PROVE (IsStart(g[j]) <=> j < p[j]) /\ (IsEnd(g[j]) <=> p[j] < j)
    <3>1. off(j) \in 1..Len(ls) /\ g[j] = ls[off(j)]
      BY <1>9 DEF off
    <3> QED BY <1>18, <2>2, <3>1
  <2> QED BY <1>4, <2>3, <2>4
<1>20. \A j \in N : j < p[j] => Mates(g[j], g[p[j]])
  <2>1. \A i \in 1..Len(f) : i < m[i] => Mates(f[i], f[m[i]])
    BY DEF Pairs
  <2>2. \A i \in 1..Len(ls) : i < q[i] => Mates(ls[i], ls[q[i]])
    BY DEF Pairs
  <2>3. ASSUME NEW j \in Far, j < p[j] PROVE Mates(g[j], g[p[j]])
    <3>1. back[j] \in 1..Len(f) /\ back[j] < m[back[j]]
      BY <1>4, <1>5, <1>17, <2>3
    <3> QED BY <1>8, <1>14, <2>1, <3>1
  <2>4. ASSUME NEW j \in In, j < p[j] PROVE Mates(g[j], g[p[j]])
    <3>1. off(j) \in 1..Len(ls) /\ g[j] = ls[off(j)] /\ g[p[j]] = ls[off(p[j])] /\ off(p[j]) = q[off(j)]
      BY <1>9, <1>13 DEF off
    <3> QED BY <1>18, <2>2, <2>4, <3>1
  <2> QED BY <1>4, <2>3, <2>4
<1>21. ASSUME NEW i \in N, NEW j \in N, i < j, j < p[i]
       PROVE  i < p[j] /\ p[j] < p[i] /\ Allowed(g[i], g[j])
  <2>1. i \in Nat /\ j \in Nat /\ p[i] \in Nat /\ p[j] \in Nat
    BY <1>4, <1>15
  <2>2. CASE i \in In
    <3>1. p[i] \in In /\ j \in In
      <4>1. p[i] \in In
        BY <1>13, <2>2
      <4> QED BY <1>1, <1>3, <1>21, <2>1, <2>2, <4>1 DEF In
    <3>2. /\ off(i) \in 1..Len(ls) /\ g[i] = ls[off(i)] /\ off(j) \in 1..Len(ls) /\ g[j] = ls[off(j)]
          /\ off(p[i]) = q[off(i)] /\ off(p[j]) = q[off(j)]
      BY <1>9, <1>13, <2>2, <3>1 DEF off
    <3>3. /\ off(i) = i - (a - 1) /\ off(j) = j - (a - 1)
          /\ off(p[i]) = p[i] - (a - 1) /\ off(p[j]) = p[j] - (a - 1)
      BY DEF off
    <3>4. off(i) < off(j) /\ off(j) < q[off(i)]
      BY <1>1, <1>21, <2>1, <3>2, <3>3
    <3>5. off(i) < q[off(j)] /\ q[off(j)] < q[off(i)] /\ Allowed(ls[off(i)], ls[off(j)])
      BY <3>2, <3>4 DEF Pairs
    <3> QED BY <1>1, <2>1, <3>2, <3>3, <3>5
  <2>3. CASE i \in Far /\ j \in Far
    <3>1. /\ back[i] \in Out /\ back[j] \in Out /\ back[p[i]] \in Out /\ back[p[j]] \in Out
          /\ at[back[i]] = i /\ at[back[j]] = j /\ at[back[p[i]]] = p[i] /\ at[back[p[j]]] = p[j]
          /\ back[p[i]] = m[back[i]] /\ back[p[j]] = m[back[j]]
      BY <1>5, <1>6, <1>14, <2>3
    <3> DEFINE x == back[i]
               y == back[j]
    <3>2. /\ x \in Out /\ y \in Out /\ m[x] \in Out /\ m[y] \in Out
          /\ at[x] = i /\ at[y] = j /\ at[m[x]] = p[i] /\ at[m[y]] = p[j] /\ g[i] = f[x] /\ g[j] = f[y]
      BY <1>8, <2>3, <3>1
    <3> HIDE DEF x, y
    <3>3. x \in 1..Len(f) /\ y \in 1..Len(f) /\ x \in Nat /\ y \in Nat /\ m[x] \in Nat /\ m[y] \in Nat
      BY <1>4, <3>2
    <3>4. x < y
      <4>1. ~(y < x) /\ ~(y = x)
        BY <1>7, <1>21, <2>1, <3>2
      <4> QED BY <3>3, <4>1
    <3>5. y < m[x]
      <4>1. ~(m[x] < y) /\ ~(m[x] = y)
        BY <1>7, <1>21, <2>1, <3>2
      <4> QED BY <3>3, <4>1
    <3>6. x < m[y] /\ m[y] < m[x] /\ Allowed(f[x], f[y])
      BY <3>3, <3>4, <3>5 DEF Pairs
    <3> QED BY <1>7, <3>2, <3>6
  <2>4. CASE i \in Far /\ j \in In
    <3>1. i < a /\ p[i] > c
      <4>1. p[i] \in Far
        BY <1>14, <2>4
      <4> QED BY <1>1, <1>3, <1>21, <2>1, <2>4, <4>1 DEF Far, In
    <3>2. p[j] \in In
      BY <1>13, <2>4
    <3>3. i < p[j] /\ p[j] < p[i]
      BY <1>1, <1>3, <2>1, <3>1, <3>2 DEF In
    <3>4. back[i] = i /\ m[i] \in Out /\ at[m[i]] = p[i]
      BY <1>5, <1>12, <1>14, <2>4, <3>1
    <3>5. m[i] > b
      <4>1. m[i] \in Nat /\ (m[i] < a \/ m[i] > b)
        BY <1>1, <1>4, <3>4 DEF Out
      <4>2. ~(m[i] < a)
        BY <1>1, <1>3, <1>5, <2>1, <3>1, <3>4
      <4> QED BY <4>1, <4>2
    <3>6. i \in 1..(a - 1)
      BY <1>1, <1>3, <2>1, <2>4, <3>1 DEF Far
    <3>7. off(j) \in 1..Len(ls) /\ g[j] = ls[off(j)] /\ g[i] = f[i]
      BY <1>8, <1>9, <2>4, <3>4 DEF off
    <3>8. Allowed(f[i], ls[off(j)])
      BY <3>5, <3>6, <3>7
    <3> QED BY <3>3, <3>7, <3>8
  <2> QED BY <1>4, <2>2, <2>3, <2>4
<1>22. Pairs(g, p)
  BY <1>15, <1>16, <1>19, <1>20, <1>21 DEF Pairs, N
<1> QED BY <1>22 DEF g

-----------------------------------------------------------------------------
(* Putting pieces together *)

\* Two sequences with the same entries are one.
LEMMA SameSequence ==
  ASSUME NEW S, NEW s \in Seq(S), NEW t \in Seq(S), Len(s) = Len(t), \A i \in 1..Len(s) : s[i] = t[i]
  PROVE  s = t
<1>1. s = [i \in 1..Len(s) |-> s[i]] /\ t = [i \in 1..Len(t) |-> t[i]]
  OBVIOUS
<1> QED BY <1>1

\* Of a pair, one line starts and the other ends.
LEMMA MatesFacts ==
  ASSUME NEW a, NEW b, Mates(a, b)
  PROVE  IsStart(a) /\ IsEnd(b)
BY DEF Mates, IsStart, IsEnd, StartKinds, EndKinds

\* Lines that neither start nor end anything pair up with themselves.
LEMMA PairsAlone ==
  ASSUME NEW f \in Seq(AllLines), \A k \in 1..Len(f) : ~IsStart(f[k]) /\ ~IsEnd(f[k])
  PROVE  \E m : Pairs(f, m)
<1> DEFINE m == [i \in 1..Len(f) |-> i]
<1>1. m \in [1..Len(f) -> 1..Len(f)] /\ \A i \in 1..Len(f) : m[i] = i
  OBVIOUS
<1>2. Len(f) \in Nat /\ \A i \in 1..Len(f) : i \in Nat
  OBVIOUS
<1> HIDE DEF m
<1>3. \A i \in 1..Len(f) : ~(i < m[i]) /\ ~(m[i] < i) /\ m[m[i]] = i
  BY <1>1, <1>2
<1>4. \A i \in 1..Len(f) : (IsStart(f[i]) <=> i < m[i]) /\ (IsEnd(f[i]) <=> m[i] < i)
  BY <1>3
<1>5. \A i, j \in 1..Len(f) : ~(i < j /\ j < m[i])
  BY <1>1, <1>2
<1>6. Pairs(f, m)
  BY <1>1, <1>3, <1>4, <1>5 DEF Pairs
<1> QED BY <1>6

\* There is a line that may be between a line and its end.
LEMMA SomethingAllowed ==
  ASSUME NEW x
  PROVE  \E z \in AllLines : Allowed(x, z) /\ ~IsStart(z) /\ ~IsEnd(z)
<1> DEFINE z(kind) == Mark(kind, None, 0)
<1>1. \A kind \in {"css", "script", "blank"} : z(kind) \in AllLines /\ z(kind).kind = kind
  BY ConstantsAssumption DEF AllLines, Mark, Line, Kinds
<1>2. \A kind \in {"css", "script", "blank"} : ~IsStart(z(kind)) /\ ~IsEnd(z(kind))
  BY <1>1 DEF IsStart, IsEnd, StartKinds, EndKinds
<1> HIDE DEF z
<1>3. CASE x.kind = "style"
  <2>1. Allowed(x, z("css"))
    BY <1>1, <1>3 DEF Allowed
  <2> QED BY <1>1, <1>2, <2>1
<1>4. CASE x.kind = "tagStart"
  <2>1. Allowed(x, z("script"))
    BY <1>1, <1>4 DEF Allowed
  <2> QED BY <1>1, <1>2, <2>1
<1>5. CASE x.kind # "style" /\ x.kind # "tagStart"
  <2>1. Allowed(x, z("blank"))
    BY <1>1, <1>5 DEF Allowed
  <2> QED BY <1>1, <1>2, <2>1
<1> QED BY <1>3, <1>4, <1>5

Encloses(e, x, w, y) ==
  /\ Len(e) = Len(w) + 2
  /\ e[1] = x /\ e[Len(w) + 2] = y
  /\ \A j \in 1..Len(w) : e[1 + j] = w[j]

\* What an enclosure has at each place.
LEMMA EnclosedLines ==
  ASSUME NEW S, NEW x \in S, NEW y \in S, NEW w \in Seq(S)
  PROVE  Enclosed(x, w, y) \in Seq(S) /\ Encloses(Enclosed(x, w, y), x, w, y)
<1> DEFINE first == <<x>>
           last == <<y>>
           b == first \o w
           e == b \o last
<1>1. /\ first \in Seq(S) /\ last \in Seq(S) /\ Len(first) = 1 /\ Len(last) = 1 /\ Len(w) \in Nat
      /\ first[1] = x /\ last[1] = y
  OBVIOUS
<1>2. Enclosed(x, w, y) = e
  BY DEF Enclosed
<1> HIDE DEF first, last
<1>3. b \in Seq(S) /\ Len(b) = 1 + Len(w) /\ b = Joined(first, w)
  <2>1. b \in Seq(S) /\ Len(b) = Len(first) + Len(w)
    BY <1>1, ConcatProperties
  <2>2. b = Joined(first, w)
    BY <1>1, ConcatPlaces
  <2> HIDE DEF b
  <2> QED BY <1>1, <2>1, <2>2
<1>4. \A j \in 1..(1 + Len(w)) : b[j] = IF j <= 1 THEN first[j] ELSE w[j - 1]
  BY <1>1, <1>3 DEF Joined
<1> HIDE DEF b
<1>5. e \in Seq(S) /\ Len(e) = Len(b) + Len(last) /\ e = Joined(b, last)
  BY <1>1, <1>3, ConcatProperties, ConcatPlaces
<1>6. \A j \in 1..(1 + Len(w) + 1) : e[j] = IF j <= 1 + Len(w) THEN b[j] ELSE last[j - (1 + Len(w))]
  BY <1>1, <1>3, <1>5 DEF Joined
<1> HIDE DEF e
<1>7. e[1] = x
  <2>1. 1 \in 1..(1 + Len(w) + 1) /\ 1 <= 1 + Len(w) /\ 1 \in 1..(1 + Len(w))
    BY <1>1
  <2> QED BY <1>1, <1>4, <1>6, <2>1
<1>8. e[Len(w) + 2] = y
  <2>1. Len(w) + 2 \in 1..(1 + Len(w) + 1) /\ ~(Len(w) + 2 <= 1 + Len(w)) /\ Len(w) + 2 - (1 + Len(w)) = 1
    BY <1>1
  <2> QED BY <1>1, <1>6, <2>1
<1>9. \A j \in 1..Len(w) : e[1 + j] = w[j]
  <2>1. \A j \in 1..Len(w) : /\ 1 + j \in 1..(1 + Len(w)) /\ 1 + j \in 1..(1 + Len(w) + 1)
                             /\ 1 + j <= 1 + Len(w) /\ ~(1 + j <= 1) /\ 1 + j - 1 = j
    BY <1>1
  <2> QED BY <1>4, <1>6, <2>1
<1>10. Len(e) = Len(w) + 2
  BY <1>1, <1>3, <1>5
<1> QED BY <1>2, <1>5, <1>7, <1>8, <1>9, <1>10 DEF Encloses

\* Paired lines between two that belong together.
LEMMA PairsEnclosed ==
  ASSUME NEW x \in AllLines, NEW y \in AllLines, Mates(x, y),
         NEW w \in Seq(AllLines), NEW q, Pairs(w, q), \A j \in 1..Len(w) : Allowed(x, w[j])
  PROVE  \E m : Pairs(Enclosed(x, w, y), m)
<1>1. PICK z \in AllLines : Allowed(x, z) /\ ~IsStart(z) /\ ~IsEnd(z)
  BY SomethingAllowed
<1> DEFINE f == <<x, z, y>>
           m == [i \in 1..3 |-> IF i = 1 THEN 3 ELSE IF i = 2 THEN 2 ELSE 1]
<1>2. f \in Seq(AllLines) /\ Len(f) = 3 /\ f[1] = x /\ f[2] = z /\ f[3] = y
  OBVIOUS
<1>3. m \in [1..3 -> 1..3] /\ m[1] = 3 /\ m[2] = 2 /\ m[3] = 1
  OBVIOUS
<1>4. IsStart(x) /\ IsEnd(y) /\ ~IsEnd(x) /\ ~IsStart(y)
  BY MatesFacts, StartsOrEnds
<1> HIDE DEF f, m
<1>5. Pairs(f, m)
  <2>1. \A i \in 1..3 : i = 1 \/ i = 2 \/ i = 3
    OBVIOUS
  <2>2. \A i \in 1..3 : m[m[i]] = i
    BY <1>3, <2>1
  <2>3. \A i \in 1..3 : (IsStart(f[i]) <=> i < m[i]) /\ (IsEnd(f[i]) <=> m[i] < i)
    BY <1>1, <1>2, <1>3, <1>4, <2>1
  <2>4. \A i \in 1..3 : i < m[i] => Mates(f[i], f[m[i]])
    BY <1>2, <1>3, <2>1
  <2>5. \A i, j \in 1..3 : i < j /\ j < m[i] => i = 1 /\ j = 2
    BY <1>3, <2>1
  <2>6. \A i, j \in 1..3 : i < j /\ j < m[i] => i < m[j] /\ m[j] < m[i] /\ Allowed(f[i], f[j])
    BY <1>1, <1>2, <1>3, <2>5
  <2> QED BY <1>2, <1>3, <2>2, <2>3, <2>4, <2>6 DEF Pairs
<1>6. \E p : Pairs(Spliced(f, <<2, 2>>, w), p)
  <2>1. 2 \in 1..Len(f) /\ 2 \in 2..Len(f) /\ \A i \in 2..2 : m[i] \in 2..2
    BY <1>2, <1>3
  <2>2. \A i \in 1..(2 - 1) : i = 1
    OBVIOUS
  <2>3. \A i \in 1..(2 - 1), j \in 1..Len(w) : m[i] > 2 => Allowed(f[i], w[j])
    BY <1>2, <2>2
  <2> QED BY <1>2, <1>5, <2>1, <2>3, PairsSpliced
<1>7. Spliced(f, <<2, 2>>, w) = Enclosed(x, w, y)
  <2> DEFINE g == Spliced(f, <<2, 2>>, w)
             e == Enclosed(x, w, y)
  <2>1. g \in Seq(AllLines) /\ Splices(g, f, 2, 2, w)
    <3>1. 2 \in 1..Len(f) /\ 2 \in 2..Len(f)
      BY <1>2
    <3> QED BY <1>2, <3>1, SplicedLines
  <2>2. e \in Seq(AllLines) /\ Encloses(e, x, w, y)
    BY EnclosedLines
  <2> HIDE DEF g, e
  <2>3. Len(w) \in Nat
    OBVIOUS
  <2>4. Len(g) = Len(e)
    BY <1>2, <2>1, <2>2, <2>3 DEF Splices, Encloses
  <2>5. g[1] = x
    BY <1>2, <2>1 DEF Splices
  <2>6. g[Len(w) + 2] = y
    <3>1. 1 \in 1..(Len(f) - 2) /\ 2 - 1 + Len(w) + 1 = Len(w) + 2 /\ 2 + 1 = 3
      BY <1>2, <2>3
    <3> QED BY <1>2, <2>1, <3>1 DEF Splices
  <2>7. \A j \in 1..Len(w) : g[1 + j] = w[j]
    BY <2>1 DEF Splices
  <2>8. ASSUME NEW i \in 1..Len(g) PROVE g[i] = e[i]
    <3>1. i = 1 \/ i = Len(w) + 2 \/ i - 1 \in 1..Len(w)
      BY <2>2, <2>3, <2>4 DEF Encloses
    <3>2. CASE i - 1 \in 1..Len(w)
      <4>1. i = 1 + (i - 1)
        OBVIOUS
      <4> QED BY <2>2, <2>7, <3>2, <4>1 DEF Encloses
    <3> QED BY <2>2, <2>5, <2>6, <3>1, <3>2 DEF Encloses
  <2>9. g = e
    BY <2>1, <2>2, <2>4, <2>8, SameSequence
  <2> QED BY <2>9 DEF g, e
<1> QED BY <1>6, <1>7

\* The blank line is a line.
LEMMA BlankLine ==
  /\ Blank \in AllLines /\ Blank.kind = "blank" /\ ~IsStart(Blank) /\ ~IsEnd(Blank)
  /\ Blank.by = None /\ Blank.of = None
<1>1. Blank \in AllLines /\ Blank.kind = "blank" /\ Blank.by = None /\ Blank.of = None
  BY ConstantsAssumption DEF AllLines, Blank, Mark, Line, Kinds
<1> QED BY <1>1 DEF IsStart, IsEnd, StartKinds, EndKinds

\* Paired lines after paired lines.
LEMMA PairsConcat ==
  ASSUME NEW f \in Seq(AllLines), NEW m, Pairs(f, m), NEW g \in Seq(AllLines), NEW q, Pairs(g, q)
  PROVE  \E p : Pairs(f \o g, p)
<1> DEFINE b == <<Blank, Blank>>
           h == Spliced(b, <<2, 2>>, g)
           e == Spliced(h, <<1, 1>>, f)
<1>1. b \in Seq(AllLines) /\ Len(b) = 2 /\ b[1] = Blank /\ b[2] = Blank
  BY BlankLine
<1> HIDE DEF b
<1>2. \A k \in 1..2 : ~IsStart(b[k]) /\ ~IsEnd(b[k])
  <2>1. \A k \in 1..2 : b[k] = Blank
    BY <1>1
  <2> QED BY <2>1, BlankLine
<1>3. PICK r : Pairs(b, r)
  BY <1>1, <1>2, PairsAlone
<1>4. \A i \in 1..2 : r[i] = i
  <2>1. r \in [1..2 -> 1..2] /\ \A i \in 1..2 : (IsStart(b[i]) <=> i < r[i]) /\ (IsEnd(b[i]) <=> r[i] < i)
    BY <1>1, <1>3 DEF Pairs
  <2>2. \A i \in 1..2 : ~(i < r[i]) /\ ~(r[i] < i)
    BY <1>2, <2>1
  <2> QED BY <2>1, <2>2
<1>5. Len(f) \in Nat /\ Len(g) \in Nat
  OBVIOUS
<1>6. h \in Seq(AllLines) /\ Splices(h, b, 2, 2, g)
  <2>1. 2 \in 1..Len(b) /\ 2 \in 2..Len(b)
    BY <1>1
  <2> QED BY <1>1, <2>1, SplicedLines
<1>7. PICK p : Pairs(h, p)
  <2>1. 2 \in 1..Len(b) /\ 2 \in 2..Len(b) /\ \A i \in 2..2 : r[i] \in 2..2
    BY <1>1, <1>4
  <2>2. \A i \in 1..(2 - 1), j \in 1..Len(g) : ~(r[i] > 2)
    BY <1>4
  <2> QED BY <1>1, <1>3, <2>1, <2>2, PairsSpliced
<1> HIDE DEF h
<1>8. Len(h) = 1 + Len(g) /\ h[1] = Blank /\ \A j \in 1..Len(g) : h[1 + j] = g[j]
  BY <1>1, <1>5, <1>6 DEF Splices
<1>9. p[1] = 1
  <2>1. p \in [1..Len(h) -> 1..Len(h)] /\ \A i \in 1..Len(h) : (IsStart(h[i]) <=> i < p[i])
    BY <1>7 DEF Pairs
  <2>2. 1 \in 1..Len(h)
    BY <1>5, <1>8
  <2>3. ~(1 < p[1]) /\ p[1] \in 1..Len(h)
    BY <1>8, <2>1, <2>2, BlankLine
  <2> QED BY <1>5, <1>8, <2>3
<1>10. 1 \in 1..Len(h) /\ 1 \in 1..Len(h) /\ \A i \in 1..1 : p[i] \in 1..1
  BY <1>5, <1>8, <1>9
<1>11. e \in Seq(AllLines) /\ Splices(e, h, 1, 1, f)
  BY <1>6, <1>10, SplicedLines
<1>12. \E x : Pairs(e, x)
  <2>1. \A i \in 1..(1 - 1), j \in 1..Len(f) : p[i] > 1 => Allowed(h[i], f[j])
    OBVIOUS
  <2> QED BY <1>6, <1>7, <1>10, <2>1, PairsSpliced
<1> HIDE DEF e
<1>13. /\ f \o g \in Seq(AllLines) /\ Len(f \o g) = Len(f) + Len(g)
       /\ \A i \in 1..(Len(f) + Len(g)) : (f \o g)[i] = IF i <= Len(f) THEN f[i] ELSE g[i - Len(f)]
  BY ConcatProperties
<1>14. Len(e) = Len(f) + Len(g)
  BY <1>5, <1>8, <1>11 DEF Splices
<1>15. ASSUME NEW i \in 1..Len(e) PROVE e[i] = (f \o g)[i]
  <2>1. CASE i <= Len(f)
    <3>1. i \in 1..Len(f) /\ 1 - 1 + i = i /\ i \in 1..(Len(f) + Len(g))
      BY <1>5, <1>14, <2>1
    <3>2. e[i] = f[i]
      BY <1>11, <3>1 DEF Splices
    <3> QED BY <1>13, <2>1, <3>1, <3>2
  <2>2. CASE ~(i <= Len(f))
    <3> DEFINE j == i - Len(f)
    <3>1. j \in 1..(Len(h) - 1) /\ j \in 1..Len(g) /\ 1 - 1 + Len(f) + j = i /\ i \in 1..(Len(f) + Len(g))
      BY <1>5, <1>8, <1>14, <2>2
    <3> HIDE DEF j
    <3>2. e[i] = h[1 + j]
      BY <1>11, <3>1 DEF Splices
    <3>3. h[1 + j] = g[j]
      BY <1>8, <3>1
    <3>4. (f \o g)[i] = g[i - Len(f)]
      BY <1>13, <2>2, <3>1
    <3> QED BY <3>2, <3>3, <3>4 DEF j
  <2> QED BY <2>1, <2>2
<1>16. e = f \o g
  BY <1>11, <1>13, <1>14, <1>15, SameSequence
<1> QED BY <1>12, <1>16

\* A piece is one of more sessions too, and one that need not link.
LEMMA PieceMore ==
  ASSUME NEW f, NEW T, NEW linked, Piece(f, T, linked), NEW U, T \subseteq U, NEW l, l => linked
  PROVE  Piece(f, U, l)
BY DEF Piece

\* A piece after a piece.
LEMMA PieceConcat ==
  ASSUME NEW f, NEW g, NEW T, NEW linked, Piece(f, T, linked), Piece(g, T, linked)
  PROVE  Piece(f \o g, T, linked)
<1> DEFINE h == f \o g
<1>1. /\ f \in Seq(AllLines) /\ g \in Seq(AllLines) /\ Len(f) \in Nat /\ Len(g) \in Nat
      /\ \A k \in 1..Len(f) : f[k].kind = "start" => f[k].by \in T
      /\ \A k \in 1..Len(g) : g[k].kind = "start" => g[k].by \in T
  BY DEF Piece
<1>2. \E m : Pairs(h, m)
  <2>1. (\E m : Pairs(f, m)) /\ (\E m : Pairs(g, m))
    BY DEF Piece
  <2> QED BY <1>1, <2>1, PairsConcat
<1>3. /\ h \in Seq(AllLines) /\ Len(h) = Len(f) + Len(g)
      /\ \A i \in 1..(Len(f) + Len(g)) : h[i] = IF i <= Len(f) THEN f[i] ELSE g[i - Len(f)]
  BY <1>1, ConcatProperties
<1> HIDE DEF h
<1>4. /\ \A i \in 1..Len(h) : i \in 1..Len(f) \/ i - Len(f) \in 1..Len(g)
      /\ \A i \in 1..Len(h) : i \in 1..Len(f) => h[i] = f[i]
      /\ \A i \in 1..Len(h) : i - Len(f) \in 1..Len(g) => h[i] = g[i - Len(f)]
  <2>1. \A i \in 1..(Len(f) + Len(g)) : i \in 1..Len(f) \/ i - Len(f) \in 1..Len(g)
    BY <1>1
  <2>2. \A i \in 1..(Len(f) + Len(g)) : i \in 1..Len(f) => i <= Len(f)
    BY <1>1
  <2>3. \A i \in 1..(Len(f) + Len(g)) : i - Len(f) \in 1..Len(g) => ~(i <= Len(f))
    BY <1>1
  <2> QED BY <1>3, <2>1, <2>2, <2>3
<1>5. \A k \in 1..Len(h) : h[k].kind = "start" => h[k].by \in T
  BY <1>1, <1>4
<1>6. ASSUME linked
      PROVE  Linked(h) /\ (Len(h) # 0 => h[1].kind # "start")
  <2>1. Linked(f) /\ (Len(f) # 0 => f[1].kind # "start") /\ Linked(g) /\ (Len(g) # 0 => g[1].kind # "start")
    BY <1>6 DEF Piece
  <2>2. ASSUME NEW k \in 2..Len(h), h[k].kind = "start" PROVE h[k - 1].kind = "outer"
    <3>1. k \in 1..Len(h) /\ k - 1 \in 1..Len(h)
      BY <1>1, <1>3
    <3>2. CASE k \in 1..Len(f)
      <4>1. k \in 2..Len(f) /\ k - 1 \in 1..Len(f) /\ h[k] = f[k] /\ h[k - 1] = f[k - 1]
        BY <1>1, <1>4, <3>1, <3>2
      <4> QED BY <2>1, <2>2, <4>1 DEF Linked
    <3>3. CASE k - Len(f) \in 1..Len(g)
      <4> DEFINE j == k - Len(f)
      <4>1. j \in 1..Len(g) /\ h[k] = g[j]
        BY <1>4, <3>1, <3>3
      <4>2. j # 1
        BY <1>1, <2>1, <2>2, <4>1
      <4>3. j \in 2..Len(g) /\ k - 1 - Len(f) = j - 1 /\ k - 1 - Len(f) \in 1..Len(g)
        BY <1>1, <3>1, <4>1, <4>2
      <4>4. h[k - 1] = g[j - 1]
        BY <1>4, <3>1, <4>3
      <4> HIDE DEF j
      <4> QED BY <2>1, <2>2, <4>1, <4>3, <4>4 DEF Linked
    <3> QED BY <1>4, <3>1, <3>2, <3>3
  <2>3. ASSUME Len(h) # 0 PROVE h[1].kind # "start"
    <3>1. 1 \in 1..Len(h)
      BY <1>1, <1>3, <2>3
    <3>2. CASE Len(f) # 0
      <4>1. 1 \in 1..Len(f)
        BY <1>1, <3>2
      <4> QED BY <1>4, <2>1, <3>1, <3>2, <4>1
    <3>3. CASE Len(f) = 0
      <4>1. 1 - Len(f) = 1 /\ 1 \in 1..Len(g) /\ Len(g) # 0
        BY <1>1, <1>3, <2>3, <3>3
      <4>2. h[1] = g[1]
        BY <1>4, <3>1, <4>1
      <4> QED BY <2>1, <4>1, <4>2
    <3> QED BY <3>2, <3>3
  <2> QED BY <2>2, <2>3 DEF Linked
<1>7. Piece(h, T, linked)
  BY <1>2, <1>3, <1>5, <1>6 DEF Piece
<1> QED BY <1>7 DEF h

\* A piece between two lines that belong together.
LEMMA PieceEnclosed ==
  ASSUME NEW w, NEW T, NEW linked, Piece(w, T, linked),
         NEW x \in AllLines, NEW y \in AllLines, Mates(x, y), x.kind = "start" => x.by \in T /\ ~linked,
         \A j \in 1..Len(w) : Allowed(x, w[j])
  PROVE  Piece(Enclosed(x, w, y), T, linked)
<1> DEFINE e == Enclosed(x, w, y)
<1>1. /\ w \in Seq(AllLines) /\ Len(w) \in Nat
      /\ \A k \in 1..Len(w) : w[k].kind = "start" => w[k].by \in T
  BY DEF Piece
<1>2. \E m : Pairs(e, m)
  <2>1. \E q : Pairs(w, q)
    BY DEF Piece
  <2> QED BY <1>1, <2>1, PairsEnclosed
<1>3. e \in Seq(AllLines) /\ Encloses(e, x, w, y)
  BY <1>1, EnclosedLines
<1> HIDE DEF e
<1>4. /\ Len(e) = Len(w) + 2 /\ e[1] = x
      /\ \A k \in 1..Len(e) : k = 1 \/ (k = Len(w) + 2 /\ e[k] = y) \/ (k - 1 \in 1..Len(w) /\ e[k] = w[k - 1])
  <2>1. /\ Len(e) = Len(w) + 2 /\ e[1] = x /\ e[Len(w) + 2] = y
        /\ \A j \in 1..Len(w) : e[1 + j] = w[j]
    BY <1>3 DEF Encloses
  <2>2. ASSUME NEW k \in 1..Len(e), k # 1, k # Len(w) + 2 PROVE k - 1 \in 1..Len(w) /\ e[k] = w[k - 1]
    <3>1. k - 1 \in 1..Len(w) /\ k = 1 + (k - 1)
      BY <1>1, <2>1, <2>2
    <3> QED BY <2>1, <3>1
  <2> QED BY <2>1, <2>2
<1>5. y.kind # "start"
  <2>1. IsEnd(y)
    BY MatesFacts
  <2> QED BY <2>1 DEF IsEnd, EndKinds
<1>6. \A k \in 1..Len(e) : e[k].kind = "start" => e[k].by \in T
  BY <1>1, <1>4, <1>5
<1>7. ASSUME linked PROVE Linked(e) /\ e[1].kind # "start"
  <2>1. Linked(w) /\ (Len(w) # 0 => w[1].kind # "start")
    BY <1>7 DEF Piece
  <2>2. ASSUME NEW k \in 2..Len(e), e[k].kind = "start" PROVE e[k - 1].kind = "outer"
    <3>1. k \in 1..Len(e) /\ k # 1 /\ k - 1 \in 1..Len(e)
      BY <1>1, <1>4
    <3>2. k - 1 \in 1..Len(w) /\ e[k] = w[k - 1]
      BY <1>4, <1>5, <2>2, <3>1
    <3> DEFINE j == k - 1
    <3>3. j # 1
      BY <1>1, <2>1, <2>2, <3>2
    <3>4. j \in 2..Len(w) /\ j # Len(w) + 2 /\ j - 1 \in 1..Len(w) /\ j \in 1..Len(e)
      BY <1>1, <3>1, <3>2, <3>3
    <3>5. e[j] = w[j - 1]
      BY <1>4, <3>3, <3>4
    <3>6. w[j].kind = "start"
      BY <2>2, <3>2
    <3> HIDE DEF j
    <3>7. e[j].kind = "outer"
      BY <2>1, <3>4, <3>5, <3>6 DEF Linked
    <3> QED BY <3>7 DEF j
  <2> QED BY <1>4, <1>7, <2>2 DEF Linked
<1>8. Piece(e, T, linked)
  BY <1>2, <1>3, <1>6, <1>7 DEF Piece
<1> QED BY <1>8 DEF e

\* Lines that start and end nothing are a piece.
LEMMA PieceAlone ==
  ASSUME NEW f \in Seq(AllLines), \A k \in 1..Len(f) : ~IsStart(f[k]) /\ ~IsEnd(f[k]), NEW T, NEW linked
  PROVE  Piece(f, T, linked)
<1>1. \E m : Pairs(f, m)
  BY PairsAlone
<1>2. \A k \in 1..Len(f) : f[k].kind # "start"
  BY DEF IsStart, StartKinds
<1>3. Len(f) \in Nat /\ \A k \in 2..Len(f) : k \in 1..Len(f)
  OBVIOUS
<1>4. Len(f) # 0 => 1 \in 1..Len(f)
  BY <1>3
<1> QED BY <1>1, <1>2, <1>3, <1>4 DEF Piece, Linked

-----------------------------------------------------------------------------
(* Pieces of pieces *)

\* g is like f line by line: the same kinds, mates still mates.
Alike(f, g) ==
  /\ Len(g) = Len(f)
  /\ \A j \in 1..Len(f) : g[j].kind = f[j].kind /\ (f[j].kind = "start" => g[j].by = f[j].by)
  /\ \A j, k \in 1..Len(f) : Mates(f[j], f[k]) => Mates(g[j], g[k])

\* Only what the pairs are about makes a piece: not a line's indentation, for
\* one.
LEMMA PieceAlike ==
  ASSUME NEW f, NEW T, NEW linked, Piece(f, T, linked), NEW g \in Seq(AllLines), Alike(f, g)
  PROVE  Piece(g, T, linked)
<1>1. /\ f \in Seq(AllLines) /\ Len(f) \in Nat /\ Len(g) = Len(f)
      /\ \A k \in 1..Len(f) : f[k].kind = "start" => f[k].by \in T
  BY DEF Piece, Alike
<1>2. \A j \in 1..Len(f) : g[j].kind = f[j].kind /\ (f[j].kind = "start" => g[j].by = f[j].by)
  BY DEF Alike
<1>3. PICK m : Pairs(f, m)
  BY DEF Piece
<1>4. \A j \in 1..Len(f) : (IsStart(g[j]) <=> IsStart(f[j])) /\ (IsEnd(g[j]) <=> IsEnd(f[j]))
  BY <1>2 DEF IsStart, IsEnd
<1>5. \A j, k \in 1..Len(f) : Allowed(f[j], f[k]) => Allowed(g[j], g[k])
  <2>1. SUFFICES ASSUME NEW j \in 1..Len(f), NEW k \in 1..Len(f), Allowed(f[j], f[k])
                 PROVE Allowed(g[j], g[k])
    OBVIOUS
  <2>2. /\ g[j].kind = f[j].kind /\ (f[j].kind = "start" => g[j].by = f[j].by)
        /\ g[k].kind = f[k].kind /\ (f[k].kind = "start" => g[k].by = f[k].by)
    BY <1>2
  <2> QED BY <2>1, <2>2 DEF Allowed
<1>6. Pairs(g, m)
  <2>1. m \in [1..Len(f) -> 1..Len(f)] /\ \A i \in 1..Len(f) : m[m[i]] = i
    BY <1>3 DEF Pairs
  <2>2. \A i \in 1..Len(f) : (IsStart(f[i]) <=> i < m[i]) /\ (IsEnd(f[i]) <=> m[i] < i)
    BY <1>3 DEF Pairs
  <2>3. \A i \in 1..Len(f) : i < m[i] => Mates(g[i], g[m[i]])
    <3>1. \A i \in 1..Len(f) : i < m[i] => Mates(f[i], f[m[i]])
      BY <1>3 DEF Pairs
    <3> QED BY <2>1, <3>1 DEF Alike
  <2>4. \A i, j \in 1..Len(f) : i < j /\ j < m[i] => i < m[j] /\ m[j] < m[i] /\ Allowed(g[i], g[j])
    <3>1. \A i, j \in 1..Len(f) : i < j /\ j < m[i] => i < m[j] /\ m[j] < m[i] /\ Allowed(f[i], f[j])
      BY <1>3 DEF Pairs
    <3> QED BY <1>5, <3>1
  <2>5. \A i \in 1..Len(f) : (IsStart(g[i]) <=> i < m[i]) /\ (IsEnd(g[i]) <=> m[i] < i)
    BY <1>4, <2>2
  <2> QED BY <1>1, <2>1, <2>3, <2>4, <2>5 DEF Pairs
<1>7. \A k \in 1..Len(g) : g[k].kind = "start" => g[k].by \in T
  <2>1. ASSUME NEW k \in 1..Len(f), g[k].kind = "start" PROVE g[k].by \in T
    <3>1. f[k].kind = "start" /\ g[k].by = f[k].by
      BY <1>2, <2>1
    <3> QED BY <1>1, <3>1
  <2> QED BY <1>1, <2>1
<1>8. linked => Linked(g) /\ (Len(g) # 0 => g[1].kind # "start")
  <2>1. ASSUME linked PROVE Linked(g) /\ (Len(g) # 0 => g[1].kind # "start")
    <3>1. Linked(f) /\ (Len(f) # 0 => f[1].kind # "start")
      BY <2>1 DEF Piece
    <3>2. \A k \in 2..Len(f) : k \in 1..Len(f) /\ k - 1 \in 1..Len(f)
      BY <1>1
    <3>3. \A k \in 2..Len(f) : g[k].kind = "start" => g[k - 1].kind = "outer"
      <4>1. ASSUME NEW k \in 2..Len(f), g[k].kind = "start" PROVE g[k - 1].kind = "outer"
        <5> DEFINE j == k - 1
        <5>1. k \in 1..Len(f) /\ j \in 1..Len(f) /\ f[k].kind = "start"
          BY <1>2, <3>2, <4>1
        <5>2. f[j].kind = "outer"
          BY <3>1, <5>1 DEF Linked
        <5> HIDE DEF j
        <5>3. g[j].kind = "outer"
          BY <1>2, <5>1, <5>2
        <5> QED BY <5>3 DEF j
      <4> QED BY <4>1
    <3>4. Len(f) # 0 => 1 \in 1..Len(f)
      BY <1>1
    <3> QED BY <1>1, <1>2, <3>1, <3>3, <3>4 DEF Linked
  <2> QED BY <2>1
<1> QED BY <1>6, <1>7, <1>8 DEF Piece

\* The line above a session's start marker stays above it.
LinksKept(u, f, g) ==
  \A j \in 2..Len(g) : g[j].kind = "start" =>
    f[u[j]].kind = "start" /\ u[j - 1] = u[j] - 1 /\ (f[u[j - 1]].kind = "outer" => g[j - 1].kind = "outer")

\* Lines that keep each start marker with what is above it stay linked.
LEMMA LinkedEmbedded ==
  ASSUME NEW f \in Seq(AllLines), NEW g \in Seq(AllLines), Linked(f),
         NEW u \in [1..Len(g) -> 1..Len(f)], LinksKept(u, f, g)
  PROVE  Linked(g)
<1>1. SUFFICES ASSUME NEW k \in 2..Len(g), g[k].kind = "start" PROVE g[k - 1].kind = "outer"
  BY DEF Linked
<1>2. f[u[k]].kind = "start" /\ u[k - 1] = u[k] - 1 /\ (f[u[k - 1]].kind = "outer" => g[k - 1].kind = "outer")
  BY <1>1 DEF LinksKept
<1>3. k \in 1..Len(g) /\ k - 1 \in 1..Len(g)
  OBVIOUS
<1>4. u[k] \in 1..Len(f) /\ u[k - 1] \in 1..Len(f)
  BY <1>3
<1>5. u[k] \in 2..Len(f)
  BY <1>2, <1>4
<1> QED BY <1>2, <1>5 DEF Linked

\* Lines embedded into a piece are a piece.
LEMMA PieceEmbedded ==
  ASSUME NEW f, NEW T, Piece(f, T, FALSE), NEW m, Pairs(f, m),
         NEW g \in Seq(AllLines), NEW u, Embeds(u, f, m, g), NEW U, NEW linked,
         \A j \in 1..Len(g) : g[j].kind = "start" => g[j].by \in U,
         linked => Linked(f) /\ LinksKept(u, f, g),
         linked => (Len(g) # 0 => g[1].kind # "start")
  PROVE  Piece(g, U, linked)
<1>1. f \in Seq(AllLines)
  BY DEF Piece
<1>2. \E p : Pairs(g, p)
  BY <1>1, Embedded
<1>3. u \in [1..Len(g) -> 1..Len(f)]
  BY DEF Embeds
<1>4. linked => Linked(g)
  BY <1>1, <1>3, LinkedEmbedded
<1> QED BY <1>2, <1>4 DEF Piece

Closed(m, a, b) == \A i \in a..b : m[i] \in a..b

\* s is lines a to b of f.
IsSub(s, f, a, b) ==
  /\ Len(s) = b - a + 1
  /\ \A j \in 1..Len(s) : a - 1 + j \in a..b /\ s[j] = f[a - 1 + j]

\* What a part of a sequence has at each place.
LEMMA SubLines ==
  ASSUME NEW S, NEW f \in Seq(S), NEW a \in 1..(Len(f) + 1), NEW b \in (a - 1)..Len(f)
  PROVE  SubSeq(f, a, b) \in Seq(S) /\ IsSub(SubSeq(f, a, b), f, a, b)
<1> DEFINE s == SubSeq(f, a, b)
<1>1. Len(f) \in Nat /\ a \in Nat /\ b \in Nat /\ 1 <= a /\ b <= Len(f) /\ a <= b + 1
  OBVIOUS
<1>2. a \in Int /\ b \in Int /\ \A i \in a..b : f[i] \in S
  BY <1>1
<1>3. /\ s \in Seq(S) /\ Len(s) = (IF a <= b THEN b - a + 1 ELSE 0)
      /\ \A i \in 1..(b - a + 1) : s[i] = f[a + i - 1]
  BY <1>2, SubSeqProperties
<1> HIDE DEF s
<1>4. Len(s) = b - a + 1
  BY <1>1, <1>3
<1>5. \A j \in 1..(b - a + 1) : a - 1 + j \in a..b /\ a + j - 1 = a - 1 + j
  BY <1>1
<1>6. \A j \in 1..Len(s) : a - 1 + j \in a..b /\ s[j] = f[a - 1 + j]
  BY <1>3, <1>4, <1>5
<1> QED BY <1>3, <1>4, <1>6 DEF IsSub, s

\* A part that has the partners of all its lines is embedded.
LEMMA SubEmbeds ==
  ASSUME NEW f \in Seq(AllLines), NEW m, Pairs(f, m),
         NEW a \in 1..(Len(f) + 1), NEW b \in (a - 1)..Len(f), Closed(m, a, b)
  PROVE  /\ Embeds([j \in 1..(b - a + 1) |-> a - 1 + j], f, m, SubSeq(f, a, b))
         /\ LinksKept([j \in 1..(b - a + 1) |-> a - 1 + j], f, SubSeq(f, a, b))
<1> DEFINE s == SubSeq(f, a, b)
           u == [j \in 1..(b - a + 1) |-> a - 1 + j]
<1>1. Len(f) \in Nat /\ a \in Nat /\ b \in Nat /\ 1 <= a /\ b <= Len(f) /\ a <= b + 1
  OBVIOUS
<1>2. /\ s \in Seq(AllLines) /\ Len(s) = b - a + 1
      /\ \A j \in 1..(b - a + 1) : s[j] = f[a - 1 + j]
  <2>1. s \in Seq(AllLines) /\ IsSub(s, f, a, b)
    BY SubLines
  <2> HIDE DEF s
  <2> QED BY <2>1 DEF IsSub
<1> HIDE DEF s
<1>3. \A j \in 1..Len(s) : u[j] = a - 1 + j /\ u[j] \in 1..Len(f) /\ u[j] \in a..b /\ s[j] = f[u[j]]
  BY <1>1, <1>2
<1>4. u \in [1..Len(s) -> 1..Len(f)]
  BY <1>1, <1>2
<1> HIDE DEF u
<1>5. \A i, j \in 1..Len(s) : i < j => u[i] < u[j]
  BY <1>1, <1>2, <1>3
<1>6. \A j \in 1..Len(s) : \E k \in 1..Len(s) : u[k] = m[u[j]]
  <2>1. SUFFICES ASSUME NEW j \in 1..Len(s) PROVE \E k \in 1..Len(s) : u[k] = m[u[j]]
    OBVIOUS
  <2> DEFINE i == m[u[j]]
             k == i - (a - 1)
  <2>2. i \in a..b
    BY <1>3 DEF Closed
  <2> HIDE DEF i
  <2>3. k \in 1..Len(s) /\ a - 1 + k = i
    BY <1>1, <1>2, <2>2
  <2> HIDE DEF k
  <2>4. u[k] = i
    BY <1>3, <2>3
  <2> QED BY <2>3, <2>4 DEF i
<1>7. \A j, k \in 1..Len(s) : u[k] = m[u[j]] /\ j < k => u[j] < m[u[j]]
  BY <1>5
<1>8. \A i \in 1..Len(f) : i < m[i] => IsStart(f[i]) /\ IsEnd(f[m[i]]) /\ Mates(f[i], f[m[i]])
  <2>1. \A i \in 1..Len(f) : (IsStart(f[i]) <=> i < m[i]) /\ (i < m[i] => Mates(f[i], f[m[i]]))
    BY DEF Pairs
  <2> QED BY <2>1, MatesFacts
<1>9. \A j, k \in 1..Len(s) : u[k] = m[u[j]] /\ j < k =>
        (IsStart(s[j]) <=> IsEnd(s[k])) /\ (IsStart(s[j]) => Mates(s[j], s[k]))
  BY <1>3, <1>7, <1>8
<1>10. Embeds(u, f, m, s)
  BY <1>3, <1>4, <1>5, <1>6, <1>9 DEF Embeds
<1>11. LinksKept(u, f, s)
  <2>1. SUFFICES ASSUME NEW j \in 2..Len(s), s[j].kind = "start"
                 PROVE f[u[j]].kind = "start" /\ u[j - 1] = u[j] - 1 /\ (f[u[j - 1]].kind = "outer" => s[j - 1].kind = "outer")
    BY DEF LinksKept
  <2> DEFINE i == j - 1
  <2>2. j \in 1..Len(s) /\ i \in 1..Len(s) /\ j = i + 1
    BY <1>1, <1>2
  <2> HIDE DEF i
  <2>3. u[i] = u[j] - 1 /\ s[i] = f[u[i]] /\ s[j] = f[u[j]]
    BY <1>1, <1>3, <2>2
  <2> QED BY <2>1, <2>3 DEF i
<1> QED BY <1>10, <1>11 DEF s, u

\* Lines a to b of a piece.
LEMMA PieceSub ==
  ASSUME NEW f, NEW T, Piece(f, T, FALSE), NEW m, Pairs(f, m),
         NEW a \in 1..(Len(f) + 1), NEW b \in (a - 1)..Len(f), Closed(m, a, b),
         NEW U, \A k \in a..b : f[k].kind = "start" => f[k].by \in U,
         NEW linked, linked => Linked(f) /\ (a <= b => f[a].kind # "start")
  PROVE  Piece(SubSeq(f, a, b), U, linked)
<1> DEFINE s == SubSeq(f, a, b)
           u == [j \in 1..(b - a + 1) |-> a - 1 + j]
<1>1. f \in Seq(AllLines) /\ Len(f) \in Nat /\ a \in Nat /\ b \in Nat
  BY DEF Piece
<1>2. s \in Seq(AllLines) /\ IsSub(s, f, a, b)
  BY <1>1, SubLines
<1>3. Embeds(u, f, m, s) /\ LinksKept(u, f, s)
  BY <1>1, SubEmbeds
<1> HIDE DEF s, u
<1>4. Len(s) = b - a + 1 /\ \A j \in 1..Len(s) : a - 1 + j \in a..b /\ s[j] = f[a - 1 + j]
  BY <1>2 DEF IsSub
<1>5. \A j \in 1..Len(s) : s[j].kind = "start" => s[j].by \in U
  BY <1>4
<1>6. Len(s) # 0 => a <= b /\ s[1] = f[a]
  <2>1. ASSUME Len(s) # 0 PROVE a <= b /\ s[1] = f[a]
    <3>1. 1 \in 1..Len(s) /\ a - 1 + 1 = a /\ a <= b
      BY <1>1, <1>4, <2>1
    <3> QED BY <1>4, <3>1
  <2> QED BY <2>1
<1>7. linked => (Len(s) # 0 => s[1].kind # "start")
  BY <1>6
<1>8. Piece(s, U, linked)
  BY <1>2, <1>3, <1>5, <1>7, PieceEmbedded
<1> QED BY <1>8 DEF s

\* A part of linked lines is linked.
LEMMA LinkedSub ==
  ASSUME NEW f \in Seq(AllLines), NEW m, Pairs(f, m), Linked(f),
         NEW a \in 1..(Len(f) + 1), NEW b \in (a - 1)..Len(f), Closed(m, a, b)
  PROVE  Linked(SubSeq(f, a, b))
<1> DEFINE s == SubSeq(f, a, b)
           u == [j \in 1..(b - a + 1) |-> a - 1 + j]
<1>1. s \in Seq(AllLines)
  BY SubLines
<1>2. Embeds(u, f, m, s) /\ LinksKept(u, f, s)
  BY SubEmbeds
<1> HIDE DEF s, u
<1>3. u \in [1..Len(s) -> 1..Len(f)]
  BY <1>2 DEF Embeds
<1>4. Linked(s)
  BY <1>1, <1>2, <1>3, LinkedEmbedded
<1> QED BY <1>4 DEF s

\* u names the places of S in their order, at which g has the lines of f.
Names(u, g, f, S) ==
  /\ u \in [1..Len(g) -> S]
  /\ \A j \in 1..Len(g) : g[j] = f[u[j]]
  /\ \A i, j \in 1..Len(g) : i < j => u[i] < u[j]
  /\ \A k \in S : \E j \in 1..Len(g) : u[j] = k

\* Each picked line comes from one place, and in the order of the places.
LEMMA PickedNames ==
  ASSUME NEW f \in Seq(AllLines), NEW S \in SUBSET (1..Len(f))
  PROVE  Picked(f, S) \in Seq(AllLines) /\ \E u : Names(u, Picked(f, S), f, S)
<1> DEFINE g == Picked(f, S)
<1>1. Len(f) \in Nat /\ \A k \in S : f[k] \in AllLines
  OBVIOUS
<1>2. g \in Seq(AllLines) /\ \E u : Picks(u, g, f, S)
  BY <1>1, PickedFacts
<1> HIDE DEF g
<1>3. PICK u : Picks(u, g, f, S)
  BY <1>2
<1>4. DOMAIN g = 1..Len(g)
  BY <1>2
<1>5. Names(u, g, f, S)
  BY <1>3, <1>4 DEF Picks, Names
<1> QED BY <1>2, <1>5 DEF g

\* Lines picked with their partners are embedded.
LEMMA NamesEmbed ==
  ASSUME NEW f \in Seq(AllLines), NEW m, Pairs(f, m), NEW S \in SUBSET (1..Len(f)), \A k \in S : m[k] \in S,
         NEW g \in Seq(AllLines), NEW u, Names(u, g, f, S)
  PROVE  Embeds(u, f, m, g)
<1>1. /\ u \in [1..Len(g) -> S] /\ u \in [1..Len(g) -> 1..Len(f)]
      /\ \A j \in 1..Len(g) : g[j] = f[u[j]] /\ u[j] \in 1..Len(f)
      /\ \A i, j \in 1..Len(g) : i < j => u[i] < u[j]
  BY DEF Names
<1>2. \A j \in 1..Len(g) : \E k \in 1..Len(g) : u[k] = m[u[j]]
  BY DEF Names
<1>3. \A j, k \in 1..Len(g) : u[k] = m[u[j]] /\ j < k => u[j] < m[u[j]]
  BY <1>1
<1>4. \A i \in 1..Len(f) : i < m[i] => IsStart(f[i]) /\ IsEnd(f[m[i]]) /\ Mates(f[i], f[m[i]])
  <2>1. \A i \in 1..Len(f) : (IsStart(f[i]) <=> i < m[i]) /\ (i < m[i] => Mates(f[i], f[m[i]]))
    BY DEF Pairs
  <2> QED BY <2>1, MatesFacts
<1>5. \A j, k \in 1..Len(g) : u[k] = m[u[j]] /\ j < k =>
        (IsStart(g[j]) <=> IsEnd(g[k])) /\ (IsStart(g[j]) => Mates(g[j], g[k]))
  BY <1>1, <1>3, <1>4
<1> QED BY <1>1, <1>2, <1>5 DEF Embeds

\* If every wrapper's tag is picked, it is still above the start marker.
LEMMA NamesLinked ==
  ASSUME NEW f \in Seq(AllLines), NEW S \in SUBSET (1..Len(f)), NEW g \in Seq(AllLines), NEW u, Names(u, g, f, S),
         Linked(f), \A k \in 1..Len(f) : f[k].kind = "outer" => k \in S
  PROVE  /\ LinksKept(u, f, g)
         /\ f[1].kind # "start" => (Len(g) # 0 => g[1].kind # "start")
<1>1. /\ \A j \in 1..Len(g) : g[j] = f[u[j]] /\ u[j] \in 1..Len(f) /\ u[j] \in Nat
      /\ \A i, j \in 1..Len(g) : i < j => u[i] < u[j]
      /\ \A k \in S : \E j \in 1..Len(g) : u[j] = k
      /\ \A j \in 1..Len(g) : j \in Nat
  <2>1. \A k \in S : k \in 1..Len(f) /\ k \in Nat
    OBVIOUS
  <2>2. \A j \in 1..Len(g) : u[j] \in S
    BY DEF Names
  <2>3. \A j \in 1..Len(g) : j \in Nat
    OBVIOUS
  <2> QED BY <2>1, <2>2, <2>3 DEF Names
<1>2. ASSUME NEW j \in 1..Len(g), g[j].kind = "start", u[j] # 1
      PROVE  \E i \in 1..Len(g) : u[i] = u[j] - 1 /\ i = j - 1
  <2> DEFINE k == u[j] - 1
  <2>1. u[j] \in 2..Len(f) /\ k \in 1..Len(f) /\ f[u[j]].kind = "start"
    BY <1>1, <1>2
  <2>2. f[k].kind = "outer"
    BY <2>1 DEF Linked
  <2>3. PICK i \in 1..Len(g) : u[i] = k
    BY <1>1, <2>1, <2>2
  <2>4. i < j
    <3>1. ~(j < i) /\ ~(i = j)
      BY <1>1, <2>1, <2>3
    <3> QED BY <1>1, <3>1
  <2>5. ~(i < j - 1)
    <3>1. ASSUME i < j - 1 PROVE FALSE
      <4> DEFINE h == j - 1
      <4>1. h \in 1..Len(g) /\ i < h /\ h < j
        BY <1>1, <2>4, <3>1
      <4> HIDE DEF h
      <4>2. u[i] < u[h] /\ u[h] < u[j] /\ u[h] \in Nat /\ u[j] \in Nat /\ u[i] = u[j] - 1
        BY <1>1, <2>3, <4>1
      <4> QED BY <4>2
    <3> QED BY <3>1
  <2>6. i = j - 1
    BY <1>1, <2>4, <2>5
  <2> QED BY <2>3, <2>6
<1>3. LinksKept(u, f, g)
  <2>1. SUFFICES ASSUME NEW j \in 2..Len(g), g[j].kind = "start"
                 PROVE f[u[j]].kind = "start" /\ u[j - 1] = u[j] - 1 /\ (f[u[j - 1]].kind = "outer" => g[j - 1].kind = "outer")
    BY DEF LinksKept
  <2>2. j \in 1..Len(g) /\ 1 \in 1..Len(g) /\ 1 < j
    OBVIOUS
  <2>3. u[j] # 1
    BY <1>1, <2>2
  <2>4. PICK i \in 1..Len(g) : u[i] = u[j] - 1 /\ i = j - 1
    BY <1>2, <2>1, <2>2, <2>3
  <2> QED BY <1>1, <2>1, <2>2, <2>4
<1>4. ASSUME f[1].kind # "start", Len(g) # 0 PROVE g[1].kind # "start"
  <2>1. 1 \in 1..Len(g)
    BY <1>4
  <2>2. CASE u[1] = 1
    BY <1>1, <1>4, <2>1, <2>2
  <2>3. CASE u[1] # 1 /\ g[1].kind = "start"
    <3>1. PICK i \in 1..Len(g) : i = 1 - 1
      BY <1>2, <2>1, <2>3
    <3> QED BY <1>1, <3>1
  <2> QED BY <2>2, <2>3
<1> QED BY <1>3, <1>4

\* Picking lines with their partners leaves a piece; in JSX no wrapper's tag
\* may go, as its start marker would be left alone.
LEMMA PiecePicked ==
  ASSUME NEW f, NEW T, NEW linked, Piece(f, T, linked), NEW m, Pairs(f, m),
         NEW S \in SUBSET (1..Len(f)), \A k \in S : m[k] \in S,
         linked => \A k \in 1..Len(f) : f[k].kind = "outer" => k \in S
  PROVE  Piece(Picked(f, S), T, linked)
<1> DEFINE g == Picked(f, S)
<1>1. f \in Seq(AllLines) /\ Len(f) \in Nat /\ \A k \in 1..Len(f) : f[k].kind = "start" => f[k].by \in T
  BY DEF Piece
<1>2. g \in Seq(AllLines) /\ \E u : Names(u, g, f, S)
  BY <1>1, PickedNames
<1> HIDE DEF g
<1>3. PICK u : Names(u, g, f, S)
  BY <1>2
<1>4. Embeds(u, f, m, g)
  BY <1>1, <1>2, <1>3, NamesEmbed
<1>5. \A j \in 1..Len(g) : g[j] = f[u[j]] /\ u[j] \in 1..Len(f)
  BY <1>3 DEF Names
<1>6. \A j \in 1..Len(g) : g[j].kind = "start" => g[j].by \in T
  BY <1>1, <1>5
<1>7. ASSUME linked
      PROVE  Linked(f) /\ LinksKept(u, f, g) /\ (Len(g) # 0 => g[1].kind # "start")
  <2>1. Linked(f) /\ (Len(f) # 0 => f[1].kind # "start")
    BY <1>7 DEF Piece
  <2>2. LinksKept(u, f, g) /\ (f[1].kind # "start" => (Len(g) # 0 => g[1].kind # "start"))
    BY <1>1, <1>2, <1>3, <1>7, <2>1, NamesLinked
  <2>3. Len(g) # 0 => Len(f) # 0
    <3>1. ASSUME Len(g) # 0 PROVE Len(f) # 0
      <4>1. 1 \in 1..Len(g)
        BY <1>2, <3>1
      <4> QED BY <1>1, <1>5, <4>1
    <3> QED BY <3>1
  <2> QED BY <2>1, <2>2, <2>3
<1>8. Piece(f, T, FALSE)
  BY DEF Piece
<1>9. Piece(g, T, linked)
  BY <1>2, <1>4, <1>6, <1>7, <1>8, PieceEmbedded
<1> QED BY <1>9 DEF g

\* The sessions that start on lines a to b.
Starters(f, a, b) == {f[k].by : k \in {i \in a..b : f[i].kind = "start"}}

\* A line's place in a spliced file: above, in or below the new lines.
LEMMA SplicedPlace ==
  ASSUME NEW f \in Seq(AllLines), NEW a \in 1..Len(f), NEW b \in a..Len(f), NEW ls \in Seq(AllLines),
         NEW g \in Seq(AllLines), Splices(g, f, a, b, ls)
  PROVE  /\ \A j \in 1..Len(g) : j < a => j \in 1..Len(f) /\ g[j] = f[j]
         /\ \A j \in 1..Len(g) : a <= j /\ j <= a - 1 + Len(ls) => j - (a - 1) \in 1..Len(ls) /\ g[j] = ls[j - (a - 1)]
         /\ \A j \in 1..Len(g) : a - 1 + Len(ls) < j =>
               j - (a - 1) - Len(ls) + b \in (b + 1)..Len(f) /\ g[j] = f[j - (a - 1) - Len(ls) + b]
<1>1. /\ Len(f) \in Nat /\ Len(ls) \in Nat /\ Len(g) \in Nat /\ a \in Nat /\ b \in Nat
      /\ 1 <= a /\ a <= b /\ b <= Len(f)
  OBVIOUS
<1>2. /\ Len(g) = a - 1 + Len(ls) + (Len(f) - b)
      /\ \A j \in 1..(a - 1) : g[j] = f[j]
      /\ \A j \in 1..Len(ls) : g[a - 1 + j] = ls[j]
      /\ \A j \in 1..(Len(f) - b) : g[a - 1 + Len(ls) + j] = f[b + j]
  BY DEF Splices
<1>3. ASSUME NEW j \in 1..Len(g), j < a PROVE j \in 1..Len(f) /\ g[j] = f[j]
  <2>1. j \in 1..(a - 1) /\ j \in 1..Len(f)
    BY <1>1, <1>3
  <2> QED BY <1>2, <2>1
<1>4. ASSUME NEW j \in 1..Len(g), a <= j /\ j <= a - 1 + Len(ls)
      PROVE  j - (a - 1) \in 1..Len(ls) /\ g[j] = ls[j - (a - 1)]
  <2> DEFINE i == j - (a - 1)
  <2>1. i \in 1..Len(ls) /\ a - 1 + i = j
    BY <1>1, <1>4
  <2> HIDE DEF i
  <2>2. g[j] = ls[i]
    BY <1>2, <2>1
  <2> QED BY <2>1, <2>2 DEF i
<1>5. ASSUME NEW j \in 1..Len(g), a - 1 + Len(ls) < j
      PROVE  j - (a - 1) - Len(ls) + b \in (b + 1)..Len(f) /\ g[j] = f[j - (a - 1) - Len(ls) + b]
  <2> DEFINE i == j - (a - 1) - Len(ls)
  <2>1. i \in 1..(Len(f) - b) /\ a - 1 + Len(ls) + i = j /\ b + i = j - (a - 1) - Len(ls) + b /\ b + i \in (b + 1)..Len(f)
    BY <1>1, <1>2, <1>5
  <2> HIDE DEF i
  <2>2. g[j] = f[b + i]
    BY <1>2, <2>1
  <2> QED BY <2>1, <2>2
<1> QED BY <1>3, <1>4, <1>5

\* A splice leaves linked lines linked if it ends at no wrapper's tag.
LEMMA LinkedSpliced ==
  ASSUME NEW f \in Seq(AllLines), NEW a \in 1..Len(f), NEW b \in a..Len(f), NEW ls \in Seq(AllLines),
         NEW g \in Seq(AllLines), Splices(g, f, a, b, ls),
         Linked(f), f[1].kind # "start", f[b].kind # "outer",
         Linked(ls), Len(ls) # 0 => ls[1].kind # "start"
  PROVE  Linked(g) /\ (Len(g) # 0 => g[1].kind # "start")
<1>1. /\ Len(f) \in Nat /\ Len(ls) \in Nat /\ Len(g) \in Nat /\ a \in Nat /\ b \in Nat
      /\ 1 <= a /\ a <= b /\ b <= Len(f)
  OBVIOUS
<1> DEFINE off(j) == j - (a - 1)
           down(j) == j - (a - 1) - Len(ls) + b
<1>2. /\ \A j \in 1..Len(g) : j < a => j \in 1..Len(f) /\ g[j] = f[j]
      /\ \A j \in 1..Len(g) : a <= j /\ j <= a - 1 + Len(ls) => off(j) \in 1..Len(ls) /\ g[j] = ls[off(j)]
      /\ \A j \in 1..Len(g) : a - 1 + Len(ls) < j => down(j) \in (b + 1)..Len(f) /\ g[j] = f[down(j)]
  BY SplicedPlace
<1>3. \A j \in 1..Len(g) : j < a => g[j] = f[j]
  BY <1>2
<1>4. \A k \in 2..Len(f) : f[k].kind = "start" => f[k - 1].kind = "outer"
  BY DEF Linked
<1>5. \A k \in 2..Len(ls) : ls[k].kind = "start" => ls[k - 1].kind = "outer"
  BY DEF Linked
<1>6. ASSUME NEW j \in 1..Len(g), g[j].kind = "start"
      PROVE  j > 1 /\ g[j - 1].kind = "outer"
  <2> DEFINE h == j - 1
  <2>1. CASE j < a
    <3>1. j \in 1..Len(f) /\ f[j].kind = "start"
      BY <1>2, <1>6, <2>1
    <3>2. j # 1
      BY <3>1
    <3>3. j \in 2..Len(f) /\ h \in 1..Len(g) /\ h < a
      BY <1>1, <2>1, <3>1, <3>2
    <3>4. f[h].kind = "outer"
      BY <1>4, <3>1, <3>3
    <3> HIDE DEF h
    <3>5. g[h].kind = "outer"
      BY <1>3, <3>3, <3>4
    <3> QED BY <3>3, <3>5 DEF h
  <2>2. CASE a <= j /\ j <= a - 1 + Len(ls)
    <3> DEFINE i == off(j)
    <3>1. i \in 1..Len(ls) /\ ls[i].kind = "start"
      BY <1>2, <1>6, <2>2
    <3>2. i # 1
      BY <1>1, <3>1
    <3>3. i \in 2..Len(ls) /\ h \in 1..Len(g) /\ a <= h /\ h <= a - 1 + Len(ls) /\ off(h) = i - 1 /\ j > 1
      BY <1>1, <2>2, <3>1, <3>2
    <3>4. g[h] = ls[off(h)]
      <4> HIDE DEF h, i, off, down
      <4> QED BY <1>2, <3>3
    <3> HIDE DEF i, off
    <3>5. ls[i - 1].kind = "outer"
      BY <1>5, <3>1, <3>3
    <3> QED BY <3>3, <3>4, <3>5 DEF h
  <2>3. CASE a - 1 + Len(ls) < j
    <3> DEFINE i == down(j)
    <3>1. i \in (b + 1)..Len(f) /\ f[i].kind = "start"
      BY <1>2, <1>6, <2>3
    <3>2. i \in 2..Len(f) /\ i - 1 \in b..Len(f)
      <4> HIDE DEF i
      <4> QED BY <1>1, <3>1
    <3>3. f[i - 1].kind = "outer"
      <4> HIDE DEF i
      <4> QED BY <1>4, <3>1, <3>2
    <3>4. i - 1 # b
      <4> HIDE DEF i
      <4> QED BY <3>3
    <3>5. h \in 1..Len(g) /\ a - 1 + Len(ls) < h /\ down(h) = i - 1 /\ j > 1
      <4>1. i = j - (a - 1) - Len(ls) + b /\ down(h) = h - (a - 1) - Len(ls) + b /\ h = j - 1
        OBVIOUS
      <4>2. i \in Int /\ i >= b + 1
        BY <1>1, <3>1, <4>1
      <4> HIDE DEF h, i, down
      <4>3. i >= b + 2
        BY <1>1, <3>4, <4>2
      <4> QED BY <1>1, <2>3, <4>1, <4>3
    <3>6. g[h] = f[down(h)]
      <4> HIDE DEF h, i, off, down
      <4> QED BY <1>2, <3>5
    <3> HIDE DEF i, off, down
    <3> QED BY <3>3, <3>5, <3>6 DEF h
  <2>4. j \in Nat /\ (j < a \/ (a <= j /\ j <= a - 1 + Len(ls)) \/ a - 1 + Len(ls) < j)
    BY <1>1
  <2> QED BY <2>1, <2>2, <2>3, <2>4
<1> HIDE DEF off, down
<1>7. \A k \in 2..Len(g) : k \in 1..Len(g)
  OBVIOUS
<1>8. Len(g) # 0 => 1 \in 1..Len(g)
  BY <1>1
<1>9. ASSUME Len(g) # 0 PROVE g[1].kind # "start"
  BY <1>6, <1>8, <1>9
<1> QED BY <1>6, <1>7, <1>9 DEF Linked

\* A piece may take the place of lines that have all their partners, where no
\* narrow block is cut open, if it starts only sessions that those started or
\* that are new.
LEMMA PieceSpliced ==
  ASSUME NEW f, NEW T, NEW linked, Piece(f, T, linked), NEW m, Pairs(f, m),
         NEW a \in 1..Len(f), NEW b \in a..Len(f), Closed(m, a, b),
         NEW ls, NEW V, Piece(ls, Starters(f, a, b) \cup V, linked), \A s \in V : s \notin T,
         Len(ls) # 0 => f[a].kind \notin NarrowKinds
  PROVE  Piece(Spliced(f, <<a, b>>, ls), T \cup V, linked)
<1> DEFINE g == Spliced(f, <<a, b>>, ls)
<1>1. /\ f \in Seq(AllLines) /\ ls \in Seq(AllLines) /\ Len(f) \in Nat /\ a \in Nat /\ b \in Nat /\ Len(ls) \in Nat
      /\ \A k \in 1..Len(f) : f[k].kind = "start" => f[k].by \in T
      /\ \A k \in 1..Len(ls) : ls[k].kind = "start" => ls[k].by \in Starters(f, a, b) \cup V
  BY DEF Piece
<1>2. PICK q : Pairs(ls, q)
  BY DEF Piece
<1>3. ASSUME NEW i \in 1..(a - 1), NEW j \in 1..Len(ls), m[i] > b
      PROVE  Allowed(f[i], ls[j])
  <2>1. Len(ls) # 0
    BY <1>1
  <2>2. \A k \in a..b : k \in 1..Len(f) /\ i \in 1..Len(f) /\ i < k /\ (k < m[i])
    <3>1. m[i] \in Nat
      BY <1>1 DEF Pairs
    <3> QED BY <1>1, <1>3, <3>1
  <2>3. \A k \in a..b : Allowed(f[i], f[k])
    BY <2>2 DEF Pairs
  <2>4. Allowed(f[i], f[a]) /\ f[a].kind \notin NarrowKinds
    BY <1>1, <2>1, <2>3
  <2>5. f[i].kind \notin {"style", "tagStart", "carbonStart"}
    BY <2>4 DEF Allowed, NarrowKinds
  <2>6. ASSUME f[i].kind = "start", ls[j].kind = "start" PROVE f[i].by # ls[j].by
    <3>1. f[i].by \in T
      BY <1>1, <2>2, <2>6
    <3>2. CASE ls[j].by \in V
      BY <3>1, <3>2
    <3>3. CASE ls[j].by \in Starters(f, a, b)
      <4>1. PICK k \in a..b : f[k].kind = "start" /\ ls[j].by = f[k].by
        BY <3>3 DEF Starters
      <4> QED BY <2>3, <2>6, <4>1 DEF Allowed
    <3> QED BY <1>1, <2>6, <3>2, <3>3
  <2> QED BY <2>5, <2>6 DEF Allowed
<1>4. \E p : Pairs(g, p)
  <2>1. \A i \in a..b : m[i] \in a..b
    BY DEF Closed
  <2> QED BY <1>1, <1>2, <1>3, <2>1, PairsSpliced
<1>5. g \in Seq(AllLines) /\ Splices(g, f, a, b, ls)
  BY <1>1, SplicedLines
<1> HIDE DEF g
<1>6. \A j \in 1..Len(g) : g[j].kind = "start" => g[j].by \in T \cup V
  <2>1. SUFFICES ASSUME NEW j \in 1..Len(g), g[j].kind = "start" PROVE g[j].by \in T \cup V
    OBVIOUS
  <2>2. \/ j \in 1..Len(f) /\ g[j] = f[j]
        \/ j - (a - 1) \in 1..Len(ls) /\ g[j] = ls[j - (a - 1)]
        \/ j - (a - 1) - Len(ls) + b \in (b + 1)..Len(f) /\ g[j] = f[j - (a - 1) - Len(ls) + b]
    <3>1. j < a \/ (a <= j /\ j <= a - 1 + Len(ls)) \/ a - 1 + Len(ls) < j
      BY <1>1
    <3> QED BY <1>1, <1>5, <3>1, SplicedPlace
  <2>3. CASE \E k \in 1..Len(f) : g[j] = f[k]
    BY <1>1, <2>1, <2>3
  <2>4. CASE \E k \in 1..Len(ls) : g[j] = ls[k]
    <3>1. Starters(f, a, b) \subseteq T
      <4>1. \A k \in a..b : k \in 1..Len(f)
        BY <1>1
      <4> QED BY <1>1, <4>1 DEF Starters
    <3> QED BY <1>1, <2>1, <2>4, <3>1
  <2>5. \A k \in (b + 1)..Len(f) : k \in 1..Len(f)
    BY <1>1
  <2> QED BY <2>2, <2>3, <2>4, <2>5
<1>7. linked => Linked(g) /\ (Len(g) # 0 => g[1].kind # "start")
  <2>1. ASSUME linked PROVE Linked(g) /\ (Len(g) # 0 => g[1].kind # "start")
    <3>1. Linked(f) /\ f[1].kind # "start" /\ Linked(ls) /\ (Len(ls) # 0 => ls[1].kind # "start")
      BY <1>1, <2>1 DEF Piece
    <3>2. f[b].kind # "outer"
      <4>1. b \in a..b /\ b \in 1..Len(f)
        BY <1>1
      <4>2. m[b] \in a..b /\ (IsStart(f[b]) => b < m[b])
        BY <4>1 DEF Closed, Pairs
      <4>3. ~IsStart(f[b])
        BY <1>1, <4>2
      <4> QED BY <4>3 DEF IsStart, StartKinds
    <3> QED BY <1>1, <1>5, <3>1, <3>2, LinkedSpliced
  <2> QED BY <2>1
<1>8. Piece(g, T \cup V, linked)
  BY <1>4, <1>5, <1>6, <1>7 DEF Piece
<1> QED BY <1>8 DEF g

-----------------------------------------------------------------------------
(* Depths *)

\* A line that starts something closes no tag, and so on.
LEMMA LineTags ==
  ASSUME NEW l
  PROVE  /\ IsStart(l) => Closes(l) = "nothing"
         /\ IsEnd(l) => Opens(l) = "nothing"
         /\ ~IsStart(l) /\ ~IsEnd(l) => Opens(l) = Closes(l)
<1>1. IsStart(l) => Closes(l) = "nothing"
  BY DEF IsStart, StartKinds, Closes
<1>2. IsEnd(l) => Opens(l) = "nothing"
  BY DEF IsEnd, EndKinds, Opens
<1>3. ASSUME ~IsStart(l), ~IsEnd(l) PROVE Opens(l) = Closes(l)
  <2>1. l.kind \notin StartKinds /\ l.kind \notin EndKinds
    BY <1>3 DEF IsStart, IsEnd
  <2>2. CASE l.kind = "script"
    BY <2>2 DEF Opens, Closes
  <2>3. CASE l.kind = "policy"
    BY <2>3 DEF Opens, Closes
  <2>4. CASE l.kind # "script" /\ l.kind # "policy"
    BY <2>1, <2>4 DEF Opens, Closes, StartKinds, EndKinds
  <2> QED BY <2>2, <2>3, <2>4
<1> QED BY <1>1, <1>2, <1>3

\* The line that ends a pair closes the tag that the other opens.
LEMMA MatesTags ==
  ASSUME NEW a, NEW b, Mates(a, b)
  PROVE  Closes(b) = Opens(a)
<1>1. CASE a.kind = "open" /\ b.kind = "close" /\ TagOf[a.of] = TagOf[b.of]
  BY <1>1 DEF Opens, Closes
<1>2. CASE a.kind \in {"outer", "variant", "accepted"} /\ b.kind \in {"outerEnd", "variantEnd"}
  BY <1>2 DEF Opens, Closes
<1>3. CASE a.kind = "style" /\ b.kind = "styleEnd"
  BY <1>3 DEF Opens, Closes
<1>4. CASE a.kind \in {"start", "carbonStart", "tagStart"} /\ b.kind \in {"end", "carbonEnd", "tagEnd"}
  BY <1>4 DEF Opens, Closes
<1> QED BY <1>1, <1>2, <1>3, <1>4 DEF Mates

\* Every line closes what its partner opens.
LEMMA PartnersTags ==
  ASSUME NEW f \in Seq(AllLines), NEW m, Pairs(f, m), NEW i \in 1..Len(f)
  PROVE  /\ m[i] \in 1..Len(f) /\ m[m[i]] = i
         /\ Closes(f[i]) = Opens(f[m[i]])
         /\ Closes(f[i]) # "nothing" => m[i] <= i
         /\ Opens(f[i]) # "nothing" => i <= m[i]
<1>1. /\ m[i] \in 1..Len(f) /\ m[m[i]] = i /\ i \in Nat /\ m[i] \in Nat
      /\ (IsStart(f[i]) <=> i < m[i]) /\ (IsEnd(f[i]) <=> m[i] < i)
  BY DEF Pairs
<1>2. CASE i < m[i]
  <2>1. Mates(f[i], f[m[i]])
    BY <1>2 DEF Pairs
  <2>2. IsStart(f[i]) /\ IsEnd(f[m[i]])
    BY <2>1, MatesFacts
  <2> QED BY <1>1, <1>2, <2>2, LineTags
<1>3. CASE m[i] < i
  <2>1. Mates(f[m[i]], f[i])
    BY <1>1, <1>3 DEF Pairs
  <2>2. IsEnd(f[i])
    BY <2>1, MatesFacts
  <2> QED BY <1>1, <1>3, <2>1, <2>2, LineTags, MatesTags
<1>4. CASE m[i] = i
  BY <1>1, <1>4, LineTags
<1> QED BY <1>1, <1>2, <1>3, <1>4

\* What starts on line k and ends on its partner is whole.
LEMMA BlockClosed ==
  ASSUME NEW f \in Seq(AllLines), NEW m, Pairs(f, m), NEW k \in 1..Len(f), k <= m[k]
  PROVE  /\ m[k] \in k..Len(f)
         /\ Closed(m, k, m[k]) /\ (k < m[k] => Closed(m, k + 1, m[k] - 1))
<1>1. k \in Nat /\ m[k] \in Nat /\ m[k] \in 1..Len(f) /\ Len(f) \in Nat /\ m[m[k]] = k
  BY DEF Pairs
<1>2. \A i \in 1..Len(f) : k < i /\ i < m[k] => k < m[i] /\ m[i] < m[k] /\ m[i] \in Nat
  BY DEF Pairs
<1>3. ASSUME NEW i \in k..m[k] PROVE m[i] \in k..m[k]
  <2>1. i \in 1..Len(f) /\ (i = k \/ i = m[k] \/ (k < i /\ i < m[k]))
    BY <1>1
  <2> QED BY <1>1, <1>2, <2>1
<1>4. ASSUME k < m[k], NEW i \in (k + 1)..(m[k] - 1) PROVE m[i] \in (k + 1)..(m[k] - 1)
  <2>1. i \in 1..Len(f) /\ k < i /\ i < m[k]
    BY <1>1
  <2> QED BY <1>1, <1>2, <2>1
<1> QED BY <1>1, <1>3, <1>4 DEF Closed

\* More of O than of C on the lines from k on, until its partner, if the
\* partners of C are those of O.
LEMMA Counted ==
  ASSUME NEW f \in Seq(AllLines), NEW m, Pairs(f, m), NEW k \in 1..Len(f), k <= m[k],
         NEW O \in SUBSET (1..Len(f)), NEW C \in SUBSET (1..Len(f)),
         \A i \in 1..Len(f) : i \in C <=> m[i] \in O, \A i \in C : m[i] <= i, k \in O
  PROVE  /\ \A x \in k..m[k] : Excess(O, C, k, x) \in Int
         /\ \A x \in k..(m[k] - 1) : Excess(O, C, k, x) > 0
         /\ Excess(O, C, k, m[k]) = 0
<1> DEFINE A(x) == {i \in k..x : i \in O}
           B(x) == {i \in k..x : i \in C}
<1>1. /\ k \in Nat /\ m[k] \in Nat /\ m[k] \in k..Len(f) /\ Len(f) \in Nat
      /\ \A i \in 1..Len(f) : m[i] \in 1..Len(f) /\ m[m[i]] = i /\ i \in Nat /\ m[i] \in Nat
  BY DEF Pairs
<1>2. \A x \in k..m[k] : IsFiniteSet(A(x)) /\ Cardinality(A(x)) \in Nat /\ IsFiniteSet(B(x)) /\ Cardinality(B(x)) \in Nat
  <2>1. SUFFICES ASSUME NEW x \in k..m[k]
                 PROVE IsFiniteSet(A(x)) /\ Cardinality(A(x)) \in Nat /\ IsFiniteSet(B(x)) /\ Cardinality(B(x)) \in Nat
    OBVIOUS
  <2>2. IsFiniteSet(k..x)
    BY <1>1, FS_Interval
  <2>3. A(x) \in SUBSET (k..x) /\ B(x) \in SUBSET (k..x)
    OBVIOUS
  <2> HIDE DEF A, B
  <2>4. IsFiniteSet(A(x)) /\ IsFiniteSet(B(x))
    BY <2>2, <2>3, FS_Subset
  <2> QED BY <2>4, FS_CardinalityType
<1>3. \A x, y \in 1..Len(f) : m[x] = m[y] => x = y
  BY <1>1
<1>4. \A x \in k..m[k] : \A i \in k..x : i \in 1..Len(f)
  BY <1>1
<1>5. \A i \in k..m[k] : m[i] \in k..m[k]
  BY <1>1, BlockClosed DEF Closed
<1>6. ASSUME NEW x \in k..(m[k] - 1) PROVE Cardinality(A(x)) - Cardinality(B(x)) > 0
  <2>1. x \in k..m[k] /\ k \in A(x) /\ x < m[k] /\ x \in Nat
    BY <1>1
  <2> DEFINE D == A(x) \ {k}
  <2>2. IsFiniteSet(D) /\ Cardinality(D) = Cardinality(A(x)) - 1
    <3> HIDE DEF A
    <3> QED BY <1>2, <2>1, FS_RemoveElement
  <2>3. \A i \in B(x) : m[i] \in D
    <3>1. SUFFICES ASSUME NEW i \in B(x) PROVE m[i] \in D
      OBVIOUS
    <3>2. i \in k..x /\ i \in C /\ i \in 1..Len(f) /\ i \in Nat /\ m[i] \in Nat
      BY <1>1, <1>4, <2>1
    <3>3. m[i] \in O /\ m[i] <= i /\ m[i] \in k..m[k]
      BY <1>1, <1>5, <2>1, <3>2
    <3>4. m[i] # k
      BY <1>1, <2>1, <3>2
    <3>5. m[i] \in k..x
      BY <1>1, <2>1, <3>2, <3>3
    <3> QED BY <3>3, <3>4, <3>5
  <2>4. \A i, j \in B(x) : m[i] = m[j] => i = j
    BY <1>3, <1>4, <2>1
  <2>5. Cardinality(B(x)) <= Cardinality(D)
    <3> HIDE DEF A, B, D
    <3> QED BY <2>2, <2>3, <2>4, InjectionBound
  <2>6. Cardinality(A(x)) \in Nat /\ Cardinality(B(x)) \in Nat
    BY <1>2, <2>1
  <2> HIDE DEF A, B, D
  <2> QED BY <2>2, <2>5, <2>6
<1>7. Cardinality(A(m[k])) - Cardinality(B(m[k])) = 0
  <2> DEFINE x == m[k]
  <2>1. x \in k..m[k]
    BY <1>1
  <2>2. \A i \in B(x) : m[i] \in A(x)
    BY <1>4, <1>5, <2>1
  <2>3. \A i \in A(x) : m[i] \in B(x)
    BY <1>1, <1>4, <1>5, <2>1
  <2>4. /\ \A i, j \in B(x) : m[i] = m[j] => i = j
        /\ \A i, j \in A(x) : m[i] = m[j] => i = j
    BY <1>3, <1>4, <2>1
  <2>5. /\ Cardinality(A(x)) \in Nat /\ Cardinality(B(x)) \in Nat
        /\ IsFiniteSet(A(x)) /\ IsFiniteSet(B(x))
    BY <1>2, <2>1
  <2> HIDE DEF A, B, x
  <2>6. Cardinality(B(x)) <= Cardinality(A(x))
    BY <2>2, <2>4, <2>5, InjectionBound
  <2>7. Cardinality(A(x)) <= Cardinality(B(x))
    BY <2>3, <2>4, <2>5, InjectionBound
  <2>8. Cardinality(A(x)) - Cardinality(B(x)) = 0
    BY <2>5, <2>6, <2>7
  <2> QED BY <2>8 DEF x
<1>8. \A x \in k..m[k] : Cardinality(A(x)) - Cardinality(B(x)) \in Int
  <2> HIDE DEF A, B
  <2> QED BY <1>2
<1> QED BY <1>6, <1>7, <1>8 DEF Excess

\* Counting one tag from the line that opens it, the count comes to 0 at its
\* partner and not before.
LEMMA BlockDepth ==
  ASSUME NEW f \in Seq(AllLines), NEW m, Pairs(f, m), NEW k \in 1..Len(f), NEW tag, Opens(f[k]) = tag, tag # "nothing"
  PROVE  /\ k <= m[k] /\ m[k] \in k..Len(f)
         /\ \A x \in k..(m[k] - 1) : Depth(f, tag, k, x) \in Int /\ Depth(f, tag, k, x) > 0
         /\ Depth(f, tag, k, m[k]) = 0
<1> DEFINE O == {i \in 1..Len(f) : Opens(f[i]) = tag}
           C == {i \in 1..Len(f) : Closes(f[i]) = tag}
<1>1. k <= m[k] /\ m[k] \in k..Len(f) /\ Len(f) \in Nat /\ k \in Nat /\ m[k] \in Nat
  <2>1. k <= m[k] /\ m[k] \in 1..Len(f)
    BY PartnersTags
  <2> QED BY <2>1
<1>2. ASSUME NEW x \in k..m[k]
      PROVE  Depth(f, tag, k, x) = Excess(O, C, k, x)
  <2>1. DOMAIN f = 1..Len(f) /\ \A i \in k..x : i \in 1..Len(f)
    BY <1>1
  <2>2. Lines(f, k, x, LAMBDA l : Opens(l) = tag) = {i \in k..x : i \in O}
    BY <2>1 DEF Lines
  <2>3. Lines(f, k, x, LAMBDA l : Closes(l) = tag) = {i \in k..x : i \in C}
    BY <2>1 DEF Lines
  <2> QED BY <2>2, <2>3 DEF Depth, Excess
<1>3. /\ \A i \in 1..Len(f) : i \in C <=> m[i] \in O
      /\ \A i \in C : m[i] <= i
      /\ k \in O
  BY PartnersTags
<1>4. O \in SUBSET (1..Len(f)) /\ C \in SUBSET (1..Len(f))
  OBVIOUS
<1> HIDE DEF O, C
<1>5. /\ \A x \in k..m[k] : Excess(O, C, k, x) \in Int
      /\ \A x \in k..(m[k] - 1) : Excess(O, C, k, x) > 0
      /\ Excess(O, C, k, m[k]) = 0
  BY <1>1, <1>3, <1>4, Counted
<1>6. m[k] \in k..m[k] /\ \A x \in k..(m[k] - 1) : x \in k..m[k]
  BY <1>1
<1> QED BY <1>1, <1>2, <1>5, <1>6

\* And so does counting all tags.
LEMMA BlockBalance ==
  ASSUME NEW f \in Seq(AllLines), NEW m, Pairs(f, m), NEW k \in 1..Len(f), Opens(f[k]) # "nothing"
  PROVE  /\ m[k] \in k..Len(f)
         /\ \A x \in k..(m[k] - 1) : Balance(f, k, x) > 0
         /\ Balance(f, k, m[k]) = 0
<1> DEFINE O == {i \in 1..Len(f) : Opens(f[i]) # "nothing"}
           C == {i \in 1..Len(f) : Closes(f[i]) # "nothing"}
<1>1. k <= m[k] /\ m[k] \in k..Len(f) /\ Len(f) \in Nat /\ k \in Nat /\ m[k] \in Nat
  <2>1. k <= m[k] /\ m[k] \in 1..Len(f)
    BY PartnersTags
  <2> QED BY <2>1
<1>2. ASSUME NEW x \in k..m[k]
      PROVE  Balance(f, k, x) = Excess(O, C, k, x)
  <2>1. DOMAIN f = 1..Len(f) /\ \A i \in k..x : i \in 1..Len(f)
    BY <1>1
  <2>2. Lines(f, k, x, LAMBDA l : Opens(l) # "nothing") = {i \in k..x : i \in O}
    BY <2>1 DEF Lines
  <2>3. Lines(f, k, x, LAMBDA l : Closes(l) # "nothing") = {i \in k..x : i \in C}
    BY <2>1 DEF Lines
  <2> QED BY <2>2, <2>3 DEF Balance, Excess
<1>3. /\ \A i \in 1..Len(f) : i \in C <=> m[i] \in O
      /\ \A i \in C : m[i] <= i
      /\ k \in O
  BY PartnersTags
<1>4. O \in SUBSET (1..Len(f)) /\ C \in SUBSET (1..Len(f))
  OBVIOUS
<1> HIDE DEF O, C
<1>5. /\ \A x \in k..m[k] : Excess(O, C, k, x) \in Int
      /\ \A x \in k..(m[k] - 1) : Excess(O, C, k, x) > 0
      /\ Excess(O, C, k, m[k]) = 0
  BY <1>1, <1>3, <1>4, Counted
<1>6. m[k] \in k..m[k] /\ \A x \in k..(m[k] - 1) : x \in k..m[k]
  BY <1>1
<1> QED BY <1>1, <1>2, <1>5, <1>6

\* In a file whose lines are in pairs the tags nest.
LEMMA PairsNest ==
  ASSUME NEW f \in Seq(AllLines), NEW m, Pairs(f, m)
  PROVE  Nests(f)
<1>1. Len(f) \in Nat /\ DOMAIN f = 1..Len(f)
  OBVIOUS
<1>2. ASSUME NEW k \in DOMAIN f, Opens(f[k]) # "nothing"
      PROVE  \E j \in k..Len(f) :
               /\ Closes(f[j]) = Opens(f[k]) /\ Balance(f, k, j) = 0
               /\ \A i \in k..(j - 1) : Balance(f, k, i) > 0
  <2>1. /\ m[k] \in k..Len(f) /\ Balance(f, k, m[k]) = 0
        /\ \A i \in k..(m[k] - 1) : Balance(f, k, i) > 0
    BY <1>1, <1>2, BlockBalance
  <2>2. Closes(f[m[k]]) = Opens(f[k])
    <3>1. m[k] \in 1..Len(f) /\ m[m[k]] = k
      BY <1>1, <1>2, PartnersTags
    <3> QED BY <3>1, PartnersTags
  <2> QED BY <2>1, <2>2
<1>3. Balance(f, 1, Len(f)) = 0
  <2> DEFINE O == {i \in 1..Len(f) : Opens(f[i]) # "nothing"}
             C == {i \in 1..Len(f) : Closes(f[i]) # "nothing"}
  <2>1. Lines(f, 1, Len(f), LAMBDA l : Opens(l) # "nothing") = O
    BY <1>1 DEF Lines
  <2>2. Lines(f, 1, Len(f), LAMBDA l : Closes(l) # "nothing") = C
    BY <1>1 DEF Lines
  <2>3. IsFiniteSet(O) /\ IsFiniteSet(C) /\ Cardinality(O) \in Nat /\ Cardinality(C) \in Nat
    <3>1. IsFiniteSet(1..Len(f))
      BY <1>1, FS_Interval
    <3>2. O \in SUBSET (1..Len(f)) /\ C \in SUBSET (1..Len(f))
      OBVIOUS
    <3> HIDE DEF O, C
    <3>3. IsFiniteSet(O) /\ IsFiniteSet(C)
      BY <3>1, <3>2, FS_Subset
    <3> QED BY <3>3, FS_CardinalityType
  <2>4. /\ \A i \in 1..Len(f) : i \in C => m[i] \in O
        /\ \A i \in 1..Len(f) : i \in O => m[i] \in C
        /\ \A i \in 1..Len(f) : m[i] \in 1..Len(f) /\ m[m[i]] = i
    BY PartnersTags
  <2>5. \A i, j \in 1..Len(f) : m[i] = m[j] => i = j
    BY <2>4
  <2>6. (\A i \in C : i \in 1..Len(f)) /\ (\A i \in O : i \in 1..Len(f))
    OBVIOUS
  <2> HIDE DEF O, C
  <2>7. Cardinality(C) <= Cardinality(O)
    <3>1. (\A i \in C : m[i] \in O) /\ (\A i, j \in C : m[i] = m[j] => i = j)
      BY <2>4, <2>5, <2>6
    <3> QED BY <2>3, <3>1, InjectionBound
  <2>8. Cardinality(O) <= Cardinality(C)
    <3>1. (\A i \in O : m[i] \in C) /\ (\A i, j \in O : m[i] = m[j] => i = j)
      BY <2>4, <2>5, <2>6
    <3> QED BY <2>3, <3>1, InjectionBound
  <2> QED BY <2>1, <2>2, <2>3, <2>7, <2>8 DEF Balance
<1> QED BY <1>2, <1>3 DEF Nests

\* The least place is the first.
LEMMA FirstIs ==
  ASSUME NEW n \in Nat, NEW S \in SUBSET (1..n), NEW x \in S, \A y \in S : x <= y, NEW otherwise
  PROVE  First(S, otherwise) = x
<1> DEFINE k == Min(S)
<1>1. k \in S /\ \A y \in S : k <= y
  BY DEF Min
<1>2. \A y \in S : y \in Nat
  OBVIOUS
<1> HIDE DEF k
<1>3. k = x
  <2>1. k \in Nat /\ x \in Nat /\ k <= x /\ x <= k
    BY <1>1, <1>2
  <2> QED BY <2>1
<1> QED BY <1>3 DEF First, k

\* findClosingLine finds the line that closes a tag.
LEMMA ClosingIsPartner ==
  ASSUME NEW f \in Seq(AllLines), NEW m, Pairs(f, m), NEW k \in 1..Len(f), Opens(f[k]) # "nothing"
  PROVE  ClosingLine(f, k) = m[k]
<1> DEFINE S == {x \in k..Len(f) : Depth(f, Opens(f[k]), k, x) <= 0}
<1>1. /\ m[k] \in k..Len(f) /\ Depth(f, Opens(f[k]), k, m[k]) = 0
      /\ \A x \in k..(m[k] - 1) : ~(Depth(f, Opens(f[k]), k, x) <= 0)
  <2> DEFINE tag == Opens(f[k])
  <2>1. tag = Opens(f[k]) /\ tag # "nothing"
    OBVIOUS
  <2> HIDE DEF tag
  <2>2. /\ m[k] \in k..Len(f) /\ Depth(f, tag, k, m[k]) = 0
        /\ \A x \in k..(m[k] - 1) : Depth(f, tag, k, x) \in Int /\ Depth(f, tag, k, x) > 0
    BY <2>1, BlockDepth
  <2>3. \A x \in k..(m[k] - 1) : ~(Depth(f, tag, k, x) <= 0)
    BY <2>2
  <2> QED BY <2>1, <2>2, <2>3
<1>2. Len(f) \in Nat /\ k \in Nat /\ m[k] \in Nat
  BY <1>1
<1>3. S \in SUBSET (1..Len(f)) /\ m[k] \in S
  BY <1>1, <1>2
<1>4. ASSUME NEW x \in S PROVE m[k] <= x
  <2>1. x \in k..Len(f) /\ Depth(f, Opens(f[k]), k, x) <= 0
    OBVIOUS
  <2>2. ASSUME x < m[k] PROVE FALSE
    <3>1. x \in k..(m[k] - 1)
      BY <1>2, <2>1, <2>2
    <3> QED BY <1>1, <2>1, <3>1
  <2> QED BY <1>2, <2>1, <2>2
<1> HIDE DEF S
<1>5. First(S, Min({k + 50, Len(f)})) = m[k]
  BY <1>2, <1>3, <1>4, FirstIs
<1> QED BY <1>5 DEF ClosingLine, S

-----------------------------------------------------------------------------
(* The author's files *)

\* What the author's lines can start and end.
LEMMA AuthorsLineFacts ==
  ASSUME NEW l \in AuthorsLines
  PROVE  /\ l \in AllLines /\ l.by = None /\ l.n = 0
         /\ l.kind \in {"open", "attribute", "text", "close", "policy", "anchor", "blank"}
         /\ IsStart(l) <=> Opens(l) # "nothing" /\ Closes(l) = "nothing"
         /\ IsEnd(l) <=> Closes(l) # "nothing" /\ Opens(l) = "nothing"
         /\ IsStart(l) <=> l.kind = "open"
         /\ Closes(l) # "nothing" /\ Opens(l) # "nothing" => Closes(l) = "meta" /\ Opens(l) = "meta"
         /\ l.kind = "close" => Closes(l) = TagOf[l.of] /\ l.of \in Elements
         /\ l.kind = "open" => Opens(l) = TagOf[l.of] /\ l.of \in Elements /\ TagOf[l.of] # "meta"
         /\ Closes(l) # "nothing" /\ Closes(l) # "meta" => l.kind = "close"
<1>1. /\ l \in AllLines /\ l.by = None /\ l.n = 0
      /\ l.kind \in {"open", "attribute", "text", "close", "policy", "anchor", "blank"}
      /\ l.kind \in {"open", "close"} => l.of \in Elements
  BY DEF AuthorsLines, IsUsers, IsBlank
<1>2. \A e \in Elements : TagOf[e] # "nothing" /\ TagOf[e] # "meta"
  BY ConstantsAssumption
<1>3. CASE l.kind = "open"
  <2>1. Opens(l) = TagOf[l.of] /\ Closes(l) = "nothing"
    BY <1>3 DEF Opens, Closes
  <2>2. IsStart(l) /\ ~IsEnd(l)
    BY <1>3 DEF IsStart, IsEnd, StartKinds, EndKinds
  <2> QED BY <1>1, <1>2, <1>3, <2>1, <2>2
<1>4. CASE l.kind = "close"
  <2>1. Closes(l) = TagOf[l.of] /\ Opens(l) = "nothing"
    BY <1>4 DEF Opens, Closes
  <2>2. IsEnd(l) /\ ~IsStart(l)
    BY <1>4 DEF IsStart, IsEnd, StartKinds, EndKinds
  <2> QED BY <1>1, <1>2, <1>4, <2>1, <2>2
<1>5. CASE l.kind = "policy"
  <2>1. Closes(l) = "meta" /\ Opens(l) = "meta"
    BY <1>5 DEF Opens, Closes
  <2>2. ~IsEnd(l) /\ ~IsStart(l)
    BY <1>5 DEF IsStart, IsEnd, StartKinds, EndKinds
  <2> QED BY <1>1, <1>5, <2>1, <2>2
<1>6. CASE l.kind \in {"attribute", "text", "anchor", "blank"}
  <2>1. Closes(l) = "nothing" /\ Opens(l) = "nothing"
    BY <1>6 DEF Opens, Closes
  <2>2. ~IsEnd(l) /\ ~IsStart(l)
    BY <1>6 DEF IsStart, IsEnd, StartKinds, EndKinds
  <2> QED BY <1>1, <1>6, <2>1, <2>2
<1> QED BY <1>1, <1>3, <1>4, <1>5, <1>6

\* e maps every place of O to the first one of C after which no more of O than
\* of C have come.
FirstEnds(e, n, O, C) ==
  /\ e \in [O -> C]
  /\ \A k \in O : k <= e[k] /\ Excess(O, C, k, e[k]) = 0
  /\ \A k \in O : \A x \in k..(e[k] - 1) : Excess(O, C, k, x) > 0

\* e is one to one and onto, and what it spans does not cross.
Matching(e, O, C) ==
  /\ \A i, k \in O : e[i] = e[k] => i = k
  /\ \A c \in C : \E k \in O : e[k] = c
  /\ \A i, k \in O : i < k /\ k < e[i] => e[k] < e[i]
  /\ \A i, k \in O : i < e[k] /\ e[k] < e[i] => i < k
  /\ \A k \in O : k \in C => e[k] = k

\* If for every opening the count comes back to 0, and as many open as close,
\* then openings and closings are matched one to one.
LEMMA FirstEndsMatch ==
  ASSUME NEW n \in Nat, NEW O \in SUBSET (1..n), NEW C \in SUBSET (1..n), Excess(O, C, 1, n) = 0,
         NEW e, FirstEnds(e, n, O, C)
  PROVE  Matching(e, O, C)
<1>1. /\ \A k \in O : e[k] \in C /\ k <= e[k] /\ Excess(O, C, k, e[k]) = 0
      /\ \A k \in O : \A x \in k..(e[k] - 1) : Excess(O, C, k, x) > 0
      /\ e \in [O -> C]
  BY DEF FirstEnds
<1>2. \A k \in O : k \in Nat /\ k \in 1..n /\ e[k] \in Nat /\ e[k] \in 1..n
  <2>1. (\A k \in O : k \in 1..n /\ k \in Nat) /\ (\A k \in C : k \in 1..n /\ k \in Nat)
    OBVIOUS
  <2> QED BY <1>1, <2>1
\* Between two openers, up to the end of the first.
<1>3. ASSUME NEW i \in O, NEW k \in O, i < k, NEW x \in k..n, k - 1 <= e[i] - 1
      PROVE  /\ Excess(O, C, i, x) \in Int /\ Excess(O, C, k, x) \in Int
             /\ Excess(O, C, i, x) > Excess(O, C, k, x)
  <2> DEFINE b == k - 1
  <2>1. i \in 1..n /\ b \in i..n /\ x \in b..n /\ b + 1 = k /\ b \in i..(e[i] - 1)
    BY <1>2, <1>3
  <2> HIDE DEF b
  <2>2. /\ Excess(O, C, i, x) \in Int /\ Excess(O, C, i, b) \in Int /\ Excess(O, C, b + 1, x) \in Int
        /\ Excess(O, C, i, x) = Excess(O, C, i, b) + Excess(O, C, b + 1, x)
    BY <2>1, ExcessAdds
  <2>3. Excess(O, C, i, b) > 0
    BY <1>1, <2>1
  <2>4. Excess(O, C, b + 1, x) = Excess(O, C, k, x)
    BY <2>1
  <2> QED BY <2>2, <2>3, <2>4
<1>4. ASSUME NEW i \in O, NEW k \in O, i < k PROVE e[i] # e[k]
  <2>1. ASSUME e[i] = e[k] PROVE FALSE
    <3>1. e[k] \in k..n /\ k - 1 <= e[i] - 1
      BY <1>1, <1>2, <2>1
    <3>2. Excess(O, C, i, e[k]) > Excess(O, C, k, e[k])
      BY <1>3, <1>4, <3>1
    <3>3. Excess(O, C, k, e[k]) = 0 /\ Excess(O, C, i, e[k]) = 0
      BY <1>1, <2>1
    <3> QED BY <3>2, <3>3
  <2> QED BY <2>1
<1>5. \A i, k \in O : e[i] = e[k] => i = k
  <2>1. ASSUME NEW i \in O, NEW k \in O, e[i] = e[k], i # k PROVE FALSE
    <3>1. i < k \/ k < i
      BY <1>2, <2>1
    <3> QED BY <1>4, <2>1, <3>1
  <2> QED BY <2>1
<1>6. \A c \in C : \E k \in O : e[k] = c
  <2>1. IsFiniteSet(O) /\ IsFiniteSet(C) /\ Cardinality(O) \in Nat /\ Cardinality(C) \in Nat
    <3>1. IsFiniteSet(1..n)
      BY FS_Interval
    <3>2. IsFiniteSet(O) /\ IsFiniteSet(C)
      BY <3>1, FS_Subset
    <3> QED BY <3>2, FS_CardinalityType
  <2>2. Cardinality(O) = Cardinality(C)
    <3>1. {i \in 1..n : i \in O} = O /\ {i \in 1..n : i \in C} = C
      OBVIOUS
    <3>2. Cardinality(O) - Cardinality(C) = 0
      BY <3>1 DEF Excess
    <3> QED BY <2>1, <3>2
  <2>3. e \in Injection(O, C)
    BY <1>1, <1>5 DEF Injection, IsInjective
  <2>4. e \in Surjection(O, C)
    BY <2>1, <2>2, <2>3, FS_Injection
  <2> QED BY <2>4 DEF Surjection
<1>7. ASSUME NEW i \in O, NEW k \in O, i < k, k < e[i] PROVE e[k] < e[i]
  <2>1. e[k] # e[i]
    BY <1>4, <1>7
  <2>2. ASSUME e[i] < e[k] PROVE FALSE
    <3>1. e[i] \in k..n /\ k - 1 <= e[i] - 1 /\ e[i] \in k..(e[k] - 1)
      BY <1>2, <1>7, <2>2
    <3>2. /\ Excess(O, C, i, e[i]) \in Int /\ Excess(O, C, k, e[i]) \in Int
          /\ Excess(O, C, i, e[i]) > Excess(O, C, k, e[i])
      BY <1>3, <1>7, <3>1
    <3>3. Excess(O, C, k, e[i]) > 0 /\ Excess(O, C, i, e[i]) = 0
      BY <1>1, <3>1
    <3> QED BY <3>2, <3>3
  <2> QED BY <1>2, <2>1, <2>2
<1>8. ASSUME NEW i \in O, NEW k \in O, i < e[k], e[k] < e[i] PROVE i < k
  <2>1. i # k
    BY <1>2, <1>8
  <2>2. ASSUME k < i PROVE FALSE
    <3>1. e[k] < e[i] /\ e[k] \in i..n /\ i - 1 <= e[k] - 1 /\ e[k] \in i..(e[i] - 1)
      BY <1>2, <1>8, <2>2
    <3>2. /\ Excess(O, C, k, e[k]) \in Int /\ Excess(O, C, i, e[k]) \in Int
          /\ Excess(O, C, k, e[k]) > Excess(O, C, i, e[k])
      BY <1>3, <2>2, <3>1
    <3>3. Excess(O, C, i, e[k]) > 0 /\ Excess(O, C, k, e[k]) = 0
      BY <1>1, <3>1
    <3> QED BY <3>2, <3>3
  <2> QED BY <1>2, <2>1, <2>2
<1>9. ASSUME NEW k \in O, k \in C PROVE e[k] = k
  <2>1. {j \in k..k : j \in O} = {k} /\ {j \in k..k : j \in C} = {k}
    BY <1>2, <1>9
  <2>2. Cardinality({k}) = 1
    BY FS_Singleton
  <2>3. Excess(O, C, k, k) = 0
    <3>1. Excess(O, C, k, k) = Cardinality({k}) - Cardinality({k})
      BY <2>1 DEF Excess
    <3> QED BY <2>2, <3>1
  <2>4. ASSUME k < e[k] PROVE FALSE
    <3>1. k \in k..(e[k] - 1)
      BY <1>2, <2>4
    <3> QED BY <1>1, <2>3, <3>1
  <2> QED BY <1>1, <1>2, <2>4
<1> QED BY <1>5, <1>6, <1>7, <1>8, <1>9 DEF Matching

\* In a file of the author's whose tags nest the lines are in pairs.
LEMMA NestsPairs ==
  ASSUME NEW f \in Seq(AuthorsLines), Nests(f)
  PROVE  f \in Seq(AllLines) /\ \E m : Pairs(f, m)
<1> DEFINE N == 1..Len(f)
           O == {i \in N : Opens(f[i]) # "nothing"}
           C == {i \in N : Closes(f[i]) # "nothing"}
           Ends(k, j) == /\ j \in k..Len(f) /\ Closes(f[j]) = Opens(f[k]) /\ Balance(f, k, j) = 0
                         /\ \A i \in k..(j - 1) : Balance(f, k, i) > 0
           e == [k \in O |-> CHOOSE j : Ends(k, j)]
           m == [i \in N |-> IF i \in O THEN e[i] ELSE IF i \in C THEN CHOOSE k \in O : e[k] = i ELSE i]
<1>1. /\ Len(f) \in Nat /\ DOMAIN f = N /\ \A i \in N : f[i] \in AuthorsLines /\ i \in Nat
      /\ f \in Seq(AllLines)
  <2>1. AuthorsLines \subseteq AllLines
    BY DEF AuthorsLines
  <2> QED BY <2>1
<1>2. /\ Balance(f, 1, Len(f)) = Excess(O, C, 1, Len(f))
      /\ \A k \in N, j \in N : Balance(f, k, j) = Excess(O, C, k, j)
  <2>1. ASSUME NEW a \in Nat, NEW b \in Nat, a >= 1, b <= Len(f)
        PROVE  Balance(f, a, b) = Excess(O, C, a, b)
    <3>1. \A i \in a..b : i \in N
      BY <1>1, <2>1
    <3>2. Lines(f, a, b, LAMBDA l : Opens(l) # "nothing") = {i \in a..b : i \in O}
      BY <1>1, <3>1 DEF Lines
    <3>3. Lines(f, a, b, LAMBDA l : Closes(l) # "nothing") = {i \in a..b : i \in C}
      BY <1>1, <3>1 DEF Lines
    <3> QED BY <3>2, <3>3 DEF Balance, Excess
  <2>2. \A k \in N : k \in Nat /\ k >= 1 /\ k <= Len(f)
    BY <1>1
  <2>3. 1 \in Nat /\ 1 >= 1 /\ Len(f) <= Len(f)
    BY <1>1
  <2> HIDE DEF O, C
  <2> QED BY <1>1, <2>1, <2>2, <2>3
<1>3. \A k \in O : \E j : Ends(k, j)
  BY <1>1 DEF Nests
<1>4. \A k \in O : Ends(k, e[k])
  <2> HIDE DEF Ends
  <2> QED BY <1>3
<1>5. \A k \in O : e[k] \in C /\ e[k] \in N /\ k <= e[k] /\ k \in N
  <2>1. \A k \in O : e[k] \in k..Len(f) /\ Closes(f[e[k]]) = Opens(f[k]) /\ k \in N
    BY <1>4
  <2>2. \A k \in O : e[k] \in N /\ k <= e[k]
    <3> HIDE DEF e, O
    <3> QED BY <1>1, <2>1
  <2> HIDE DEF e
  <2> QED BY <2>1, <2>2
<1>6. FirstEnds(e, Len(f), O, C)
  <2>1. e \in [O -> C]
    <3>1. e = [k \in O |-> e[k]]
      OBVIOUS
    <3> HIDE DEF e
    <3> QED BY <1>5, <3>1
  <2>2. \A k \in O : Excess(O, C, k, e[k]) = 0
    <3>1. \A k \in O : Balance(f, k, e[k]) = 0
      BY <1>4
    <3> HIDE DEF e, O, C
    <3> QED BY <1>2, <1>5, <3>1
  <2>3. \A k \in O : \A x \in k..(e[k] - 1) : Excess(O, C, k, x) > 0
    <3>1. \A k \in O : \A x \in k..(e[k] - 1) : Balance(f, k, x) > 0
      BY <1>4
    <3>2. \A k \in O : \A x \in k..(e[k] - 1) : x \in N
      <4> HIDE DEF e, O, C
      <4> QED BY <1>1, <1>5
    <3> HIDE DEF e, O, C
    <3> QED BY <1>2, <1>5, <3>1, <3>2
  <2> HIDE DEF e, O, C
  <2> QED BY <1>5, <2>1, <2>2, <2>3 DEF FirstEnds
<1>7. O \in SUBSET (1..Len(f)) /\ C \in SUBSET (1..Len(f)) /\ Excess(O, C, 1, Len(f)) = 0
  <2>1. Balance(f, 1, Len(f)) = 0
    BY DEF Nests
  <2> QED BY <1>2, <2>1
<1>8. /\ \A i, k \in O : e[i] = e[k] => i = k
      /\ \A c \in C : \E k \in O : e[k] = c
      /\ \A i, k \in O : i < k /\ k < e[i] => e[k] < e[i]
      /\ \A i, k \in O : i < e[k] /\ e[k] < e[i] => i < k
      /\ \A k \in O : k \in C => e[k] = k
  <2> HIDE DEF e, O, C
  <2>1. Matching(e, O, C)
    BY <1>1, <1>6, <1>7, FirstEndsMatch
  <2> QED BY <2>1 DEF Matching
<1>9. /\ \A i \in N : i \in O => m[i] = e[i]
      /\ \A i \in N : i \in C /\ i \notin O => m[i] \in O /\ e[m[i]] = i
      /\ \A i \in N : i \notin C /\ i \notin O => m[i] = i
  <2>1. \A c \in C : (CHOOSE k \in O : e[k] = c) \in O /\ e[CHOOSE k \in O : e[k] = c] = c
    <3> HIDE DEF e, O, C
    <3> QED BY <1>8
  <2> HIDE DEF e, O, C
  <2> QED BY <2>1
<1>10. m = [i \in N |-> m[i]]
  OBVIOUS
<1>11. \A i \in N : /\ IsStart(f[i]) <=> (i \in O /\ i \notin C)
                    /\ IsEnd(f[i]) <=> (i \in C /\ i \notin O)
  BY <1>1, AuthorsLineFacts
<1>12. \A k \in O : Closes(f[e[k]]) = Opens(f[k])
  BY <1>4
<1> HIDE DEF e, O, C, m, N, Ends
<1>13. m \in [N -> N]
  <2>1. \A i \in N : m[i] \in N
    BY <1>5, <1>9
  <2> QED BY <1>10, <2>1
<1>14. \A i \in N : m[m[i]] = i
  <2>1. SUFFICES ASSUME NEW i \in N PROVE m[m[i]] = i
    OBVIOUS
  <2>2. CASE i \in O
    <3>1. m[i] = e[i] /\ e[i] \in C /\ e[i] \in N
      BY <1>5, <1>9, <2>2
    <3>2. CASE e[i] \in O
      BY <1>8, <1>9, <2>2, <3>1, <3>2
    <3>3. CASE e[i] \notin O
      <4>1. m[e[i]] \in O /\ e[m[e[i]]] = e[i]
        BY <1>9, <3>1, <3>3
      <4> QED BY <1>8, <2>2, <3>1, <4>1
    <3> QED BY <3>2, <3>3
  <2>3. CASE i \in C /\ i \notin O
    <3>1. m[i] \in O /\ e[m[i]] = i /\ m[i] \in N
      BY <1>9, <1>13, <2>3
    <3> QED BY <1>9, <3>1
  <2>4. CASE i \notin C /\ i \notin O
    BY <1>9, <2>4
  <2> QED BY <2>2, <2>3, <2>4
<1>15. \A i \in N : (IsStart(f[i]) <=> i < m[i]) /\ (IsEnd(f[i]) <=> m[i] < i)
  <2>1. SUFFICES ASSUME NEW i \in N PROVE (IsStart(f[i]) <=> i < m[i]) /\ (IsEnd(f[i]) <=> m[i] < i)
    OBVIOUS
  <2>2. i \in Nat /\ m[i] \in Nat
    <3>1. m[i] \in N
      BY <1>13
    <3> QED BY <1>1, <3>1
  <2>3. CASE i \in O /\ i \notin C
    <3>1. m[i] = e[i] /\ e[i] \in C /\ i <= e[i]
      BY <1>5, <1>9, <2>3
    <3>2. m[i] # i
      BY <2>3, <3>1
    <3> QED BY <1>11, <2>2, <2>3, <3>1, <3>2
  <2>4. CASE i \in O /\ i \in C
    <3>1. m[i] = i
      BY <1>8, <1>9, <2>4
    <3> QED BY <1>11, <2>2, <2>4, <3>1
  <2>5. CASE i \in C /\ i \notin O
    <3>1. m[i] \in O /\ e[m[i]] = i /\ m[i] <= i
      <4>1. m[i] \in O /\ e[m[i]] = i
        BY <1>9, <2>5
      <4> QED BY <1>5, <4>1
    <3>2. m[i] # i
      BY <2>5, <3>1
    <3> QED BY <1>11, <2>2, <2>5, <3>1, <3>2
  <2>6. CASE i \notin O /\ i \notin C
    BY <1>9, <1>11, <2>2, <2>6
  <2> QED BY <2>3, <2>4, <2>5, <2>6
<1>16. \A i \in N : i < m[i] => i \in O /\ i \notin C /\ m[i] = e[i] /\ f[i].kind = "open"
  <2>1. \A i \in N : i < m[i] => IsStart(f[i])
    BY <1>15
  <2>2. \A i \in N : IsStart(f[i]) => f[i].kind = "open"
    BY <1>1, AuthorsLineFacts
  <2> QED BY <1>9, <1>11, <2>1, <2>2
<1>17. ASSUME NEW i \in N, i < m[i] PROVE Mates(f[i], f[m[i]])
  <2> DEFINE a == f[i]
             b == f[e[i]]
  <2>1. i \in O /\ e[i] \in N /\ a \in AuthorsLines /\ b \in AuthorsLines /\ a.kind = "open" /\ m[i] = e[i]
    BY <1>1, <1>5, <1>16, <1>17
  <2>2. Closes(b) = Opens(a) /\ Opens(a) # "nothing"
    BY <1>12, <2>1 DEF O
  <2> HIDE DEF a, b
  <2>3. /\ a.by = None /\ a.n = 0 /\ b.by = None /\ b.n = 0
        /\ Opens(a) = TagOf[a.of] /\ a.of \in Elements /\ Opens(a) # "meta"
    BY <2>1, AuthorsLineFacts
  <2>4. b.kind = "close" /\ Closes(b) = TagOf[b.of] /\ b.of \in Elements
    BY <2>1, <2>2, <2>3, AuthorsLineFacts
  <2>5. a.of # None /\ b.of # None
    BY <2>3, <2>4, ConstantsAssumption
  <2>6. TagOf[a.of] = TagOf[b.of]
    BY <2>2, <2>3, <2>4
  <2>7. Mates(a, b)
    BY <2>1, <2>3, <2>4, <2>5, <2>6 DEF Mates
  <2> QED BY <2>1, <2>7 DEF a, b
<1>18. ASSUME NEW i \in N, NEW j \in N, i < j, j < m[i]
       PROVE  i < m[j] /\ m[j] < m[i] /\ Allowed(f[i], f[j])
  <2>1. i \in Nat /\ j \in Nat /\ m[i] \in Nat /\ m[j] \in Nat
    <3>1. m[i] \in N /\ m[j] \in N
      BY <1>13
    <3> QED BY <1>1, <3>1
  <2>2. i < m[i]
    BY <1>18, <2>1
  <2>3. i \in O /\ m[i] = e[i] /\ f[i].kind = "open"
    BY <1>16, <2>2
  <2>4. Allowed(f[i], f[j])
    BY <2>3 DEF Allowed
  <2>5. CASE j \in O
    <3>1. m[j] = e[j] /\ j <= e[j] /\ e[j] < e[i]
      BY <1>5, <1>8, <1>9, <1>18, <2>3, <2>5
    <3> QED BY <1>18, <2>1, <2>3, <2>4, <3>1
  <2>6. CASE j \in C /\ j \notin O
    <3>1. m[j] \in O /\ e[m[j]] = j /\ m[j] <= j
      <4>1. m[j] \in O /\ e[m[j]] = j
        BY <1>9, <2>6
      <4> QED BY <1>5, <4>1
    <3>2. i < m[j]
      BY <1>8, <1>18, <2>3, <3>1
    <3> QED BY <1>18, <2>1, <2>4, <3>1, <3>2
  <2>7. CASE j \notin C /\ j \notin O
    BY <1>9, <1>18, <2>4, <2>7
  <2> QED BY <2>5, <2>6, <2>7
<1>19. Pairs(f, m)
  BY <1>13, <1>14, <1>15, <1>17, <1>18 DEF Pairs, N
<1> QED BY <1>1, <1>19

\* The author's files, whose tags nest, are pieces.
LEMMA PieceAuthors ==
  ASSUME NEW f \in Seq(AuthorsLines), Nests(f), NEW T, NEW linked
  PROVE  Piece(f, T, linked)
<1>1. f \in Seq(AllLines) /\ \E m : Pairs(f, m)
  BY NestsPairs
<1>2. \A k \in 1..Len(f) : f[k].kind # "start"
  <2>1. \A k \in 1..Len(f) : f[k] \in AuthorsLines
    OBVIOUS
  <2> QED BY <2>1, AuthorsLineFacts
<1>3. \A k \in 2..Len(f) : k \in 1..Len(f)
  BY <1>1
<1>4. Len(f) # 0 => 1 \in 1..Len(f)
  BY <1>1
<1> QED BY <1>1, <1>2, <1>3, <1>4 DEF Piece, Linked

-----------------------------------------------------------------------------
(* Wrappers *)

\* Lines that differ in indentation, or in what no pair is about, are alike.
LEMMA AlikeSame ==
  ASSUME NEW f, NEW g, Len(g) = Len(f),
         \A k \in 1..Len(f) : /\ g[k].kind = f[k].kind
                              /\ IsStart(f[k]) \/ IsEnd(f[k]) =>
                                   g[k].of = f[k].of /\ g[k].by = f[k].by /\ g[k].n = f[k].n
  PROVE  Alike(f, g)
<1>1. \A k \in 1..Len(f) : f[k].kind = "start" => g[k].by = f[k].by
  BY DEF IsStart, StartKinds
<1>2. ASSUME NEW j \in 1..Len(f), NEW k \in 1..Len(f), Mates(f[j], f[k])
      PROVE  Mates(g[j], g[k])
  <2>1. IsStart(f[j]) /\ IsEnd(f[k])
    BY <1>2, MatesFacts
  <2>2. /\ g[j].kind = f[j].kind /\ g[j].of = f[j].of /\ g[j].by = f[j].by /\ g[j].n = f[j].n
        /\ g[k].kind = f[k].kind /\ g[k].of = f[k].of /\ g[k].by = f[k].by /\ g[k].n = f[k].n
    BY <2>1
  <2> QED BY <1>2, <2>2 DEF Mates
<1> QED BY <1>1, <1>2 DEF Alike

\* A line's indentation is a number.
LEMMA LineIn == \A l \in AllLines : l.in \in Nat
BY DEF AllLines

\* No line is less indented than the base, the blank ones left out.
LEMMA BaseBelow ==
  ASSUME NEW ls \in Seq(AllLines)
  PROVE  \A k \in 1..Len(ls) : ~IsBlank(ls[k]) => Base(ls) \in Nat /\ Base(ls) <= ls[k].in
<1>1. SUFFICES ASSUME NEW k \in 1..Len(ls), ~IsBlank(ls[k])
               PROVE Base(ls) \in Nat /\ Base(ls) <= ls[k].in
  OBVIOUS
<1> DEFINE used == {i \in DOMAIN ls : ~IsBlank(ls[i])}
           S == {ls[i].in : i \in used}
           x == Min(S)
<1>2. k \in used /\ \A i \in 1..Len(ls) : ls[i].in \in Nat
  <2>1. \A i \in 1..Len(ls) : ls[i] \in AllLines
    OBVIOUS
  <2> QED BY <1>1, <2>1, LineIn
<1>3. Base(ls) = x
  BY <1>2 DEF Base
<1>4. S \in SUBSET Nat /\ ls[k].in \in S
  BY <1>2
<1> HIDE DEF S
<1>5. x \in S /\ \A y \in S : x <= y
  <2>1. \E i \in S : \A y \in S : i <= y
    BY <1>4, LeastPlace
  <2> QED BY <2>1 DEF Min
<1> QED BY <1>3, <1>4, <1>5

\* Reindenting changes only the indentation.
LEMMA ReindentedLines ==
  ASSUME NEW ls \in Seq(AllLines), NEW to \in Nat
  PROVE  Reindented(ls, to) \in Seq(AllLines) /\ Alike(ls, Reindented(ls, to))
<1> DEFINE g == Reindented(ls, to)
           line(k) == IF IsBlank(ls[k]) THEN Blank ELSE [ls[k] EXCEPT !.in = to + (@ - Base(ls))]
<1>1. g = [k \in 1..Len(ls) |-> line(k)] /\ Len(ls) \in Nat
  BY DEF Reindented
<1>2. ASSUME NEW k \in 1..Len(ls)
      PROVE  /\ line(k) \in AllLines /\ line(k).kind = ls[k].kind
             /\ ~IsBlank(ls[k]) => line(k).of = ls[k].of /\ line(k).by = ls[k].by /\ line(k).n = ls[k].n
  <2>1. CASE IsBlank(ls[k])
    BY <2>1, BlankLine DEF IsBlank
  <2>2. CASE ~IsBlank(ls[k])
    <3> DEFINE x == to + (ls[k].in - Base(ls))
    <3>1. ls[k] \in AllLines /\ x \in Nat
      <4>1. ls[k] \in AllLines /\ ls[k].in \in Nat
        BY LineIn
      <4>2. Base(ls) \in Nat /\ Base(ls) <= ls[k].in
        BY <2>2, BaseBelow
      <4> QED BY <4>1, <4>2
    <3>2. line(k) = [ls[k] EXCEPT !.in = x]
      BY <2>2
    <3> HIDE DEF x, line
    <3> QED BY <3>1, <3>2 DEF AllLines
  <2> QED BY <2>1, <2>2
<1> HIDE DEF line
<1>3. g \in Seq(AllLines) /\ Len(g) = Len(ls) /\ \A k \in 1..Len(ls) : g[k] = line(k)
  BY <1>1, <1>2
<1> HIDE DEF g
<1>4. \A k \in 1..Len(ls) : IsStart(ls[k]) \/ IsEnd(ls[k]) => ~IsBlank(ls[k])
  BY DEF IsStart, IsEnd, IsBlank, StartKinds, EndKinds
<1>5. \A k \in 1..Len(ls) : /\ g[k].kind = ls[k].kind
                            /\ IsStart(ls[k]) \/ IsEnd(ls[k]) =>
                                 g[k].of = ls[k].of /\ g[k].by = ls[k].by /\ g[k].n = ls[k].n
  BY <1>2, <1>3, <1>4
<1>6. Alike(ls, g)
  BY <1>3, <1>5, AlikeSame
<1> QED BY <1>3, <1>6 DEF g

\* A reindented piece is a piece.
LEMMA PieceReindented ==
  ASSUME NEW ls, NEW T, NEW linked, Piece(ls, T, linked), NEW to \in Nat
  PROVE  Piece(Reindented(ls, to), T, linked)
<1>1. ls \in Seq(AllLines)
  BY DEF Piece
<1> QED BY <1>1, ReindentedLines, PieceAlike

\* The lines the scripts write are lines.
LEMMA MarkLine ==
  ASSUME NEW kind \in Kinds, NEW by \in Sessions \cup {None}, NEW n \in (0..Variants) \cup Ports \cup {None}, NEW in \in Nat
  PROVE  /\ Line(kind, None, by, n, in) \in AllLines /\ Line(kind, None, by, n, in).kind = kind
         /\ Line(kind, None, by, n, in).by = by /\ Line(kind, None, by, n, in).of = None
         /\ Line(kind, None, by, n, in).n = n
BY DEF Line, AllLines

\* One line that starts and ends nothing is a piece.
LEMMA PieceLine ==
  ASSUME NEW l \in AllLines, ~IsStart(l), ~IsEnd(l), NEW T, NEW linked
  PROVE  Piece(<<l>>, T, linked)
<1> DEFINE f == <<l>>
<1>1. f \in Seq(AllLines) /\ \A k \in 1..Len(f) : f[k] = l
  OBVIOUS
<1> HIDE DEF f
<1>2. \A k \in 1..Len(f) : ~IsStart(f[k]) /\ ~IsEnd(f[k])
  BY <1>1
<1>3. Piece(f, T, linked)
  BY <1>1, <1>2, PieceAlone
<1> QED BY <1>3 DEF f

\* A piece between two lines that start and end nothing.
LEMMA PieceBetween ==
  ASSUME NEW w, NEW T, NEW linked, Piece(w, T, linked),
         NEW x \in AllLines, ~IsStart(x), ~IsEnd(x), NEW y \in AllLines, ~IsStart(y), ~IsEnd(y)
  PROVE  Piece(Enclosed(x, w, y), T, linked)
<1>1. Piece(<<x>>, T, linked) /\ Piece(<<y>>, T, linked)
  BY PieceLine
<1>2. Piece(<<x>> \o w, T, linked)
  BY <1>1, PieceConcat
<1>3. Piece((<<x>> \o w) \o <<y>>, T, linked)
  BY <1>1, <1>2, PieceConcat
<1> QED BY <1>3 DEF Enclosed

\* Linked lines stay so in an enclosure.
LEMMA LinkedEnclosed ==
  ASSUME NEW w \in Seq(AllLines), Linked(w), NEW x \in AllLines, NEW y \in AllLines, y.kind # "start",
         Len(w) # 0 => w[1].kind # "start" \/ x.kind = "outer"
  PROVE  Linked(Enclosed(x, w, y))
<1> DEFINE e == Enclosed(x, w, y)
<1>1. /\ e \in Seq(AllLines) /\ Len(e) = Len(w) + 2 /\ e[1] = x /\ e[Len(w) + 2] = y
      /\ \A j \in 1..Len(w) : e[1 + j] = w[j]
  <2>1. e \in Seq(AllLines) /\ Encloses(e, x, w, y)
    BY EnclosedLines
  <2> HIDE DEF e
  <2> QED BY <2>1 DEF Encloses
<1> HIDE DEF e
<1>2. Len(w) \in Nat
  OBVIOUS
<1>3. ASSUME NEW k \in 2..Len(e), e[k].kind = "start" PROVE e[k - 1].kind = "outer"
  <2> DEFINE j == k - 1
  <2>1. j \in 1..Len(w) /\ k = 1 + j
    <3>1. k # Len(w) + 2
      BY <1>1, <1>3
    <3> QED BY <1>1, <1>2, <3>1
  <2> HIDE DEF j
  <2>2. w[j].kind = "start"
    BY <1>1, <1>3, <2>1
  <2>3. CASE j = 1
    <3>1. Len(w) # 0 /\ w[1].kind = "start" /\ k - 1 = 1
      BY <1>2, <2>1, <2>2, <2>3
    <3> QED BY <1>1, <3>1
  <2>4. CASE j # 1
    <3> DEFINE i == j - 1
    <3>1. j \in 2..Len(w) /\ i \in 1..Len(w) /\ 1 + i = k - 1
      BY <1>2, <2>1, <2>4
    <3>2. w[i].kind = "outer"
      BY <2>2, <3>1 DEF Linked
    <3> HIDE DEF i
    <3>3. e[1 + i] = w[i]
      BY <1>1, <3>1
    <3> QED BY <3>1, <3>2, <3>3
  <2> QED BY <2>3, <2>4
<1>4. Linked(e)
  BY <1>3 DEF Linked
<1> QED BY <1>4 DEF e

\* A wrapper around a piece is a piece, with the wrapper's session.
LEMMA PieceWrapper ==
  ASSUME NEW original, NEW U, NEW jsx \in BOOLEAN, Piece(original, U, jsx), NEW s \in Sessions, s \notin U, NEW in \in Nat
  PROVE  Piece(Wrapper(s, original, in, jsx), U \cup {s}, jsx)
<1> DEFINE marked(ls, at) == Enclosed(Mark("start", s, at), ls, Mark("end", s, at))
           outer(ls) == Enclosed(Mark("outer", s, in), ls, Mark("outerEnd", s, in))
           slot == Enclosed(Mark("variant", s, in + 1), Reindented(original, in + 2), Mark("variantEnd", s, in + 1))
           inner == Enclosed(Mark("note", s, in + 1), slot, Mark("insert", s, in + 1))
           T == U \cup {s}
<1>1. Wrapper(s, original, in, jsx) = IF jsx THEN outer(marked(inner, in + 1)) ELSE marked(outer(inner), in)
  BY DEF Wrapper
<1>2. \A kind \in Kinds, at \in Nat :
        /\ Mark(kind, s, at) \in AllLines /\ Mark(kind, s, at).kind = kind
        /\ Mark(kind, s, at).by = s /\ Mark(kind, s, at).of = None
  BY MarkLine, ConstantsAssumption DEF Mark
<1>3. in \in Nat /\ in + 1 \in Nat /\ in + 2 \in Nat
  OBVIOUS
<1>4. \A at \in Nat :
        /\ Mates(Mark("variant", s, at), Mark("variantEnd", s, at))
        /\ Mates(Mark("outer", s, at), Mark("outerEnd", s, at))
        /\ Mates(Mark("start", s, at), Mark("end", s, at))
  <2>1. {"variant", "variantEnd", "outer", "outerEnd", "start", "end"} \subseteq Kinds
    BY DEF Kinds
  <2> QED BY <1>2, <2>1 DEF Mates
<1>5. \A at \in Nat : \A l : Allowed(Mark("variant", s, at), l) /\ Allowed(Mark("outer", s, at), l)
  <2>1. {"variant", "outer"} \subseteq Kinds
    BY DEF Kinds
  <2> QED BY <1>2, <2>1 DEF Allowed
<1>6. \A at \in Nat : /\ Mark("start", s, at) \in AllLines /\ Mark("end", s, at) \in AllLines
                      /\ Mark("outer", s, at) \in AllLines /\ Mark("outerEnd", s, at) \in AllLines
                      /\ Mark("variant", s, at) \in AllLines /\ Mark("variantEnd", s, at) \in AllLines
                      /\ Mark("start", s, at).kind = "start" /\ Mark("start", s, at).by = s
                      /\ Mark("end", s, at).kind # "start"
                      /\ Mark("outer", s, at).kind = "outer" /\ Mark("outerEnd", s, at).kind # "start"
                      /\ Mark("variant", s, at).kind # "start"
  <2>1. {"variant", "variantEnd", "outer", "outerEnd", "start", "end"} \subseteq Kinds
    BY DEF Kinds
  <2> QED BY <1>2, <2>1
<1>7. \A at \in Nat : /\ Mark("note", s, at) \in AllLines /\ Mark("insert", s, at) \in AllLines
                      /\ ~IsStart(Mark("note", s, at)) /\ ~IsEnd(Mark("note", s, at))
                      /\ ~IsStart(Mark("insert", s, at)) /\ ~IsEnd(Mark("insert", s, at))
  <2>1. {"note", "insert"} \subseteq Kinds
    BY DEF Kinds
  <2> QED BY <1>2, <2>1 DEF IsStart, IsEnd, StartKinds, EndKinds
<1>8. Piece(slot, U, jsx)
  <2>1. Piece(Reindented(original, in + 2), U, jsx)
    BY <1>3, PieceReindented
  <2> QED BY <1>3, <1>4, <1>5, <1>6, <2>1, PieceEnclosed
<1> HIDE DEF slot
<1>9. Piece(inner, U, jsx)
  BY <1>3, <1>7, <1>8, PieceBetween
<1> HIDE DEF inner
<1>10. Piece(inner, T, jsx) /\ Piece(inner, T, FALSE)
  BY <1>9, PieceMore
<1>11. \A j \in 1..Len(inner), at \in Nat : Allowed(Mark("start", s, at), inner[j])
  <2>1. \A j \in 1..Len(inner) : inner[j].kind = "start" => inner[j].by # s
    BY <1>9 DEF Piece
  <2> QED BY <1>6, <2>1 DEF Allowed
<1>12. CASE ~jsx
  <2>1. Piece(outer(inner), T, FALSE)
    <3> HIDE DEF T
    <3> QED BY <1>3, <1>4, <1>5, <1>6, <1>10, PieceEnclosed
  <2>2. \A j \in 1..Len(outer(inner)) : Allowed(Mark("start", s, in), outer(inner)[j])
    <3>1. Piece(outer(inner), U, FALSE)
      <4>1. Piece(inner, U, FALSE)
        BY <1>9, PieceMore
      <4> QED BY <1>3, <1>4, <1>5, <1>6, <4>1, PieceEnclosed
    <3> DEFINE o == outer(inner)
    <3> HIDE DEF o
    <3>2. \A j \in 1..Len(o) : o[j].kind = "start" => o[j].by # s
      BY <3>1 DEF Piece, o
    <3>3. \A j \in 1..Len(o) : Allowed(Mark("start", s, in), o[j])
      BY <1>3, <1>6, <3>2 DEF Allowed
    <3> QED BY <3>3 DEF o
  <2> HIDE DEF outer
  <2>3. s \in T
    OBVIOUS
  <2> HIDE DEF T
  <2>4. Piece(marked(outer(inner), in), T, FALSE)
    BY <1>3, <1>4, <1>6, <2>1, <2>2, <2>3, PieceEnclosed
  <2> QED BY <1>1, <1>12, <2>4 DEF outer, T
<1>13. CASE jsx
  <2> DEFINE w == marked(inner, in + 1)
  <2>1. s \in T
    OBVIOUS
  <2> HIDE DEF T
  <2>2. Piece(w, T, FALSE)
    BY <1>3, <1>4, <1>6, <1>10, <1>11, <2>1, PieceEnclosed
  <2>3. Linked(w)
    <3>1. inner \in Seq(AllLines) /\ Linked(inner) /\ (Len(inner) # 0 => inner[1].kind # "start")
      BY <1>9, <1>13 DEF Piece
    <3> QED BY <1>3, <1>6, <3>1, LinkedEnclosed
  <2> HIDE DEF w
  <2>4. w \in Seq(AllLines)
    BY <2>2 DEF Piece
  <2> DEFINE e == outer(w)
  <2>5. Piece(e, T, FALSE)
    BY <1>3, <1>4, <1>5, <1>6, <2>2, PieceEnclosed
  <2>6. Linked(e)
    BY <1>3, <1>6, <2>3, <2>4, LinkedEnclosed
  <2>7. e[1].kind # "start"
    <3>1. Encloses(e, Mark("outer", s, in), w, Mark("outerEnd", s, in))
      BY <1>3, <1>6, <2>4, EnclosedLines
    <3> HIDE DEF e
    <3> QED BY <1>3, <1>6, <3>1 DEF Encloses
  <2>8. Wrapper(s, original, in, jsx) = e
    BY <1>1, <1>13 DEF w
  <2> HIDE DEF e
  <2>9. Piece(e, T, jsx)
    BY <2>5, <2>6, <2>7 DEF Piece
  <2> QED BY <2>8, <2>9 DEF T
<1> QED BY <1>12, <1>13

\* What live-wrap picks is no style, no script and no policy.
LEMMA BigTag ==
  ASSUME NEW l, Opens(l) \notin {"nothing", "script", "style", "meta"}
  PROVE  IsStart(l) /\ l.kind \notin NarrowKinds /\ l.kind # "start"
<1>1. l.kind \in {"open", "outer", "variant", "accepted"}
  BY DEF Opens
<1> QED BY <1>1 DEF IsStart, StartKinds, NarrowKinds

\* A file with a tag wrapped is a piece.
LEMMA PieceWrapped ==
  ASSUME NEW f, NEW T, NEW jsx \in BOOLEAN, Piece(f, T, jsx), NEW s \in Sessions, s \notin T,
         NEW k \in 1..Len(f), Opens(f[k]) \notin {"nothing", "script", "style", "meta"}
  PROVE  Piece(Spliced(f, <<k, ClosingLine(f, k)>>,
                 Wrapper(s, SubSeq(f, k, ClosingLine(f, k)), f[k].in, jsx)), T \cup {s}, jsx)
<1>1. f \in Seq(AllLines) /\ Piece(f, T, FALSE) /\ (jsx => Linked(f))
      /\ \A i \in 1..Len(f) : f[i].kind = "start" => f[i].by \in T
  BY DEF Piece
<1>2. PICK m : Pairs(f, m)
  BY DEF Piece
<1> DEFINE c == ClosingLine(f, k)
           original == SubSeq(f, k, c)
           U == Starters(f, k, c)
<1>3. f[k].kind \notin NarrowKinds /\ f[k].kind # "start" /\ Opens(f[k]) # "nothing" /\ f[k].in \in Nat
  <2>1. f[k] \in AllLines
    BY <1>1
  <2> QED BY <2>1, BigTag, LineIn
<1>4. c = m[k]
  BY <1>1, <1>2, <1>3, ClosingIsPartner
<1> HIDE DEF c
<1>5. k <= c /\ c \in k..Len(f) /\ Closed(m, k, c)
  <2>1. k <= m[k]
    BY <1>1, <1>2, <1>3, PartnersTags
  <2> QED BY <1>1, <1>2, <1>4, <2>1, BlockClosed
<1>6. Len(f) \in Nat /\ k \in 1..(Len(f) + 1) /\ c \in (k - 1)..Len(f)
  BY <1>1, <1>5
<1>7. Piece(original, U, jsx)
  <2>1. \A i \in k..c : f[i].kind = "start" => f[i].by \in U
    BY DEF Starters
  <2> HIDE DEF U
  <2> QED BY <1>1, <1>2, <1>3, <1>5, <1>6, <2>1, PieceSub
<1>8. s \notin U
  <2>1. \A i \in k..c : i \in 1..Len(f)
    BY <1>5, <1>6
  <2> QED BY <1>1, <2>1 DEF Starters
<1> DEFINE w == Wrapper(s, original, f[k].in, jsx)
<1>9. Piece(w, U \cup {s}, jsx)
  <2> HIDE DEF original, U
  <2> QED BY <1>3, <1>7, <1>8, PieceWrapper
<1> HIDE DEF w
<1>10. Piece(Spliced(f, <<k, c>>, w), T \cup {s}, jsx)
  <2>1. \A x \in {s} : x \notin T
    OBVIOUS
  <2> DEFINE V == {s}
  <2>2. Piece(w, Starters(f, k, c) \cup V, jsx) /\ \A x \in V : x \notin T
    BY <1>9, <2>1
  <2> HIDE DEF V
  <2>3. Piece(Spliced(f, <<k, c>>, w), T \cup V, jsx)
    BY <1>1, <1>2, <1>3, <1>5, <2>2, PieceSpliced
  <2> QED BY <2>3 DEF V
<1> QED BY <1>10 DEF w, c

\* The line that the tag of an element is looked for at.
LEMMA OpenerFound ==
  ASSUME NEW f \in Seq(AllLines), NEW c \in 1..Len(f), NEW tag, OpenerLine(f, c, tag) # 0
  PROVE  OpenerLine(f, c, tag) \in 1..Len(f) /\ Opens(f[OpenerLine(f, c, tag)]) = tag
<1> DEFINE above == Lines(f, c - 10, c - 1, LAMBDA l : Opens(l) # "nothing")
           at == IF Opens(f[c]) # "nothing" THEN c ELSE IF above = {} THEN 0 ELSE Max(above)
<1>1. OpenerLine(f, c, tag) = IF at # 0 /\ Opens(f[at]) = tag THEN at ELSE 0
  BY DEF OpenerLine
<1>2. at # 0 /\ Opens(f[at]) = tag /\ OpenerLine(f, c, tag) = at
  <2> HIDE DEF at
  <2> QED BY <1>1
<1>3. at \in 1..Len(f)
  <2>1. above \in SUBSET (1..Len(f)) /\ Len(f) \in Nat
    <3>1. DOMAIN f = 1..Len(f)
      OBVIOUS
    <3> QED BY <3>1 DEF Lines
  <2> HIDE DEF above
  <2>2. above # {} => Max(above) \in above
    BY <2>1, MinMaxFacts
  <2> QED BY <1>2, <2>1, <2>2
<1> HIDE DEF at
<1> QED BY <1>2, <1>3

-----------------------------------------------------------------------------
(* Blocks *)

\* A session's markers are partners.
LEMMA MarkedBlock ==
  ASSUME NEW f \in Seq(AllLines), NEW m, Pairs(f, m), NEW s, NEW r \in MarkerBlock(f, s)
  PROVE  /\ r = <<r[1], r[2]>> /\ r[1] \in 1..Len(f) /\ m[r[1]] = r[2] /\ r[1] < r[2]
         /\ f[r[1]].kind = "start" /\ f[r[1]].by = s
<1> DEFINE starts == {k \in 1..Len(f) : f[k].kind = "start" /\ f[k].by = s}
           ends == {k \in 1..Len(f) : f[k].kind = "end" /\ f[k].by = s}
           a == r[1]
           b == r[2]
<1>1. Lines(f, 1, Len(f), LAMBDA l : l.kind = "start" /\ l.by = s) = starts
  <2>1. DOMAIN f = 1..Len(f)
    OBVIOUS
  <2> QED BY <2>1 DEF Lines
<1>2. Lines(f, 1, Len(f), LAMBDA l : l.kind = "end" /\ l.by = s) = ends
  <2>1. DOMAIN f = 1..Len(f)
    OBVIOUS
  <2> QED BY <2>1 DEF Lines
<1>3. r \in starts \X ends /\ a < b /\ (\A c \in ends : b <= c)
  BY <1>1, <1>2 DEF MarkerBlock
<1>4. r = <<a, b>> /\ a \in starts /\ b \in ends
  BY <1>3
<1> HIDE DEF a, b
<1>5. /\ a \in 1..Len(f) /\ b \in 1..Len(f) /\ a \in Nat /\ b \in Nat /\ Len(f) \in Nat
      /\ f[a].kind = "start" /\ f[a].by = s /\ f[b].kind = "end" /\ f[b].by = s
  BY <1>4
<1>6. IsStart(f[a]) /\ IsEnd(f[b])
  BY <1>5 DEF IsStart, IsEnd, StartKinds, EndKinds
<1>7. /\ m[a] \in 1..Len(f) /\ m[b] \in 1..Len(f) /\ m[a] \in Nat /\ m[b] \in Nat /\ m[m[b]] = b
      /\ a < m[a] /\ m[b] < b
  <2>1. m[a] \in 1..Len(f) /\ m[b] \in 1..Len(f) /\ m[m[b]] = b /\ a < m[a] /\ m[b] < b
    BY <1>5, <1>6 DEF Pairs
  <2> QED BY <2>1
<1>8. b <= m[a]
  <2>1. Mates(f[a], f[m[a]])
    BY <1>5, <1>7 DEF Pairs
  <2>2. f[m[a]].kind = "end" /\ f[m[a]].by = s
    BY <1>5, <2>1 DEF Mates
  <2>3. m[a] \in ends
    BY <1>7, <2>2
  <2> HIDE DEF starts, ends
  <2> QED BY <1>3, <2>3
<1>9. ASSUME b < m[a] PROVE FALSE
  <2>1. a < m[b] /\ m[b] < m[a]
    BY <1>3, <1>5, <1>9 DEF Pairs, a, b
  <2>2. Allowed(f[a], f[m[b]])
    BY <1>5, <1>7, <2>1 DEF Pairs
  <2>3. Mates(f[m[b]], f[b])
    BY <1>7 DEF Pairs
  <2>4. f[m[b]].kind = "start" /\ f[m[b]].by = s
    BY <1>5, <2>3 DEF Mates
  <2> QED BY <1>5, <2>2, <2>4 DEF Allowed
<1>10. m[a] = b
  BY <1>5, <1>7, <1>8, <1>9
<1> QED BY <1>3, <1>4, <1>5, <1>10 DEF a, b

\* What is replaced is a tag or the markers, with all that is inside.
LEMMA ReplacedRange ==
  ASSUME NEW f \in Seq(AllLines), NEW m, Pairs(f, m), NEW s, NEW block \in MarkerBlock(f, s),
         NEW jsx \in BOOLEAN, jsx => Linked(f) /\ f[1].kind # "start"
  PROVE  \E a \in 1..Len(f) : /\ ReplaceRange(f, block, jsx) = <<a, m[a]>>
                              /\ a <= block[1] /\ block[2] <= m[a] /\ a < m[a]
                              /\ f[a].kind \in {"start", "outer"}
<1> DEFINE b == block[1]
<1>1. /\ block = <<b, m[b]>> /\ b \in 1..Len(f) /\ b \in Nat /\ m[b] \in Nat /\ m[b] \in 1..Len(f)
      /\ b < m[b] /\ f[b].kind = "start" /\ block[2] = m[b] /\ Len(f) \in Nat
  <2>1. block = <<b, block[2]>> /\ b \in 1..Len(f) /\ m[b] = block[2] /\ b < block[2] /\ f[b].kind = "start"
    BY MarkedBlock
  <2>2. m[b] \in 1..Len(f)
    BY <2>1 DEF Pairs
  <2> QED BY <2>1, <2>2
<1> HIDE DEF b
<1>2. CASE ~jsx
  <2>1. ReplaceRange(f, block, jsx) = <<b, m[b]>>
    BY <1>1, <1>2 DEF ReplaceRange
  <2> QED BY <1>1, <2>1 DEF b
<1>3. CASE jsx
  <2> DEFINE a == b - 1
             above == Lines(f, block[1] - 12, block[1] - 1, LAMBDA l : l.kind = "outer")
             S == {x \in block[2]..Len(f) : Depth(f, "div", a, x) <= 0}
  <2>1. b # 1
    BY <1>1, <1>3
  <2>2. b \in 2..Len(f) /\ a \in 1..Len(f) /\ a \in Nat /\ a < b
    BY <1>1, <2>1
  <2>3. f[a].kind = "outer"
    BY <1>1, <1>3, <2>2 DEF Linked
  <2>4. Max(above) = a /\ above # {}
    <3>1. above = {x \in (b - 12)..(b - 1) : x \in 1..Len(f) /\ f[x].kind = "outer"}
      <4>1. DOMAIN f = 1..Len(f)
        OBVIOUS
      <4> QED BY <4>1 DEF Lines, b
    <3>2. a \in above /\ \A x \in above : a >= x /\ x \in Nat
      BY <1>1, <2>2, <2>3, <3>1
    <3> HIDE DEF above, a
    <3> DEFINE k == Max(above)
    <3>3. k \in above /\ \A x \in above : k >= x
      BY <3>2 DEF Max
    <3> HIDE DEF k
    <3>4. k = a
      <4>1. k \in Nat /\ a \in Nat /\ k >= a /\ a >= k
        BY <2>2, <3>2, <3>3
      <4> QED BY <4>1
    <3> QED BY <3>2, <3>4 DEF k
  <2>5. IsStart(f[a]) /\ Opens(f[a]) = "div"
    BY <2>3 DEF IsStart, StartKinds, Opens
  <2>6. /\ m[a] \in a..Len(f) /\ Depth(f, "div", a, m[a]) = 0
        /\ \A x \in a..(m[a] - 1) : Depth(f, "div", a, x) \in Int /\ Depth(f, "div", a, x) > 0
    <3>1. "div" # "nothing"
      OBVIOUS
    <3> HIDE DEF a
    <3> QED BY <2>2, <2>5, <3>1, BlockDepth
  <2> HIDE DEF a
  <2>7. a < m[a] /\ m[a] \in Nat
    <3>1. a < m[a]
      BY <2>2, <2>5 DEF Pairs
    <3> QED BY <1>1, <2>2, <2>6, <3>1
  <2>8. m[b] < m[a]
    <3>1. b < m[a]
      <4>1. m[a] # b
        <5>1. m[m[a]] = a
          BY <2>2 DEF Pairs
        <5> QED BY <1>1, <2>2, <5>1
      <4>2. b <= m[a]
        BY <1>1, <2>2, <2>7 DEF a
      <4> QED BY <1>1, <2>7, <4>1, <4>2
    <3> QED BY <1>1, <2>2, <3>1 DEF Pairs
  <2>9. First(S, block[2]) = m[a]
    <3>1. S \in SUBSET (1..Len(f))
      BY <1>1
    <3>2. m[a] \in S
      BY <1>1, <2>6, <2>7, <2>8
    <3>3. ASSUME NEW x \in S PROVE m[a] <= x
      <4>1. x \in block[2]..Len(f) /\ Depth(f, "div", a, x) <= 0
        OBVIOUS
      <4>2. ASSUME x < m[a] PROVE FALSE
        <5>1. x \in a..(m[a] - 1)
          BY <1>1, <2>2, <2>7, <4>1, <4>2
        <5>2. ~(Depth(f, "div", a, x) <= 0)
          BY <2>6, <5>1
        <5> QED BY <4>1, <5>2
      <4> QED BY <1>1, <2>7, <4>1, <4>2
    <3> HIDE DEF S
    <3> QED BY <1>1, <3>1, <3>2, <3>3, FirstIs
  <2>10. ReplaceRange(f, block, jsx) = <<a, First(S, block[2])>>
    BY <1>3, <2>4 DEF ReplaceRange
  <2>11. ReplaceRange(f, block, jsx) = <<a, m[a]>>
    BY <2>9, <2>10
  <2>12. a <= block[1]
    BY <1>1, <2>2 DEF b
  <2>13. block[2] <= m[a]
    BY <1>1, <2>7, <2>8
  <2> QED BY <2>2, <2>3, <2>7, <2>11, <2>12, <2>13
<1> QED BY <1>2, <1>3

\* Without its style elements a piece is still one.
LEMMA AllButCss ==
  ASSUME NEW f \in Seq(AllLines), NEW m, Pairs(f, m), NEW k \in 1..Len(f), f[k].kind # "css"
  PROVE  m[k] \in 1..Len(f) /\ f[m[k]].kind # "css"
<1>1. m[k] \in 1..Len(f) /\ m[m[k]] = k /\ k \in Nat /\ m[k] \in Nat
  BY PairsType DEF Pairs
<1>2. ASSUME f[m[k]].kind = "css" PROVE FALSE
  <2>1. ~IsStart(f[m[k]]) /\ ~IsEnd(f[m[k]])
    BY <1>2 DEF IsStart, IsEnd, StartKinds, EndKinds
  <2>2. ~(m[k] < k) /\ ~(k < m[k])
    BY <1>1, <2>1 DEF Pairs
  <2>3. m[k] = k
    BY <1>1, <2>2
  <2> QED BY <1>2, <2>3
<1> QED BY <1>1, <1>2

NoStyles(g) == [k \in 1..Len(g) |-> IF IsStyle(g[k]) THEN Blank ELSE g[k]]

\* Blanking the style elements leaves the other lines paired.
LEMMA NoStylesEmbeds ==
  ASSUME NEW g \in Seq(AllLines), NEW p, Pairs(g, p)
  PROVE  /\ NoStyles(g) \in Seq(AllLines) /\ Len(NoStyles(g)) = Len(g)
         /\ Embeds([j \in 1..Len(g) |-> j], g, p, NoStyles(g))
         /\ LinksKept([j \in 1..Len(g) |-> j], g, NoStyles(g))
         /\ \A j \in 1..Len(g) : NoStyles(g)[j].kind = "start" => NoStyles(g)[j] = g[j]
<1> DEFINE h == NoStyles(g)
           u == [j \in 1..Len(g) |-> j]
<1>1. Len(g) \in Nat /\ \A j \in 1..Len(g) : g[j] \in AllLines
  OBVIOUS
<1>2. h \in Seq(AllLines) /\ Len(h) = Len(g)
  BY <1>1, BlankLine DEF NoStyles
<1>3. \A j \in 1..Len(g) : u[j] = j /\ j \in 1..Len(h)
  BY <1>2
<1>4. \A j \in 1..Len(g) : (IsStyle(g[j]) => h[j] = Blank) /\ (~IsStyle(g[j]) => h[j] = g[j])
  BY DEF NoStyles
<1>5. u \in [1..Len(h) -> 1..Len(g)]
  BY <1>2
<1> HIDE DEF h, u
<1>6. \A j \in 1..Len(g) : /\ h[j].kind = "start" => h[j] = g[j]
                           /\ IsStart(h[j]) => h[j] = g[j] /\ g[j].kind # "style"
                           /\ IsEnd(h[j]) => h[j] = g[j] /\ g[j].kind # "styleEnd"
                           /\ g[j].kind = "outer" => h[j] = g[j]
                           /\ IsStart(g[j]) /\ g[j].kind # "style" => h[j] = g[j]
                           /\ IsEnd(g[j]) /\ g[j].kind # "styleEnd" => h[j] = g[j]
  BY <1>4, BlankLine DEF IsStyle, IsStart, IsEnd, StartKinds, EndKinds
<1>7. \A j, k \in 1..Len(g) : k = p[j] /\ j < k =>
        (IsStart(h[j]) <=> IsEnd(h[k])) /\ (IsStart(h[j]) => Mates(h[j], h[k]))
  <2>1. SUFFICES ASSUME NEW j \in 1..Len(g), NEW k \in 1..Len(g), k = p[j], j < k
                 PROVE (IsStart(h[j]) <=> IsEnd(h[k])) /\ (IsStart(h[j]) => Mates(h[j], h[k]))
    OBVIOUS
  <2>2. Mates(g[j], g[k]) /\ IsStart(g[j]) /\ IsEnd(g[k])
    BY <2>1, MatesFacts DEF Pairs
  <2>3. g[j].kind = "style" <=> g[k].kind = "styleEnd"
    BY <2>2 DEF Mates
  <2> QED BY <1>6, <2>2, <2>3
<1>8. \A j, k \in 1..Len(g) : IsStart(h[j]) /\ Allowed(g[j], g[k]) => Allowed(h[j], h[k])
  <2>1. SUFFICES ASSUME NEW j \in 1..Len(g), NEW k \in 1..Len(g), IsStart(h[j]), Allowed(g[j], g[k])
                 PROVE Allowed(h[j], h[k])
    OBVIOUS
  <2>2. h[j] = g[j] /\ g[j].kind # "style"
    BY <1>6, <2>1
  <2>3. CASE h[k] = g[k]
    BY <2>1, <2>2, <2>3
  <2>4. CASE h[k] = Blank /\ IsStyle(g[k])
    BY <2>1, <2>2, <2>4, BlankLine DEF Allowed, IsStyle
  <2> QED BY <1>4, <2>3, <2>4
<1>9. \A j \in 1..Len(g) : p[j] \in 1..Len(g)
  BY DEF Pairs
<1>10. Embeds(u, g, p, h)
  <2>1. \A j \in 1..Len(h) : \E k \in 1..Len(h) : u[k] = p[u[j]]
    BY <1>2, <1>3, <1>9
  <2>2. \A i, j \in 1..Len(h) : i < j => u[i] < u[j]
    BY <1>2, <1>3
  <2>3. \A j \in 1..Len(h) : (IsStart(h[j]) => IsStart(g[u[j]])) /\ (IsEnd(h[j]) => IsEnd(g[u[j]]))
    BY <1>2, <1>3, <1>6
  <2>4. \A j, k \in 1..Len(h) : u[k] = p[u[j]] /\ j < k => (IsStart(h[j]) <=> IsEnd(h[k]))
    BY <1>2, <1>3, <1>7
  <2>5. \A j, k \in 1..Len(h) : u[k] = p[u[j]] /\ j < k /\ IsStart(h[j]) => Mates(h[j], h[k])
    BY <1>2, <1>3, <1>7
  <2>6. \A j, k \in 1..Len(h) : IsStart(h[j]) /\ Allowed(g[u[j]], g[u[k]]) => Allowed(h[j], h[k])
    BY <1>2, <1>3, <1>8
  <2> QED BY <1>5, <2>1, <2>2, <2>3, <2>4, <2>5, <2>6 DEF Embeds
<1>11. LinksKept(u, g, h)
  <2>1. SUFFICES ASSUME NEW j \in 2..Len(h), h[j].kind = "start"
                 PROVE  g[u[j]].kind = "start" /\ u[j - 1] = u[j] - 1 /\ (g[u[j - 1]].kind = "outer" => h[j - 1].kind = "outer")
    BY DEF LinksKept
  <2>2. j \in 1..Len(g) /\ j - 1 \in 1..Len(g)
    BY <1>1, <1>2
  <2>3. u[j] = j /\ u[j - 1] = j - 1
    BY <1>3, <2>2
  <2> QED BY <1>6, <2>1, <2>2, <2>3
<1> QED BY <1>2, <1>6, <1>10, <1>11 DEF h, u

\* So does what live-accept does before it looks for a variant.
LEMMA PieceStripped ==
  ASSUME NEW ls, NEW U, Piece(ls, U, FALSE)
  PROVE  Piece(Stripped(ls), U, FALSE) /\ (Linked(ls) => Linked(Stripped(ls)))
<1> DEFINE S == {k \in DOMAIN ls : ls[k].kind # "css"}
           g == Picked(ls, S)
           h == NoStyles(g)
           id == [j \in 1..Len(g) |-> j]
<1>1. ls \in Seq(AllLines) /\ DOMAIN ls = 1..Len(ls)
  BY DEF Piece
<1>2. PICK m : Pairs(ls, m)
  BY DEF Piece
<1>3. S \in SUBSET (1..Len(ls)) /\ (\A k \in S : m[k] \in S)
  BY <1>1, <1>2, AllButCss
<1>4. \A k \in 1..Len(ls) : ls[k].kind = "outer" => k \in S
  BY <1>1
<1> HIDE DEF S
<1>5. Piece(g, U, FALSE)
  BY <1>1, <1>2, <1>3, PiecePicked
<1>6. g \in Seq(AllLines) /\ \E u : Names(u, g, ls, S)
  BY <1>1, <1>3, PickedNames
<1>7. ASSUME Linked(ls) PROVE Linked(g)
  <2> HIDE DEF g
  <2>1. PICK u : Names(u, g, ls, S)
    BY <1>6
  <2>2. LinksKept(u, ls, g)
    BY <1>1, <1>3, <1>4, <1>6, <1>7, <2>1, NamesLinked
  <2>3. u \in [1..Len(g) -> 1..Len(ls)]
    BY <1>3, <2>1 DEF Names
  <2> QED BY <1>1, <1>6, <1>7, <2>2, <2>3, LinkedEmbedded
<1>8. Stripped(ls) = h
  <2>1. Stripped(ls) = [k \in DOMAIN g |-> IF IsStyle(g[k]) THEN Blank ELSE g[k]]
    BY DEF Stripped, S
  <2>2. DOMAIN g = 1..Len(g)
    BY <1>6
  <2> QED BY <2>1, <2>2 DEF NoStyles
<1> HIDE DEF g
<1>9. PICK p : Pairs(g, p)
  BY <1>5 DEF Piece
<1>10. /\ h \in Seq(AllLines) /\ Len(h) = Len(g) /\ Embeds(id, g, p, h) /\ LinksKept(id, g, h)
       /\ \A j \in 1..Len(g) : h[j].kind = "start" => h[j] = g[j]
  BY <1>6, <1>9, NoStylesEmbeds
<1>11. id \in [1..Len(h) -> 1..Len(g)]
  BY <1>10
<1> HIDE DEF h, id
<1>12. \A j \in 1..Len(h) : h[j].kind = "start" => h[j].by \in U
  BY <1>5, <1>10 DEF Piece
<1>13. Piece(h, U, FALSE)
  BY <1>5, <1>9, <1>10, <1>12, PieceEmbedded
<1>14. Linked(ls) => Linked(h)
  BY <1>6, <1>7, <1>10, <1>11, LinkedEmbedded
<1> QED BY <1>8, <1>13, <1>14

\* What extractInnerByAttr finds is a piece: a tag's partner is where it is closed.
LEMMA PieceInner ==
  ASSUME NEW ls, NEW U, Piece(ls, U, FALSE), NEW linked, linked => Linked(ls), NEW n, NEW v \in Inner(ls, n)
  PROVE  Piece(v, U, linked)
<1> DEFINE L == Lines(ls, 1, Len(ls), LAMBDA l : l.kind \in {"variant", "accepted"} /\ l.n = n)
           k == First(L, 0)
           closing == {x \in (k + 1)..Len(ls) : k # 0 /\ Depth(ls, "div", k, x) = 0}
<1>1. ls \in Seq(AllLines) /\ Len(ls) \in Nat /\ DOMAIN ls = 1..Len(ls)
      /\ \A i \in 1..Len(ls) : ls[i].kind = "start" => ls[i].by \in U
  BY DEF Piece
<1>2. PICK m : Pairs(ls, m)
  BY DEF Piece
<1>3. Inner(ls, n) = IF closing = {} THEN {} ELSE {<<Blank>> \o SubSeq(ls, k + 1, Min(closing) - 1) \o <<Blank>>}
  BY DEF Inner
<1>4. closing # {} /\ v = Enclosed(Blank, SubSeq(ls, k + 1, Min(closing) - 1), Blank)
  BY <1>3 DEF Enclosed
<1>5. L = {i \in 1..Len(ls) : ls[i].kind \in {"variant", "accepted"} /\ ls[i].n = n}
  BY <1>1 DEF Lines
<1>6. L # {} /\ k \in L
  <2>1. k # 0
    BY <1>4
  <2>2. L # {}
    BY <2>1 DEF First
  <2>3. L \in SUBSET (1..Len(ls))
    BY <1>5
  <2> HIDE DEF L
  <2>4. Min(L) \in L
    BY <1>1, <2>2, <2>3, MinMaxFacts
  <2> QED BY <2>2, <2>4 DEF First
<1> HIDE DEF L, k
<1>7. k \in 1..Len(ls) /\ ls[k].kind \in {"variant", "accepted"} /\ k \in Nat /\ k # 0
  BY <1>1, <1>5, <1>6
<1>8. IsStart(ls[k]) /\ Opens(ls[k]) = "div"
  BY <1>7 DEF IsStart, StartKinds, Opens
<1>9. /\ m[k] \in k..Len(ls) /\ Depth(ls, "div", k, m[k]) = 0
      /\ \A x \in k..(m[k] - 1) : Depth(ls, "div", k, x) \in Int /\ Depth(ls, "div", k, x) > 0
  <2>1. "div" # "nothing"
    OBVIOUS
  <2> QED BY <1>1, <1>2, <1>7, <1>8, <2>1, BlockDepth
<1>10. k < m[k] /\ m[k] \in Nat
  <2>1. k < m[k]
    BY <1>2, <1>7, <1>8 DEF Pairs
  <2> QED BY <1>1, <1>7, <1>9, <2>1
<1>11. Min(closing) = m[k]
  <2>1. closing \in SUBSET (1..Len(ls))
    BY <1>1, <1>7
  <2>2. m[k] \in closing
    BY <1>1, <1>7, <1>9, <1>10
  <2>3. ASSUME NEW x \in closing PROVE m[k] <= x
    <3>1. x \in (k + 1)..Len(ls) /\ Depth(ls, "div", k, x) = 0
      OBVIOUS
    <3>2. ASSUME x < m[k] PROVE FALSE
      <4>1. x \in k..(m[k] - 1)
        BY <1>1, <1>7, <1>10, <3>1, <3>2
      <4>2. Depth(ls, "div", k, x) > 0
        BY <1>9, <4>1
      <4> QED BY <3>1, <4>2
    <3> QED BY <1>1, <1>7, <1>10, <3>1, <3>2
  <2> HIDE DEF closing
  <2>4. First(closing, 0) = m[k]
    BY <1>1, <2>1, <2>2, <2>3, FirstIs
  <2> QED BY <1>4, <2>4 DEF First
<1> HIDE DEF closing
<1> DEFINE a == k + 1
           b == m[k] - 1
           w == SubSeq(ls, a, b)
<1>12. a \in 1..(Len(ls) + 1) /\ b \in (a - 1)..Len(ls)
  BY <1>1, <1>7, <1>9, <1>10
<1>13. Closed(m, a, b)
  BY <1>1, <1>2, <1>7, <1>10, BlockClosed
<1>14. linked => Linked(ls) /\ (a <= b => ls[a].kind # "start")
  <2>1. ASSUME linked, a <= b PROVE ls[a].kind # "start"
    <3>1. a \in 2..Len(ls) /\ a - 1 = k
      BY <1>1, <1>7, <1>12, <2>1
    <3> HIDE DEF a, b, w
    <3>2. ls[a].kind = "start" => ls[a - 1].kind = "outer"
      BY <2>1, <3>1 DEF Linked
    <3> QED BY <1>7, <3>1, <3>2
  <2> QED BY <2>1
<1>15. \A i \in a..b : ls[i].kind = "start" => ls[i].by \in U
  <2>1. \A i \in a..b : i \in 1..Len(ls)
    BY <1>1, <1>7, <1>12
  <2> QED BY <1>1, <2>1
<1>16. v = Enclosed(Blank, w, Blank)
  BY <1>4, <1>11
<1> HIDE DEF a, b
<1>17. Piece(w, U, linked)
  BY <1>2, <1>12, <1>13, <1>14, <1>15, PieceSub
<1> HIDE DEF w
<1> QED BY <1>16, <1>17, PieceBetween, BlankLine

\* A line that neither starts nor ends anything is its own partner, and no
\* other line's.
LEMMA OwnPartner ==
  ASSUME NEW f \in Seq(AllLines), NEW m, Pairs(f, m), NEW k \in 1..Len(f), ~IsStart(f[k]), ~IsEnd(f[k])
  PROVE  m[k] = k /\ \A i \in 1..Len(f) : m[i] = k => i = k
<1>1. m[k] \in Nat /\ k \in Nat /\ ~(k < m[k]) /\ ~(m[k] < k)
  BY PairsType DEF Pairs
<1>2. m[k] = k
  BY <1>1
<1> QED BY <1>2 DEF Pairs

\* Blank lines around a piece may be cut off.
LEMMA PieceTrimmed ==
  ASSUME NEW v, NEW U, NEW linked, Piece(v, U, linked)
  PROVE  Piece(Trimmed(v), U, linked)
<1> DEFINE used == {k \in DOMAIN v : ~IsBlank(v[k])}
           a == Min(used)
           b == Max(used)
<1>1. v \in Seq(AllLines) /\ Len(v) \in Nat /\ DOMAIN v = 1..Len(v)
      /\ (\A i \in 1..Len(v) : v[i].kind = "start" => v[i].by \in U)
      /\ (linked => Linked(v) /\ (Len(v) # 0 => v[1].kind # "start"))
  BY DEF Piece
<1>2. PICK m : Pairs(v, m)
  BY DEF Piece
<1>3. used \in SUBSET (1..Len(v)) /\ \A i \in 1..Len(v) : i \notin used => IsBlank(v[i])
  BY <1>1
<1>4. CASE used = {}
  <2>1. Trimmed(v) = <<Blank>>
    BY <1>4 DEF Trimmed
  <2> QED BY <2>1, BlankLine, PieceLine
<1>5. CASE used # {}
  <2>1. Trimmed(v) = SubSeq(v, a, b)
    BY <1>5 DEF Trimmed
  <2> HIDE DEF used
  <2>2. a \in used /\ b \in used /\ \A x \in used : a <= x /\ x <= b
    BY <1>1, <1>3, <1>5, Extremes
  <2> HIDE DEF a, b
  <2>3. a \in 1..Len(v) /\ b \in 1..Len(v) /\ a <= b
    BY <1>3, <2>2
  <2>4. a \in 1..(Len(v) + 1) /\ b \in (a - 1)..Len(v)
    BY <1>1, <2>3
  <2>5. Closed(m, a, b)
    <3>1. SUFFICES ASSUME NEW i \in a..b PROVE m[i] \in a..b
      BY DEF Closed
    <3>2. i \in 1..Len(v) /\ m[i] \in 1..Len(v)
      BY <1>1, <1>2, <2>3, PairsType
    <3>3. ASSUME m[i] \notin a..b PROVE FALSE
      <4>1. m[i] \notin used
        BY <1>1, <2>2, <2>3, <3>2, <3>3
      <4>2. IsBlank(v[m[i]])
        BY <1>3, <3>2, <4>1
      <4>3. ~IsStart(v[m[i]]) /\ ~IsEnd(v[m[i]])
        BY <4>2 DEF IsBlank, IsStart, IsEnd, StartKinds, EndKinds
      <4>4. i = m[i]
        BY <1>1, <1>2, <3>2, <4>3, OwnPartner
      <4> QED BY <3>3, <4>4
    <3> QED BY <3>3
  <2>6. \A i \in a..b : v[i].kind = "start" => v[i].by \in U
    <3>1. \A i \in a..b : i \in 1..Len(v)
      BY <1>1, <2>3
    <3> QED BY <1>1, <3>1
  <2>7. linked => Linked(v) /\ (a <= b => v[a].kind # "start")
    <3>1. ASSUME linked, v[a].kind = "start" PROVE FALSE
      <4>1. a # 1
        BY <1>1, <2>3, <3>1
      <4> DEFINE c == a - 1
      <4>2. a \in 2..Len(v) /\ c \in 1..Len(v) /\ c < a
        BY <1>1, <2>3, <4>1
      <4>3. v[c].kind = "outer"
        BY <1>1, <3>1, <4>2 DEF Linked
      <4> HIDE DEF c
      <4>4. c \in used
        BY <1>3, <4>2, <4>3 DEF IsBlank
      <4> QED BY <1>1, <2>2, <2>3, <4>2, <4>4
    <3> QED BY <1>1, <3>1
  <2>8. Piece(v, U, FALSE)
    BY DEF Piece
  <2>9. Piece(SubSeq(v, a, b), U, linked)
    BY <1>2, <2>4, <2>5, <2>6, <2>7, <2>8, PieceSub
  <2> QED BY <2>1, <2>9
<1> QED BY <1>4, <1>5

\* CSS: a style element has nothing else between its tags.
IsCss(ls) == ls \in Seq(AllLines) /\ \A j \in 1..Len(ls) : ls[j].kind = "css"

\* What live-accept takes for CSS is CSS: the first style element of the
\* session ends at the first end of a style element below it.
LEMMA CssLines ==
  ASSUME NEW f \in Seq(AllLines), NEW m, Pairs(f, m), NEW s, NEW block \in MarkerBlock(f, s)
  PROVE  IsCss(Css(f, block, s))
<1> DEFINE b1 == block[1]
           b2 == block[2]
           L == Lines(f, block[1], block[2], LAMBDA l : l.kind = "style" /\ l.by = s)
           k == First(L, 0)
           E == Lines(f, k, block[2], LAMBDA l : l.kind = "styleEnd")
           x == First(E, block[2] + 1)
<1>1. Css(f, block, s) = IF k = 0 THEN <<>> ELSE SubSeq(f, k + 1, x - 1)
  BY DEF Css
<1>2. b1 \in 1..Len(f) /\ m[b1] = b2 /\ b2 \in 1..Len(f) /\ b1 < b2 /\ f[b1].kind = "start" /\ Len(f) \in Nat
  <2>1. b1 \in 1..Len(f) /\ m[b1] = b2 /\ b1 < b2 /\ f[b1].kind = "start"
    BY MarkedBlock
  <2>2. m[b1] \in 1..Len(f)
    BY <2>1 DEF Pairs
  <2> QED BY <2>1, <2>2
<1>3. DOMAIN f = 1..Len(f)
  OBVIOUS
<1>4. CASE L = {}
  <2>1. k = 0
    BY <1>4 DEF First
  <2>2. Css(f, block, s) = <<>>
    BY <1>1, <2>1
  <2>3. <<>> \in Seq(AllLines) /\ Len(<<>>) = 0
    OBVIOUS
  <2> QED BY <2>2, <2>3 DEF IsCss
<1>5. CASE L # {}
  <2>1. L = {i \in b1..b2 : i \in 1..Len(f) /\ f[i].kind = "style" /\ f[i].by = s}
    BY <1>3 DEF Lines
  <2>2. k \in L
    <3>1. L \in SUBSET (1..Len(f))
      BY <2>1
    <3> HIDE DEF L
    <3>2. Min(L) \in L
      BY <1>2, <1>5, <3>1, Extremes
    <3> QED BY <1>5, <3>2 DEF First
  <2> HIDE DEF L, k
  <2>3. k \in 1..Len(f) /\ f[k].kind = "style" /\ b1 <= k /\ k <= b2 /\ k # 0 /\ k \in Nat
    BY <1>2, <2>1, <2>2
  <2>4. IsStart(f[k])
    BY <2>3 DEF IsStart, StartKinds
  <2>5. k < m[k] /\ m[k] \in 1..Len(f) /\ Mates(f[k], f[m[k]])
    BY <2>3, <2>4 DEF Pairs
  <2>6. f[m[k]].kind = "styleEnd"
    BY <2>3, <2>5 DEF Mates
  <2>7. m[k] < b2
    <3>1. b1 < k
      BY <1>2, <2>3
    <3>2. k # b2
      <4>1. m[b2] = b1
        BY <1>2 DEF Pairs
      <4> QED BY <1>2, <2>3, <2>5, <4>1
    <3> QED BY <1>2, <2>3, <3>1, <3>2 DEF Pairs
  <2>8. \A i \in (k + 1)..(m[k] - 1) : i \in 1..Len(f) /\ f[i].kind = "css"
    <3>1. SUFFICES ASSUME NEW i \in (k + 1)..(m[k] - 1) PROVE i \in 1..Len(f) /\ f[i].kind = "css"
      OBVIOUS
    <3>2. i \in 1..Len(f) /\ k < i /\ i < m[k]
      BY <1>2, <2>3, <2>5
    <3>3. Allowed(f[k], f[i])
      BY <2>3, <3>2 DEF Pairs
    <3> QED BY <2>3, <3>2, <3>3 DEF Allowed
  <2>9. x = m[k]
    <3>1. E = {i \in k..b2 : i \in 1..Len(f) /\ f[i].kind = "styleEnd"}
      BY <1>3 DEF Lines
    <3> HIDE DEF E
    <3>2. E \in SUBSET (1..Len(f)) /\ m[k] \in E
      BY <1>2, <2>3, <2>5, <2>6, <2>7, <3>1
    <3>3. ASSUME NEW i \in E PROVE m[k] <= i
      <4>1. i \in k..b2 /\ f[i].kind = "styleEnd" /\ i \in Nat
        BY <1>2, <2>3, <3>1
      <4>2. i # k
        BY <2>3, <4>1
      <4>3. i \notin (k + 1)..(m[k] - 1)
        BY <2>8, <4>1
      <4> QED BY <1>2, <2>3, <2>5, <4>1, <4>2, <4>3
    <3> QED BY <1>2, <3>2, <3>3, FirstIs
  <2> HIDE DEF E, x
  <2> DEFINE a == k + 1
             b == m[k] - 1
             g == SubSeq(f, a, b)
  <2>10. a \in 1..(Len(f) + 1) /\ b \in (a - 1)..Len(f)
    BY <1>2, <2>3, <2>5
  <2>11. g \in Seq(AllLines) /\ IsSub(g, f, a, b)
    BY <2>10, SubLines
  <2>12. Css(f, block, s) = g
    BY <1>1, <2>3, <2>9
  <2>13. \A i \in a..b : f[i].kind = "css"
    BY <2>8
  <2> HIDE DEF g, a, b
  <2>14. \A j \in 1..Len(g) : g[j].kind = "css"
    BY <2>11, <2>13 DEF IsSub
  <2> QED BY <2>11, <2>12, <2>14 DEF IsCss
<1> QED BY <1>4, <1>5

\* The lines of a style element are a piece, in which no session starts.
LEMMA PieceStyle ==
  ASSUME NEW s \in Sessions, NEW in \in Nat, NEW css, IsCss(css), NEW U, NEW linked
  PROVE  LET w == Enclosed(Mark("style", s, in), css, Mark("styleEnd", s, in))
         IN Piece(w, U, linked) /\ \A j \in 1..Len(w) : w[j].kind \in {"style", "css", "styleEnd"}
<1> DEFINE x == Mark("style", s, in)
           y == Mark("styleEnd", s, in)
           w == Enclosed(x, css, y)
<1>1. /\ x \in AllLines /\ x.kind = "style" /\ x.by = s /\ x.of = None
      /\ y \in AllLines /\ y.kind = "styleEnd" /\ y.by = s /\ y.of = None
  <2>1. {"style", "styleEnd"} \subseteq Kinds
    BY DEF Kinds
  <2> QED BY <2>1, MarkLine, ConstantsAssumption DEF Mark
<1> HIDE DEF x, y
<1>2. Mates(x, y)
  BY <1>1 DEF Mates
<1>3. \A j \in 1..Len(css) : Allowed(x, css[j])
  BY <1>1 DEF Allowed, IsCss
<1>4. Piece(css, U, linked)
  BY PieceAlone DEF IsCss, IsStart, IsEnd, StartKinds, EndKinds
<1>5. Piece(w, U, linked)
  BY <1>1, <1>2, <1>3, <1>4, PieceEnclosed
<1>6. w \in Seq(AllLines) /\ Encloses(w, x, css, y)
  BY <1>1, EnclosedLines DEF IsCss
<1> HIDE DEF w
<1>7. \A j \in 1..Len(w) : w[j].kind \in {"style", "css", "styleEnd"}
  <2>1. SUFFICES ASSUME NEW j \in 1..Len(w) PROVE w[j].kind \in {"style", "css", "styleEnd"}
    OBVIOUS
  <2>2. Len(css) \in Nat /\ Len(w) = Len(css) + 2 /\ w[1] = x /\ w[Len(css) + 2] = y
    BY <1>6 DEF Encloses, IsCss
  <2> DEFINE i == j - 1
  <2>3. j = 1 \/ j = Len(css) + 2 \/ (i \in 1..Len(css) /\ j = 1 + i)
    BY <2>2
  <2> HIDE DEF i
  <2>4. CASE i \in 1..Len(css) /\ j = 1 + i
    BY <1>6, <2>4 DEF Encloses, IsCss
  <2> QED BY <1>1, <2>2, <2>3, <2>4
<1> QED BY <1>5, <1>7 DEF w, x, y

\* What takes the place of an accepted session is a piece.
LEMMA PieceReplacement ==
  ASSUME NEW s \in Sessions, NEW n \in 0..Variants, NEW v, NEW U, NEW linked, Piece(v, U, linked),
         NEW css, IsCss(css), NEW in \in Nat
  PROVE  Piece(Replacement(s, n, v, css, in), U, linked)
<1> DEFINE again == [k \in DOMAIN css |-> [css[k] EXCEPT !.in = in]]
           style == Enclosed(Mark("style", s, in), again, Mark("styleEnd", s, in))
           carbon == Enclosed(Mark("carbonStart", s, in), style, Mark("carbonEnd", s, in))
           tag == Enclosed(Line("accepted", None, s, n, in), Reindented(v, in), Mark("variantEnd", s, in))
<1>1. Replacement(s, n, v, css, in) = IF css = <<>> THEN Reindented(v, in) ELSE carbon \o tag
  BY DEF Replacement
<1>2. Piece(Reindented(v, in), U, linked)
  BY PieceReindented
<1>3. IsCss(again)
  <2>1. DOMAIN css = 1..Len(css) /\ Len(css) \in Nat /\ \A k \in 1..Len(css) : css[k] \in AllLines /\ css[k].kind = "css"
    BY DEF IsCss
  <2>2. \A k \in 1..Len(css) : [css[k] EXCEPT !.in = in] \in AllLines /\ [css[k] EXCEPT !.in = in].kind = "css"
    BY <2>1 DEF AllLines
  <2>3. again \in Seq(AllLines) /\ Len(again) = Len(css)
    BY <2>1, <2>2
  <2> QED BY <2>1, <2>2, <2>3 DEF IsCss
<1> HIDE DEF again
<1>4. Piece(style, U, linked) /\ \A j \in 1..Len(style) : style[j].kind \in {"style", "css", "styleEnd"}
  BY <1>3, PieceStyle
<1> HIDE DEF style
<1> DEFINE c1 == Mark("carbonStart", s, in)
           c2 == Mark("carbonEnd", s, in)
           t1 == Line("accepted", None, s, n, in)
           t2 == Mark("variantEnd", s, in)
<1>5. /\ c1 \in AllLines /\ c1.kind = "carbonStart" /\ c1.by = s /\ c1.of = None
      /\ c2 \in AllLines /\ c2.kind = "carbonEnd" /\ c2.by = s /\ c2.of = None
      /\ t1 \in AllLines /\ t1.kind = "accepted" /\ t1.by = s /\ t1.of = None
      /\ t2 \in AllLines /\ t2.kind = "variantEnd" /\ t2.by = s /\ t2.of = None
  <2>1. {"carbonStart", "carbonEnd", "accepted", "variantEnd"} \subseteq Kinds
    BY DEF Kinds
  <2> QED BY <2>1, MarkLine, ConstantsAssumption DEF Mark
<1> HIDE DEF c1, c2, t1, t2
<1>6. Mates(c1, c2) /\ Mates(t1, t2)
  BY <1>5 DEF Mates
<1>7. \A j \in 1..Len(style) : Allowed(c1, style[j])
  BY <1>4, <1>5 DEF Allowed
<1>8. \A l : Allowed(t1, l)
  BY <1>5 DEF Allowed
<1>9. Piece(Enclosed(c1, style, c2), U, linked)
  BY <1>4, <1>5, <1>6, <1>7, PieceEnclosed
<1>10. Piece(Enclosed(t1, Reindented(v, in), t2), U, linked)
  BY <1>2, <1>5, <1>6, <1>8, PieceEnclosed
<1>11. Piece(carbon \o tag, U, linked)
  BY <1>9, <1>10, PieceConcat DEF c1, c2, t1, t2
<1> QED BY <1>1, <1>2, <1>11

\* What is between a session's markers, without its style elements.
LEMMA PieceBlock ==
  ASSUME NEW f, NEW T, NEW jsx \in BOOLEAN, Piece(f, T, jsx), NEW s, NEW block \in MarkerBlock(f, s)
  PROVE  LET w == Stripped(SubSeq(f, block[1], block[2]))
         IN Piece(w, Starters(f, block[1], block[2]), FALSE) /\ (jsx => Linked(w))
<1> DEFINE a == block[1]
           b == block[2]
           U == Starters(f, a, b)
           g == SubSeq(f, a, b)
<1>1. f \in Seq(AllLines) /\ Len(f) \in Nat /\ (jsx => Linked(f)) /\ Piece(f, T, FALSE)
  BY DEF Piece
<1>2. PICK m : Pairs(f, m)
  BY DEF Piece
<1>3. a \in 1..Len(f) /\ m[a] = b /\ a < b
  BY <1>1, <1>2, MarkedBlock
<1>4. b \in a..Len(f) /\ Closed(m, a, b)
  <2> HIDE DEF a, b
  <2>1. a <= m[a]
    <3>1. m[a] \in 1..Len(f)
      BY <1>2, <1>3 DEF Pairs
    <3> QED BY <1>1, <1>3, <3>1
  <2> QED BY <1>1, <1>2, <1>3, <2>1, BlockClosed
<1>5. a \in 1..(Len(f) + 1) /\ b \in (a - 1)..Len(f)
  BY <1>1, <1>3, <1>4
<1>6. \A k \in a..b : f[k].kind = "start" => f[k].by \in U
  BY DEF Starters
<1> HIDE DEF a, b, U
<1>7. Piece(g, U, FALSE)
  BY <1>1, <1>2, <1>4, <1>5, <1>6, PieceSub
<1>8. jsx => Linked(g)
  BY <1>1, <1>2, <1>4, <1>5, LinkedSub
<1> HIDE DEF g
<1>9. Piece(Stripped(g), U, FALSE) /\ (jsx => Linked(Stripped(g)))
  BY <1>7, <1>8, PieceStripped
<1> QED BY <1>9 DEF a, b, U, g

\* The wrapper may be replaced by a piece in which no other sessions start
\* than in the wrapper.
LEMMA PieceReplaced ==
  ASSUME NEW f, NEW T, NEW jsx \in BOOLEAN, Piece(f, T, jsx), NEW s, NEW block \in MarkerBlock(f, s)
  PROVE  LET r == ReplaceRange(f, block, jsx)
         IN /\ f[r[1]].in \in Nat
            /\ \A ls : Piece(ls, Starters(f, block[1], block[2]), jsx) => Piece(Spliced(f, r, ls), T, jsx)
<1> DEFINE r == ReplaceRange(f, block, jsx)
           b1 == block[1]
           b2 == block[2]
<1>1. f \in Seq(AllLines) /\ Len(f) \in Nat /\ (jsx => Linked(f) /\ (Len(f) # 0 => f[1].kind # "start"))
  BY DEF Piece
<1>2. PICK m : Pairs(f, m)
  BY DEF Piece
<1>3. b1 \in 1..Len(f) /\ m[b1] = b2 /\ b1 < b2
  BY <1>1, <1>2, MarkedBlock
<1>4. jsx => Linked(f) /\ f[1].kind # "start"
  BY <1>1, <1>3
<1>5. PICK a \in 1..Len(f) : r = <<a, m[a]>> /\ a <= b1 /\ b2 <= m[a] /\ a < m[a] /\ f[a].kind \in {"start", "outer"}
  BY <1>1, <1>2, <1>4, ReplacedRange
<1> DEFINE b == m[a]
<1>6. b \in a..Len(f) /\ Closed(m, a, b)
  <2>1. a <= m[a]
    <3>1. m[a] \in 1..Len(f)
      BY <1>2 DEF Pairs
    <3> QED BY <1>1, <1>5, <3>1
  <2> QED BY <1>1, <1>2, <2>1, BlockClosed
<1>7. f[a].kind \notin NarrowKinds
  BY <1>5 DEF NarrowKinds
<1>8. b1 \in Nat /\ b2 \in Nat /\ a \in Nat /\ b \in Nat /\ a <= b1 /\ b2 <= b /\ r = <<a, b>>
  <2>1. b2 \in 1..Len(f)
    BY <1>2, <1>3 DEF Pairs
  <2> QED BY <1>1, <1>3, <1>5, <1>6, <2>1
<1>9. f[r[1]].in \in Nat
  <2>1. f[a] \in AllLines
    BY <1>1
  <2> QED BY <1>8, <2>1, LineIn
<1> HIDE DEF r, b1, b2, b
<1>10. Starters(f, b1, b2) \subseteq Starters(f, a, b)
  BY <1>8 DEF Starters
<1>11. ASSUME NEW ls, Piece(ls, Starters(f, b1, b2), jsx) PROVE Piece(Spliced(f, r, ls), T, jsx)
  <2> DEFINE V == {}
             W == Starters(f, a, b) \cup V
  <2>1. Starters(f, b1, b2) \subseteq W
    BY <1>10
  <2>2. T \cup V = T /\ \A x \in V : x \notin T
    OBVIOUS
  <2> HIDE DEF V
  <2>3. Piece(ls, W, jsx)
    <3> HIDE DEF W
    <3> QED BY <1>11, <2>1, PieceMore
  <2>4. Piece(Spliced(f, <<a, b>>, ls), T \cup V, jsx)
    BY <1>2, <1>5, <1>6, <1>7, <2>2, <2>3, PieceSpliced
  <2> QED BY <1>8, <2>2, <2>4
<1> QED BY <1>9, <1>11 DEF r, b1, b2

\* A file with a session accepted is a piece.
LEMMA PieceAccepted ==
  ASSUME NEW f, NEW T, NEW jsx \in BOOLEAN, Piece(f, T, jsx), NEW s \in Sessions, NEW n \in 0..Variants,
         NEW block \in MarkerBlock(f, s),
         NEW variant \in Inner(Stripped(SubSeq(f, block[1], block[2])), n)
  PROVE  LET r == ReplaceRange(f, block, jsx)
         IN Piece(Spliced(f, r, Replacement(s, n, Trimmed(variant), Css(f, block, s), f[r[1]].in)), T, jsx)
<1> DEFINE r == ReplaceRange(f, block, jsx)
           in == f[r[1]].in
           U == Starters(f, block[1], block[2])
           w == Stripped(SubSeq(f, block[1], block[2]))
           css == Css(f, block, s)
           v == Trimmed(variant)
<1>1. in \in Nat /\ \A ls : Piece(ls, U, jsx) => Piece(Spliced(f, r, ls), T, jsx)
  BY PieceReplaced
<1>2. Piece(w, U, FALSE) /\ (jsx => Linked(w)) /\ variant \in Inner(w, n)
  BY PieceBlock
<1>3. IsCss(css)
  BY CssLines DEF Piece
<1> HIDE DEF r, in, U, w, css
<1>4. Piece(variant, U, jsx)
  BY <1>2, PieceInner
<1>5. Piece(v, U, jsx)
  BY <1>4, PieceTrimmed
<1> HIDE DEF v
<1>6. Piece(Replacement(s, n, v, css, in), U, jsx)
  BY <1>1, <1>3, <1>5, PieceReplacement
<1>7. Piece(Spliced(f, r, Replacement(s, n, v, css, in)), T, jsx)
  BY <1>1, <1>6
<1> QED BY <1>7 DEF r, in, css, v

\* A file with a session discarded is a piece.
LEMMA PieceDiscarded ==
  ASSUME NEW f, NEW T, NEW jsx \in BOOLEAN, Piece(f, T, jsx), NEW s \in Sessions, NEW block \in MarkerBlock(f, s)
  PROVE  LET r == ReplaceRange(f, block, jsx)
             inner == Inner(Stripped(SubSeq(f, block[1], block[2])), 0)
             original == IF inner = {} THEN <<>> ELSE CHOOSE ls \in inner : TRUE
         IN Piece(Spliced(f, r, Reindented(original, f[r[1]].in)), T, jsx)
<1> DEFINE r == ReplaceRange(f, block, jsx)
           in == f[r[1]].in
           U == Starters(f, block[1], block[2])
           w == Stripped(SubSeq(f, block[1], block[2]))
           inner == Inner(w, 0)
           original == IF inner = {} THEN <<>> ELSE CHOOSE ls \in inner : TRUE
<1>1. in \in Nat /\ \A ls : Piece(ls, U, jsx) => Piece(Spliced(f, r, ls), T, jsx)
  BY PieceReplaced
<1>2. Piece(w, U, FALSE) /\ (jsx => Linked(w))
  BY PieceBlock
<1> HIDE DEF r, in, U, w
<1>3. ASSUME inner = {} PROVE Piece(original, U, jsx)
  <2>1. original = <<>>
    BY <1>3
  <2>2. <<>> \in Seq(AllLines) /\ \A k \in 1..Len(<<>>) : FALSE
    OBVIOUS
  <2>3. Piece(<<>>, U, jsx)
    BY <2>2, PieceAlone
  <2> QED BY <2>1, <2>3
<1>4. ASSUME inner # {} PROVE Piece(original, U, jsx)
  <2>1. original \in inner
    BY <1>4
  <2> HIDE DEF original
  <2> QED BY <1>2, <2>1, PieceInner
<1>5. Piece(original, U, jsx)
  BY <1>3, <1>4
<1> HIDE DEF original
<1>6. Piece(Reindented(original, in), U, jsx)
  BY <1>1, <1>5, PieceReindented
<1>7. Piece(Spliced(f, r, Reindented(original, in)), T, jsx)
  BY <1>1, <1>6
<1> QED BY <1>7 DEF r, in, original, inner, w

\* g[i] is the first i sequences of q, one after the other.
Flattens(g, q, n) == g = [i \in 1..n |-> IF i = 1 THEN q[i] ELSE g[i - 1] \o q[i]]

\* The first n of a sequence of sequences, put together, exist as a value of
\* its own for each n.
LEMMA SomeFlattens ==
  ASSUME NEW q, NEW N \in Nat, NEW n \in 1..N
  PROVE  \E g : Flattens(g, q, n)
<1> DEFINE Bad == {k \in 1..N : ~\E g : Flattens(g, q, k)}
<1>1. SUFFICES Bad = {}
  OBVIOUS
<1>2. SUFFICES ASSUME Bad # {} PROVE FALSE
  OBVIOUS
<1>3. PICK k \in Bad : \A j \in Bad : k <= j
  <2>1. Bad \in SUBSET Nat
    OBVIOUS
  <2> HIDE DEF Bad
  <2> QED BY <1>2, <2>1, LeastPlace
<1>4. k \in 1..N /\ ~\E g : Flattens(g, q, k)
  OBVIOUS
<1>5. CASE k = 1
  <2> DEFINE g == [i \in 1..1 |-> q[i]]
  <2>1. g = [i \in 1..1 |-> IF i = 1 THEN q[i] ELSE g[i - 1] \o q[i]]
    OBVIOUS
  <2>2. Flattens(g, q, 1)
    BY <2>1 DEF Flattens
  <2> QED BY <1>4, <1>5, <2>2
<1>6. CASE k # 1
  <2> DEFINE c == k - 1
  <2>1. c \in 1..N /\ c < k /\ c \in Nat /\ k \in Nat
    BY <1>4, <1>6
  <2>2. \E g : Flattens(g, q, c)
    <3>1. c \notin Bad
      BY <1>3, <2>1
    <3> QED BY <2>1, <3>1
  <2>3. PICK h : Flattens(h, q, c)
    BY <2>2
  <2>4. h = [i \in 1..c |-> IF i = 1 THEN q[i] ELSE h[i - 1] \o q[i]]
    BY <2>3 DEF Flattens
  <2> DEFINE g == [i \in 1..k |-> IF i = k THEN h[c] \o q[i] ELSE h[i]]
  <2>5. \A i \in 1..k : g[i] = IF i = 1 THEN q[i] ELSE g[i - 1] \o q[i]
    <3>1. SUFFICES ASSUME NEW i \in 1..k PROVE g[i] = IF i = 1 THEN q[i] ELSE g[i - 1] \o q[i]
      OBVIOUS
    <3>2. CASE i = k
      <4>1. g[i] = h[c] \o q[i] /\ i # 1
        BY <1>6, <3>2
      <4>2. i - 1 = c /\ c \in 1..k /\ c # k
        BY <2>1, <3>2
      <4>3. g[i - 1] = h[c]
        BY <4>2
      <4> QED BY <4>1, <4>3
    <3>3. CASE i # k
      <4>1. i \in 1..c /\ i \in Nat
        BY <2>1, <3>3
      <4>2. g[i] = h[i]
        BY <3>3
      <4>3. h[i] = IF i = 1 THEN q[i] ELSE h[i - 1] \o q[i]
        <5> HIDE DEF c, g
        <5> QED BY <2>4, <4>1
      <4>4. i # 1 => g[i - 1] = h[i - 1]
        <5>1. ASSUME i # 1 PROVE i - 1 \in 1..k /\ i - 1 # k
          BY <2>1, <4>1, <5>1
        <5> QED BY <5>1
      <4> HIDE DEF g
      <4> QED BY <4>2, <4>3, <4>4
    <3> QED BY <3>2, <3>3
  <2>6. g = [i \in 1..k |-> g[i]]
    OBVIOUS
  <2> HIDE DEF g
  <2>7. Flattens(g, q, k)
    BY <2>5, <2>6 DEF Flattens
  <2> QED BY <1>4, <2>7
<1> QED BY <1>5, <1>6

\* One piece after the other is a piece.
LEMMA PieceFlattened ==
  ASSUME NEW q, NEW N \in Nat, Len(q) = N, NEW T, NEW linked, \A i \in 1..N : Piece(q[i], T, linked),
         N = 0 => q = <<>>
  PROVE  Piece(FlattenSeq(q), T, linked)
<1>1. CASE N = 0
  <2>1. FlattenSeq(q) = <<>>
    BY <1>1 DEF FlattenSeq
  <2>2. <<>> \in Seq(AllLines) /\ \A k \in 1..Len(<<>>) : FALSE
    OBVIOUS
  <2>3. Piece(<<>>, T, linked)
    BY <2>2, PieceAlone
  <2> QED BY <2>1, <2>3
<1>2. CASE N # 0
  <2> DEFINE g == CHOOSE h : Flattens(h, q, N)
  <2>1. FlattenSeq(q) = g[N]
    <3>1. FlattenSeq(q) =
            (CHOOSE h : h = [i \in 1..Len(q) |-> IF i = 1 THEN q[i] ELSE h[i - 1] \o q[i]])[Len(q)]
      BY <1>2 DEF FlattenSeq
    <3> QED BY <3>1 DEF Flattens
  <2>2. Flattens(g, q, N)
    <3>1. N \in 1..N
      BY <1>2
    <3> QED BY <3>1, SomeFlattens
  <2> HIDE DEF g
  <2>3. \A i \in 1..N : g[i] = IF i = 1 THEN q[i] ELSE g[i - 1] \o q[i]
    BY <2>2 DEF Flattens
  <2> DEFINE Bad == {i \in 1..N : ~Piece(g[i], T, linked)}
  <2>4. ASSUME Bad # {} PROVE FALSE
    <3>1. PICK k \in Bad : \A j \in Bad : k <= j
      <4>1. Bad \in SUBSET Nat
        OBVIOUS
      <4> HIDE DEF Bad
      <4> QED BY <2>4, <4>1, LeastPlace
    <3>2. k \in 1..N /\ ~Piece(g[k], T, linked)
      OBVIOUS
    <3>3. k # 1
      BY <2>3, <3>2
    <3> DEFINE c == k - 1
    <3>4. c \in 1..N /\ c < k
      BY <3>2, <3>3
    <3>5. Piece(g[c], T, linked)
      <4>1. c \notin Bad
        BY <3>1, <3>4
      <4> HIDE DEF c
      <4> QED BY <3>4, <4>1
    <3>6. g[k] = g[c] \o q[k]
      BY <2>3, <3>2, <3>3
    <3> HIDE DEF c
    <3>7. Piece(g[c] \o q[k], T, linked)
      BY <3>2, <3>5, PieceConcat
    <3> QED BY <3>2, <3>6, <3>7
  <2>5. N \in 1..N
    BY <1>2
  <2> QED BY <2>1, <2>4, <2>5
<1> QED BY <1>1, <1>2

\* The lines of a version of the elements, relabelled, are a piece without start markers.
Relabel(l, s, n) == [l EXCEPT !.by = s, !.n = n]
Relabelled(ls, s, n) == [j \in DOMAIN ls |-> Relabel(ls[j], s, n)]

\* A line given to another version stays a line of its kind.
LEMMA RelabelledLine ==
  ASSUME NEW l \in AllLines, NEW s \in Sessions, NEW n \in 0..Variants
  PROVE  LET h == Relabel(l, s, n)
         IN h \in AllLines /\ h.kind = l.kind /\ h.of = l.of /\ h.by = s /\ h.n = n
BY DEF AllLines, Relabel

\* The lines of the elements of one version have their partners in it, and
\* mark no session.
LEMMA VersionClosed ==
  ASSUME NEW g \in Seq(AllLines), NEW q, Pairs(g, q), NEW by, NEW n, NEW j \in 1..Len(g),
         g[j].of # None, g[j].by = by, g[j].n = n
  PROVE  /\ q[j] \in 1..Len(g) /\ g[q[j]].of # None /\ g[q[j]].by = by /\ g[q[j]].n = n
         /\ g[j].kind # "start"
<1>1. j \in Nat /\ q[j] \in 1..Len(g) /\ q[j] \in Nat /\ q[q[j]] = j
  BY PairsType DEF Pairs
<1>2. CASE j < q[j]
  <2>1. Mates(g[j], g[q[j]])
    BY <1>2 DEF Pairs
  <2> QED BY <1>1, <2>1 DEF Mates
<1>3. CASE q[j] < j
  <2>1. Mates(g[q[j]], g[j])
    BY <1>1, <1>3 DEF Pairs
  <2> QED BY <1>1, <2>1 DEF Mates
<1>4. CASE q[j] = j
  <2>1. ~IsStart(g[j])
    BY <1>1, <1>4 DEF Pairs
  <2> QED BY <1>1, <1>4, <2>1 DEF IsStart, StartKinds
<1> QED BY <1>1, <1>2, <1>3, <1>4

\* A piece without markers is one in any version.
LEMMA PieceRelabelled ==
  ASSUME NEW e, NEW T, Piece(e, T, FALSE), \A j \in 1..Len(e) : e[j].kind # "start",
         NEW s \in Sessions, NEW n \in 0..Variants, NEW U, NEW linked
  PROVE  Piece(Relabelled(e, s, n), U, linked)
<1> DEFINE h == Relabelled(e, s, n)
<1>1. e \in Seq(AllLines) /\ DOMAIN e = 1..Len(e) /\ Len(e) \in Nat /\ \A j \in 1..Len(e) : e[j] \in AllLines
  BY DEF Piece
<1>2. \A j \in 1..Len(e) : /\ h[j] \in AllLines /\ h[j].kind = e[j].kind /\ h[j].of = e[j].of
                           /\ h[j].by = s /\ h[j].n = n
  BY <1>1, RelabelledLine DEF Relabelled
<1>3. h \in Seq(AllLines) /\ Len(h) = Len(e)
  BY <1>1, <1>2 DEF Relabelled
<1> HIDE DEF h
<1>4. \A j, k \in 1..Len(e) : Mates(e[j], e[k]) => Mates(h[j], h[k])
  <2>1. SUFFICES ASSUME NEW j \in 1..Len(e), NEW k \in 1..Len(e), Mates(e[j], e[k]) PROVE Mates(h[j], h[k])
    OBVIOUS
  <2> QED BY <1>2, <2>1 DEF Mates
<1>5. Alike(e, h)
  BY <1>2, <1>3, <1>4 DEF Alike
<1>6. Piece(e, U, linked)
  BY <1>1 DEF Piece, Linked
<1>7. Piece(h, U, linked)
  BY <1>3, <1>5, <1>6, PieceAlike
<1> QED BY <1>7 DEF h

\* A variant, written around the elements of the original, is a piece.
LEMMA PieceVariant ==
  ASSUME NEW f, NEW T, Piece(f, T, FALSE), NEW s \in Sessions, NEW n \in 1..Variants,
         NEW slot \in 1..Len(f), f[slot].kind = "variant", NEW in \in Nat, NEW U, NEW linked
  PROVE  Piece(Variant(f, s, n, slot, in), U, linked)
<1> DEFINE original == SubSeq(f, slot + 1, ClosingLine(f, slot) - 1)
           S == {j \in DOMAIN original :
                   LET l == original[j]
                   IN l.of # None /\ l.by = original[1].by /\ l.n = original[1].n}
           elements == Picked(original, S)
           x == Line("variant", None, s, n, in)
           y == Mark("variantEnd", s, in)
<1>1. Variant(f, s, n, slot, in) = Enclosed(x, Relabelled(elements, s, n), y)
  BY DEF Variant, Relabelled, Relabel
<1>2. f \in Seq(AllLines) /\ Len(f) \in Nat /\ \A k \in 1..Len(f) : f[k].kind = "start" => f[k].by \in T
  BY DEF Piece
<1>3. PICK m : Pairs(f, m)
  BY DEF Piece
<1>4. ClosingLine(f, slot) = m[slot] /\ slot < m[slot] /\ m[slot] \in 1..Len(f)
  <2>1. Opens(f[slot]) # "nothing" /\ IsStart(f[slot])
    BY DEF Opens, IsStart, StartKinds
  <2> QED BY <1>2, <1>3, <2>1, ClosingIsPartner DEF Pairs
<1>5. Piece(original, T, FALSE)
  <2> DEFINE a == slot + 1
             b == m[slot] - 1
  <2>1. a \in 1..(Len(f) + 1) /\ b \in (a - 1)..Len(f)
    BY <1>2, <1>4
  <2>2. Closed(m, a, b)
    <3>1. slot <= m[slot]
      BY <1>2, <1>4
    <3> QED BY <1>2, <1>3, <1>4, <3>1, BlockClosed
  <2>3. \A k \in a..b : f[k].kind = "start" => f[k].by \in T
    <3>1. \A k \in a..b : k \in 1..Len(f)
      BY <1>2, <2>1
    <3> QED BY <1>2, <3>1
  <2>4. original = SubSeq(f, a, b)
    BY <1>4
  <2> HIDE DEF original, a, b
  <2>5. Piece(SubSeq(f, a, b), T, FALSE)
    BY <1>3, <2>1, <2>2, <2>3, PieceSub
  <2> QED BY <2>4, <2>5
<1> DEFINE o == original
<1>6. DOMAIN o = 1..Len(o) /\ o \in Seq(AllLines)
  BY <1>5 DEF Piece
<1>7. PICK q : Pairs(o, q)
  BY <1>5 DEF Piece
<1>8. S = {j \in 1..Len(o) : o[j].of # None /\ o[j].by = o[1].by /\ o[j].n = o[1].n}
  BY <1>6
<1> HIDE DEF original, o, S
<1>9. S \in SUBSET (1..Len(o)) /\ (\A k \in S : q[k] \in S) /\ \A k \in S : o[k].kind # "start"
  <2>1. S \in SUBSET (1..Len(o))
    BY <1>8
  <2>2. ASSUME NEW k \in S PROVE q[k] \in S /\ o[k].kind # "start"
    <3>1. k \in 1..Len(o) /\ o[k].of # None /\ o[k].by = o[1].by /\ o[k].n = o[1].n
      BY <1>8
    <3>2. /\ q[k] \in 1..Len(o) /\ o[q[k]].of # None /\ o[q[k]].by = o[1].by /\ o[q[k]].n = o[1].n
          /\ o[k].kind # "start"
      BY <1>6, <1>7, <3>1, VersionClosed
    <3> QED BY <1>8, <3>2
  <2> QED BY <2>1, <2>2
<1>10. Piece(o, T, FALSE)
  BY <1>5 DEF o
<1>11. elements = Picked(o, S)
  BY DEF o
<1> HIDE DEF elements
<1>12. Piece(elements, T, FALSE)
  BY <1>7, <1>9, <1>10, <1>11, PiecePicked
<1>13. \A j \in 1..Len(elements) : elements[j].kind # "start"
  <2>1. PICK u : Names(u, elements, o, S)
    BY <1>6, <1>9, <1>11, PickedNames
  <2>2. \A j \in 1..Len(elements) : u[j] \in S /\ elements[j] = o[u[j]]
    BY <2>1 DEF Names
  <2> QED BY <1>9, <2>2
<1> DEFINE h == Relabelled(elements, s, n)
<1>14. Piece(h, U, linked)
  <2>1. n \in 0..Variants
    BY ConstantsAssumption
  <2> QED BY <1>12, <1>13, <2>1, PieceRelabelled
<1> HIDE DEF h, x, y
<1>15. /\ x \in AllLines /\ x.kind = "variant" /\ x.by = s /\ x.of = None
       /\ y \in AllLines /\ y.kind = "variantEnd" /\ y.by = s /\ y.of = None
  <2>1. {"variant", "variantEnd"} \subseteq Kinds
    BY DEF Kinds
  <2>2. n \in (0..Variants) \cup Ports \cup {None}
    BY ConstantsAssumption
  <2> QED BY <2>1, <2>2, MarkLine, ConstantsAssumption DEF Mark, x, y
<1>16. Mates(x, y) /\ \A l : Allowed(x, l)
  BY <1>15 DEF Mates, Allowed
<1>17. Piece(Enclosed(x, h, y), U, linked)
  BY <1>14, <1>15, <1>16, PieceEnclosed
<1> QED BY <1>1, <1>17 DEF h

\* What the agent writes below the insert line is a piece, in which no session starts.
LEMMA PieceWritten ==
  ASSUME NEW f, NEW T, NEW jsx \in BOOLEAN, Piece(f, T, jsx), NEW s \in Sessions, NEW css \in BOOLEAN,
         NEW k \in 1..Len(f), f[k].kind = "insert", NEW slot \in 1..Len(f), f[slot].kind = "variant"
  PROVE  LET in == f[k].in
             style == Enclosed(Mark("style", s, in), <<Mark("css", s, in + 1)>>, Mark("styleEnd", s, in))
             variants == [n \in 1..Variants |-> Variant(f, s, n, slot, in)]
         IN Piece(Spliced(f, <<k, k>>, <<f[k]>> \o (IF css THEN style ELSE <<>>) \o FlattenSeq(variants)), T, jsx)
<1> DEFINE in == f[k].in
           line == <<Mark("css", s, in + 1)>>
           style == Enclosed(Mark("style", s, in), line, Mark("styleEnd", s, in))
           variants == [n \in 1..Variants |-> Variant(f, s, n, slot, in)]
           first == IF css THEN style ELSE <<>>
           rest == FlattenSeq(variants)
           U == Starters(f, k, k) \cup {}
<1>1. f \in Seq(AllLines) /\ Len(f) \in Nat /\ Piece(f, T, FALSE) /\ f[k] \in AllLines
  BY DEF Piece
<1>2. in \in Nat /\ in + 1 \in Nat
  BY <1>1, LineIn
<1>3. PICK m : Pairs(f, m)
  BY DEF Piece
<1> HIDE DEF in, U
<1>4. IsCss(line)
  <2> DEFINE l == Mark("css", s, in + 1)
  <2>1. l \in AllLines /\ l.kind = "css"
    <3>1. "css" \in Kinds
      BY DEF Kinds
    <3> QED BY <1>2, <3>1, MarkLine, ConstantsAssumption DEF Mark
  <2> HIDE DEF l
  <2>2. <<l>> \in Seq(AllLines) /\ Len(<<l>>) = 1 /\ \A j \in 1..1 : <<l>>[j] = l
    BY <2>1
  <2>3. IsCss(<<l>>)
    BY <2>1, <2>2 DEF IsCss
  <2> QED BY <2>3 DEF l
<1> HIDE DEF line
<1>5. Piece(first, U, jsx)
  <2>1. ASSUME ~css PROVE Piece(first, U, jsx)
    <3>1. <<>> \in Seq(AllLines) /\ \A j \in 1..Len(<<>>) : FALSE
      OBVIOUS
    <3> QED BY <2>1, <3>1, PieceAlone
  <2>2. ASSUME css PROVE Piece(first, U, jsx)
    <3>1. Piece(style, U, jsx)
      BY <1>2, <1>4, PieceStyle
    <3> QED BY <2>2, <3>1
  <2> QED BY <2>1, <2>2
<1> HIDE DEF first
<1>6. Piece(rest, U, jsx)
  <2>1. \A n \in 1..Variants : Piece(variants[n], U, jsx)
    BY <1>1, <1>2, PieceVariant
  <2>2. Variants \in Nat
    BY ConstantsAssumption
  <2>3. Len(variants) = Variants /\ (Variants = 0 => variants = <<>>)
    BY <2>2
  <2> HIDE DEF variants
  <2> QED BY <2>1, <2>2, <2>3, PieceFlattened
<1> HIDE DEF rest
<1>7. ~IsStart(f[k]) /\ ~IsEnd(f[k]) /\ f[k].kind \notin NarrowKinds
  BY DEF IsStart, IsEnd, StartKinds, EndKinds, NarrowKinds
<1>8. Piece(<<f[k]>>, U, jsx)
  BY <1>1, <1>7, PieceLine
<1> DEFINE one == <<f[k]>>
           ls == one \o first \o rest
<1> HIDE DEF one
<1>9. Piece(one, U, jsx)
  BY <1>8 DEF one
<1>10. Piece(one \o first, U, jsx)
  BY <1>5, <1>9, PieceConcat
<1>11. Piece(ls, U, jsx)
  BY <1>6, <1>10, PieceConcat
<1> HIDE DEF ls
<1>12. Closed(m, k, k)
  BY <1>1, <1>3, <1>7, OwnPartner DEF Closed
<1>13. k \in k..Len(f)
  BY <1>1
<1>14. Piece(Spliced(f, <<k, k>>, ls), T, jsx)
  <2> DEFINE V == {}
  <2>1. T \cup V = T /\ \A t \in V : t \notin T
    OBVIOUS
  <2>2. Piece(ls, Starters(f, k, k) \cup V, jsx)
    BY <1>11 DEF U
  <2> HIDE DEF V
  <2>3. Piece(Spliced(f, <<k, k>>, ls), T \cup V, jsx)
    BY <1>3, <1>7, <1>12, <1>13, <2>1, <2>2, PieceSpliced
  <2> QED BY <2>1, <2>3
<1> QED BY <1>14 DEF ls, one, first, rest, variants, style, line, in

\* Cleaning up takes out a carbon block and a tag with its end.
LEMMA PieceCleaned ==
  ASSUME NEW f, NEW T, NEW linked, Piece(f, T, linked),
         NEW k \in 1..Len(f), f[k].kind = "carbonStart", NEW tag \in k..Len(f), f[tag].kind = "accepted",
         NEW end, end = First({i \in k..tag : i \in DOMAIN f /\ f[i].kind = "carbonEnd"}, k)
  PROVE  Piece(Picked(f, DOMAIN f \ ((k..end) \cup {tag, ClosingLine(f, tag)})), T, linked)
<1> DEFINE E == {i \in k..tag : i \in DOMAIN f /\ f[i].kind = "carbonEnd"}
<1>1. f \in Seq(AllLines) /\ Len(f) \in Nat /\ DOMAIN f = 1..Len(f)
  BY DEF Piece
<1>2. PICK m : Pairs(f, m)
  BY DEF Piece
<1>3. k \in 1..Len(f) /\ f[k].kind = "carbonStart" /\ tag \in k..Len(f) /\ f[tag].kind = "accepted"
  BY <1>1
<1>4. IsStart(f[k]) /\ IsStart(f[tag]) /\ Opens(f[tag]) # "nothing" /\ k # tag /\ tag \in 1..Len(f)
  BY <1>1, <1>3 DEF IsStart, StartKinds, Opens
<1>5. k < m[k] /\ m[k] \in 1..Len(f) /\ f[m[k]].kind = "carbonEnd"
  <2>1. k < m[k] /\ m[k] \in 1..Len(f) /\ Mates(f[k], f[m[k]])
    BY <1>2, <1>3, <1>4 DEF Pairs
  <2> QED BY <1>3, <2>1 DEF Mates
<1>6. ClosingLine(f, tag) = m[tag] /\ tag < m[tag] /\ m[tag] \in 1..Len(f) /\ f[m[tag]].kind = "variantEnd"
  <2>1. tag < m[tag] /\ m[tag] \in 1..Len(f) /\ Mates(f[tag], f[m[tag]])
    BY <1>2, <1>4 DEF Pairs
  <2>2. ClosingLine(f, tag) = m[tag]
    BY <1>1, <1>2, <1>4, ClosingIsPartner
  <2> QED BY <1>3, <2>1, <2>2 DEF Mates
<1>7. \A i \in (k + 1)..(m[k] - 1) : i \in 1..Len(f) /\ f[i].kind \in {"style", "css", "styleEnd", "blank"}
  <2>1. SUFFICES ASSUME NEW i \in (k + 1)..(m[k] - 1)
                 PROVE i \in 1..Len(f) /\ f[i].kind \in {"style", "css", "styleEnd", "blank"}
    OBVIOUS
  <2>2. i \in 1..Len(f) /\ k < i /\ i < m[k]
    BY <1>1, <1>3, <1>5
  <2>3. Allowed(f[k], f[i])
    BY <1>2, <1>3, <2>2 DEF Pairs
  <2> QED BY <1>3, <2>2, <2>3 DEF Allowed
<1>8. m[k] < tag
  <2>1. tag \notin (k + 1)..(m[k] - 1)
    BY <1>3, <1>7
  <2>2. tag # m[k]
    BY <1>3, <1>5
  <2> QED BY <1>1, <1>3, <1>4, <1>5, <2>1, <2>2
<1>9. end = m[k]
  <2>1. E = {i \in k..tag : i \in 1..Len(f) /\ f[i].kind = "carbonEnd"} /\ end = First(E, k)
    BY <1>1
  <2> HIDE DEF E
  <2>2. E \in SUBSET (1..Len(f)) /\ m[k] \in E
    BY <1>1, <1>3, <1>5, <1>8, <2>1
  <2>3. ASSUME NEW i \in E PROVE m[k] <= i
    <3>1. i \in k..tag /\ f[i].kind = "carbonEnd" /\ i \in Nat
      BY <1>1, <1>3, <2>1
    <3>2. i # k /\ i \notin (k + 1)..(m[k] - 1)
      BY <1>3, <1>7, <3>1
    <3> QED BY <1>1, <1>3, <1>5, <3>1, <3>2
  <2> QED BY <1>1, <2>1, <2>2, <2>3, FirstIs
<1> HIDE DEF E
<1> DEFINE S == 1..Len(f) \ ((k..m[k]) \cup {tag, m[tag]})
<1>10. \A i \in S : m[i] \in S
  <2>1. SUFFICES ASSUME NEW i \in S PROVE m[i] \in S
    OBVIOUS
  <2>2. i \in 1..Len(f) /\ m[i] \in 1..Len(f) /\ m[m[i]] = i /\ m[m[tag]] = tag
    BY <1>2, <1>4 DEF Pairs
  <2>3. Closed(m, k, m[k])
    <3>1. k <= m[k]
      BY <1>1, <1>3, <1>5
    <3> QED BY <1>1, <1>2, <1>3, <3>1, BlockClosed
  <2>4. m[i] \notin k..m[k]
    BY <2>1, <2>2, <2>3 DEF Closed
  <2>5. m[i] # tag /\ m[i] # m[tag]
    BY <2>1, <2>2
  <2> QED BY <2>2, <2>4, <2>5
<1>11. \A i \in 1..Len(f) : f[i].kind = "outer" => i \in S
  <2>1. SUFFICES ASSUME NEW i \in 1..Len(f), i \notin S PROVE f[i].kind # "outer"
    OBVIOUS
  <2>2. i = k \/ i = m[k] \/ i \in (k + 1)..(m[k] - 1) \/ i = tag \/ i = m[tag]
    BY <1>1, <1>3, <1>5, <2>1
  <2> QED BY <1>3, <1>5, <1>6, <1>7, <2>2
<1>12. S \in SUBSET (1..Len(f))
  OBVIOUS
<1>13. DOMAIN f \ ((k..end) \cup {tag, ClosingLine(f, tag)}) = S
  BY <1>1, <1>6, <1>9
<1> HIDE DEF S
<1>14. Piece(Picked(f, S), T, linked)
  BY <1>2, <1>10, <1>11, <1>12, PiecePicked
<1> QED BY <1>13, <1>14

-----------------------------------------------------------------------------
(* live-inject keeps a file a piece *)

\* No lines are a piece.
LEMMA PieceNothing ==
  ASSUME NEW T, NEW linked
  PROVE  Piece(<<>>, T, linked)
<1>1. <<>> \in Seq(AllLines) /\ \A k \in 1..Len(<<>>) : FALSE
  OBVIOUS
<1> QED BY <1>1, PieceAlone

\* A part of a piece that is closed, and not right above a start marker, may be cut out.
LEMMA PieceCut ==
  ASSUME NEW f, NEW T, NEW linked, Piece(f, T, linked), NEW m, Pairs(f, m),
         NEW a \in 1..Len(f), NEW b \in a..Len(f), Closed(m, a, b)
  PROVE  Piece(Spliced(f, <<a, b>>, <<>>), T, linked)
<1> DEFINE V == {}
           ls == <<>>
<1>1. T \cup V = T /\ (\A t \in V : t \notin T) /\ Len(ls) = 0
  OBVIOUS
<1>2. Piece(ls, Starters(f, a, b) \cup V, linked)
  BY PieceNothing
<1> HIDE DEF V, ls
<1>3. Piece(Spliced(f, <<a, b>>, ls), T \cup V, linked)
  BY <1>1, <1>2, PieceSpliced
<1> QED BY <1>1, <1>3 DEF ls

\* The policy's port is of no importance.
PolicyOnly(f, g) ==
  /\ g \in Seq(AllLines) /\ Len(g) = Len(f)
  /\ \A k \in 1..Len(f) : /\ g[k].kind = f[k].kind
                          /\ f[k].kind # "policy" => g[k] = f[k]

\* A piece with other policies is a piece.
LEMMA PiecePolicy ==
  ASSUME NEW f, NEW T, NEW linked, Piece(f, T, linked), NEW g, PolicyOnly(f, g)
  PROVE  Piece(g, T, linked)
<1>1. \A k \in 1..Len(f) : IsStart(f[k]) \/ IsEnd(f[k]) => g[k] = f[k]
  BY DEF PolicyOnly, IsStart, IsEnd, StartKinds, EndKinds
<1>2. Alike(f, g)
  BY <1>1, AlikeSame DEF PolicyOnly
<1> QED BY <1>2, PieceAlike DEF PolicyOnly

\* A policy with another port is a line.
LEMMA OtherPort ==
  ASSUME NEW l \in AllLines, NEW n \in {0} \cup Ports
  PROVE  [l EXCEPT !.n = n] \in AllLines /\ [l EXCEPT !.n = n].kind = l.kind
<1>1. n \in (0..Variants) \cup Ports \cup {None}
  BY ConstantsAssumption
<1> QED BY <1>1 DEF AllLines

\* patchCspMeta leaves a piece.
LEMMA PiecePatched ==
  ASSUME NEW f, NEW T, NEW linked, Piece(f, T, linked), NEW port \in Ports
  PROVE  Piece(PatchCspMeta(f, port), T, linked)
<1> DEFINE g == PatchCspMeta(f, port)
<1>1. f \in Seq(AllLines) /\ DOMAIN f = 1..Len(f) /\ Len(f) \in Nat /\ \A k \in 1..Len(f) : f[k] \in AllLines
  BY DEF Piece
<1>2. g = [k \in 1..Len(f) |-> IF f[k].kind = "policy" /\ f[k].n = 0 THEN [f[k] EXCEPT !.n = port] ELSE f[k]]
  BY <1>1 DEF PatchCspMeta
<1> HIDE DEF g
<1>3. \A k \in 1..Len(f) : g[k] \in AllLines /\ g[k].kind = f[k].kind /\ (f[k].kind # "policy" => g[k] = f[k])
  <2>1. SUFFICES ASSUME NEW k \in 1..Len(f)
                 PROVE g[k] \in AllLines /\ g[k].kind = f[k].kind /\ (f[k].kind # "policy" => g[k] = f[k])
    OBVIOUS
  <2>2. g[k] = IF f[k].kind = "policy" /\ f[k].n = 0 THEN [f[k] EXCEPT !.n = port] ELSE f[k]
    BY <1>2
  <2>3. [f[k] EXCEPT !.n = port] \in AllLines /\ [f[k] EXCEPT !.n = port].kind = f[k].kind
    BY <1>1, OtherPort
  <2> QED BY <1>1, <2>2, <2>3
<1>4. PolicyOnly(f, g)
  <2>1. g \in Seq(AllLines) /\ Len(g) = Len(f)
    BY <1>1, <1>2, <1>3
  <2> QED BY <1>3, <2>1 DEF PolicyOnly
<1>5. Piece(g, T, linked)
  BY <1>4, PiecePolicy
<1> QED BY <1>5 DEF g

\* revertCspMeta leaves a piece.
LEMMA PieceReverted ==
  ASSUME NEW f, NEW T, NEW linked, Piece(f, T, linked)
  PROVE  Piece(RevertCspMeta(f), T, linked)
<1> DEFINE h == RevertCspMeta(f)
<1>1. f \in Seq(AllLines) /\ DOMAIN f = 1..Len(f) /\ Len(f) \in Nat /\ \A k \in 1..Len(f) : f[k] \in AllLines
  BY DEF Piece
<1>2. h = [k \in 1..Len(f) |-> IF f[k].kind = "policy" THEN [f[k] EXCEPT !.n = 0] ELSE f[k]]
  BY <1>1 DEF RevertCspMeta
<1> HIDE DEF h
<1>3. \A k \in 1..Len(f) : h[k] \in AllLines /\ h[k].kind = f[k].kind /\ (f[k].kind # "policy" => h[k] = f[k])
  <2>1. SUFFICES ASSUME NEW k \in 1..Len(f)
                 PROVE h[k] \in AllLines /\ h[k].kind = f[k].kind /\ (f[k].kind # "policy" => h[k] = f[k])
    OBVIOUS
  <2>2. h[k] = IF f[k].kind = "policy" THEN [f[k] EXCEPT !.n = 0] ELSE f[k]
    BY <1>2
  <2>3. [f[k] EXCEPT !.n = 0] \in AllLines /\ [f[k] EXCEPT !.n = 0].kind = f[k].kind
    BY <1>1, OtherPort
  <2> QED BY <1>1, <2>2, <2>3
<1>4. PolicyOnly(f, h)
  <2>1. h \in Seq(AllLines) /\ Len(h) = Len(f)
    BY <1>1, <1>2, <1>3
  <2> QED BY <1>3, <2>1 DEF PolicyOnly
<1>5. Piece(h, T, linked)
  BY <1>4, PiecePolicy
<1> QED BY <1>5 DEF h

\* The helper's tag is a piece of its own.
LEMMA TwoAndOne ==
  ASSUME NEW S, NEW s \in Seq(S), Len(s) = 2, NEW t \in Seq(S), Len(t) = 1
  PROVE  /\ s \o t \in Seq(S) /\ Len(s \o t) = 3
         /\ (s \o t)[1] = s[1] /\ (s \o t)[2] = s[2] /\ (s \o t)[3] = t[1]
<1>1. s \o t \in Seq(S) /\ Len(s \o t) = Len(s) + Len(t)
  BY ConcatProperties
<1>2. \A i \in 1..Len(s) + Len(t) :
        (s \o t)[i] = IF i <= Len(s) THEN s[i] ELSE t[i - Len(s)]
  BY ConcatProperties
<1>3. (s \o t)[1] = s[1] /\ (s \o t)[2] = s[2]
  <2>1. (s \o t)[1] = s[1]
    BY <1>2, 1 \in 1..Len(s) + Len(t), 1 <= Len(s)
  <2>2. (s \o t)[2] = s[2]
    BY <1>2, 2 \in 1..Len(s) + Len(t), 2 <= Len(s)
  <2> QED BY <2>1, <2>2
<1>4. (s \o t)[3] = t[3 - Len(s)]
  BY <1>2, 3 \in 1..Len(s) + Len(t), ~(3 <= Len(s))
<1> QED BY <1>1, <1>3, <1>4

\* An enclosure of one line.
LEMMA ConcatOfThree ==
  ASSUME NEW S, NEW a \in S, NEW b \in S, NEW c \in S
  PROVE  Enclosed(a, <<b>>, c) = <<a, b, c>>
<1> DEFINE ab == <<a>> \o <<b>>
           z == <<c>>
           g == ab \o z
           h == <<a, b, c>>
<1>1. z \in Seq(S) /\ Len(z) = 1 /\ z[1] = c
  OBVIOUS
<1>2. ab \in Seq(S) /\ Len(ab) = 2 /\ ab[1] = a /\ ab[2] = b
  OBVIOUS
<1>3. h \in Seq(S) /\ Len(h) = 3 /\ h[1] = a /\ h[2] = b /\ h[3] = c
  OBVIOUS
<1>4. Enclosed(a, <<b>>, c) = g
  BY DEF Enclosed
<1> HIDE DEF ab, z, h
<1>5. g \in Seq(S) /\ Len(g) = 3 /\ g[1] = a /\ g[2] = b /\ g[3] = c
  BY <1>1, <1>2, TwoAndOne
<1> HIDE DEF g
<1>6. \A i \in 1..3 : g[i] = h[i]
  <2>1. \A i \in 1..3 : i = 1 \/ i = 2 \/ i = 3
    OBVIOUS
  <2> QED BY <1>3, <1>5, <2>1
<1>7. g = h
  BY <1>3, <1>5, <1>6, SameSequence
<1> QED BY <1>4, <1>7 DEF h

\* The three lines of the script tag are a piece.
LEMMA PieceTag ==
  ASSUME NEW in \in Nat, NEW port \in Ports, NEW T, NEW linked
  PROVE  Piece(<<At("tagStart", None, in), At("script", port, 0), At("tagEnd", None, 0)>>, T, linked)
<1> DEFINE x == At("tagStart", None, in)
           c == At("script", port, 0)
           y == At("tagEnd", None, 0)
<1>1. {"tagStart", "script", "tagEnd"} \subseteq Kinds
  BY DEF Kinds
<1>2. /\ x \in AllLines /\ x.kind = "tagStart" /\ x.by = None /\ x.of = None
      /\ y \in AllLines /\ y.kind = "tagEnd" /\ y.by = None /\ y.of = None
      /\ c \in AllLines /\ c.kind = "script"
  <2>1. \A kind \in Kinds, n \in Ports \cup {None}, at \in Nat :
          LET l == At(kind, n, at) IN l \in AllLines /\ l.kind = kind /\ l.by = None /\ l.of = None
    <3>1. SUFFICES ASSUME NEW kind \in Kinds, NEW n \in Ports \cup {None}, NEW at \in Nat
                   PROVE LET l == At(kind, n, at) IN l \in AllLines /\ l.kind = kind /\ l.by = None /\ l.of = None
      OBVIOUS
    <3>2. n \in (0..Variants) \cup Ports \cup {None} /\ None \in Sessions \cup {None}
      OBVIOUS
    <3> QED BY <3>2, MarkLine DEF At
  <2>2. None \in Ports \cup {None} /\ port \in Ports \cup {None} /\ 0 \in Nat
    OBVIOUS
  <2> HIDE DEF At
  <2> QED BY <1>1, <2>1, <2>2
<1> HIDE DEF x, c, y
<1>3. Mates(x, y)
  BY <1>2 DEF Mates
<1>4. Piece(<<c>>, T, linked)
  BY <1>2, PieceLine DEF IsStart, IsEnd, StartKinds, EndKinds
<1>5. Len(<<c>>) = 1 /\ <<c>>[1] = c
  OBVIOUS
<1>6. \A j \in 1..Len(<<c>>) : Allowed(x, <<c>>[j])
  BY <1>2, <1>5 DEF Allowed
<1> DEFINE w == <<c>>
<1> HIDE DEF w
<1>7. Piece(Enclosed(x, w, y), T, linked)
  BY <1>2, <1>3, <1>4, <1>6, PieceEnclosed DEF w
<1> QED BY <1>2, <1>7, ConcatOfThree DEF w, x, c, y

\* insertTag leaves a piece.
LEMMA PieceInserted ==
  ASSUME NEW f, NEW T, NEW linked, Piece(f, T, linked), NEW port \in Ports, NEW where
  PROVE  Piece(InsertTag(f, port, where), T, linked)
<1> DEFINE A == Lines(f, 1, Len(f), LAMBDA l : l.kind = "anchor")
           tag(in) == <<At("tagStart", None, in), At("script", port, 0), At("tagEnd", None, 0)>>
           before == Spliced(f, <<Max(A), Max(A)>>, tag(f[Max(A)].in) \o <<[f[Max(A)] EXCEPT !.in = 0]>>)
           after == Spliced(f, <<Min(A), Min(A)>>, <<f[Min(A)]>> \o tag(0))
<1>1. InsertTag(f, port, where) = IF A = {} THEN f ELSE IF where = "before" THEN before ELSE after
  BY DEF InsertTag
<1>2. f \in Seq(AllLines) /\ DOMAIN f = 1..Len(f) /\ Len(f) \in Nat
  BY DEF Piece
<1>3. PICK m : Pairs(f, m)
  BY DEF Piece
<1>4. A = {k \in 1..Len(f) : f[k].kind = "anchor"}
  BY <1>2 DEF Lines
<1>5. ASSUME NEW k \in A, NEW ls, \A U : Piece(ls, U, linked)
      PROVE  Piece(Spliced(f, <<k, k>>, ls), T, linked)
  <2>1. k \in 1..Len(f) /\ f[k].kind = "anchor" /\ k \in k..Len(f)
    BY <1>2, <1>4
  <2>2. ~IsStart(f[k]) /\ ~IsEnd(f[k]) /\ f[k].kind \notin NarrowKinds
    BY <2>1 DEF IsStart, IsEnd, StartKinds, EndKinds, NarrowKinds
  <2>3. Closed(m, k, k)
    BY <1>2, <1>3, <2>1, <2>2, OwnPartner DEF Closed
  <2> DEFINE V == {}
  <2>4. T \cup V = T /\ \A t \in V : t \notin T
    OBVIOUS
  <2> HIDE DEF V
  <2>5. Piece(ls, Starters(f, k, k) \cup V, linked)
    BY <1>5
  <2>6. Piece(Spliced(f, <<k, k>>, ls), T \cup V, linked)
    BY <1>3, <2>1, <2>2, <2>3, <2>4, <2>5, PieceSpliced
  <2> QED BY <2>4, <2>6
<1> HIDE DEF A
<1>6. ASSUME NEW k \in A, NEW l, l = f[k] \/ l = [f[k] EXCEPT !.in = 0]
      PROVE  \A U : Piece(<<l>>, U, linked)
  <2>1. f[k] \in AllLines /\ f[k].kind = "anchor"
    BY <1>2, <1>4
  <2>2. l \in AllLines /\ l.kind = "anchor"
    BY <1>6, <2>1 DEF AllLines
  <2>3. ~IsStart(l) /\ ~IsEnd(l)
    BY <2>2 DEF IsStart, IsEnd, StartKinds, EndKinds
  <2> QED BY <2>2, <2>3, PieceLine
<1>7. \A in \in Nat : \A U : Piece(tag(in), U, linked)
  BY PieceTag
<1> HIDE DEF tag
<1>8. ASSUME A # {}, where = "before" PROVE Piece(before, T, linked)
  <2> DEFINE k == Max(A)
             l == [f[k] EXCEPT !.in = 0]
  <2>1. k \in A
    <3>1. A \in SUBSET (1..Len(f))
      BY <1>4
    <3> QED BY <1>2, <1>8, <3>1, Extremes
  <2> HIDE DEF k
  <2>2. f[k].in \in Nat
    <3>1. f[k] \in AllLines
      BY <1>2, <1>4, <2>1
    <3> QED BY <3>1, LineIn
  <2>3. \A U : Piece(<<l>>, U, linked)
    BY <1>6, <2>1
  <2> DEFINE one == <<l>>
             ls == tag(f[k].in) \o one
  <2> HIDE DEF one
  <2>4. \A U : Piece(one, U, linked)
    BY <2>3 DEF one
  <2>5. \A U : Piece(ls, U, linked)
    BY <1>7, <2>2, <2>4, PieceConcat
  <2> HIDE DEF ls
  <2>6. Piece(Spliced(f, <<k, k>>, ls), T, linked)
    BY <1>5, <2>1, <2>5
  <2> QED BY <2>6 DEF ls, one, l, k
<1>9. ASSUME A # {}, where # "before" PROVE Piece(after, T, linked)
  <2> DEFINE k == Min(A)
             one == <<f[k]>>
             ls == one \o tag(0)
  <2>1. k \in A
    <3>1. A \in SUBSET (1..Len(f))
      BY <1>4
    <3> QED BY <1>2, <1>9, <3>1, Extremes
  <2> HIDE DEF k
  <2>2. \A U : Piece(one, U, linked)
    BY <1>6, <2>1
  <2> HIDE DEF one
  <2>3. 0 \in Nat
    OBVIOUS
  <2>4. \A U : Piece(ls, U, linked)
    BY <1>7, <2>2, <2>3, PieceConcat
  <2> HIDE DEF ls
  <2>5. Piece(Spliced(f, <<k, k>>, ls), T, linked)
    BY <1>5, <2>1, <2>4
  <2> QED BY <2>5 DEF ls, one, k
<1> HIDE DEF before, after
<1> QED BY <1>1, <1>8, <1>9

\* g is f but for the indentation.
SameButIn(f, g) ==
  /\ Len(g) = Len(f)
  /\ \A k \in 1..Len(f) : g[k] \in AllLines /\ g[k].kind = f[k].kind
                          /\ g[k].of = f[k].of /\ g[k].by = f[k].by /\ g[k].n = f[k].n

\* A piece with other indentations is a piece.
LEMMA PieceSameButIn ==
  ASSUME NEW f, NEW T, NEW linked, Piece(f, T, linked), NEW g \in Seq(AllLines), SameButIn(f, g)
  PROVE  Piece(g, T, linked)
<1>1. Alike(f, g)
  BY AlikeSame DEF SameButIn
<1> QED BY <1>1, PieceAlike

\* The first line of rest has x more of indentation.
Indented(rest, x) == [k \in DOMAIN rest |-> IF k = 1 THEN [rest[1] EXCEPT !.in = @ + x] ELSE rest[k]]

\* removeTag's indentation of the line below changes nothing else.
LEMMA IndentedLines ==
  ASSUME NEW head \in Seq(AllLines), NEW rest \in Seq(AllLines), NEW x \in Nat
  PROVE  head \o Indented(rest, x) \in Seq(AllLines) /\ SameButIn(head \o rest, head \o Indented(rest, x))
<1> DEFINE more == Indented(rest, x)
           f == head \o rest
           g == head \o more
<1>1. DOMAIN rest = 1..Len(rest) /\ Len(rest) \in Nat /\ Len(head) \in Nat
      /\ (\A k \in 1..Len(rest) : rest[k] \in AllLines) /\ (\A k \in 1..Len(head) : head[k] \in AllLines)
  OBVIOUS
<1>2. more = [k \in 1..Len(rest) |-> IF k = 1 THEN [rest[1] EXCEPT !.in = @ + x] ELSE rest[k]]
  BY <1>1 DEF Indented
<1> HIDE DEF more
<1>3. \A k \in 1..Len(rest) : more[k] \in AllLines /\ more[k].kind = rest[k].kind
        /\ more[k].of = rest[k].of /\ more[k].by = rest[k].by /\ more[k].n = rest[k].n
  <2>1. \A l \in AllLines : LET h == [l EXCEPT !.in = @ + x]
                            IN h \in AllLines /\ h.kind = l.kind /\ h.of = l.of /\ h.by = l.by /\ h.n = l.n
    <3>1. SUFFICES ASSUME NEW l \in AllLines
                   PROVE LET h == [l EXCEPT !.in = @ + x]
                         IN h \in AllLines /\ h.kind = l.kind /\ h.of = l.of /\ h.by = l.by /\ h.n = l.n
      OBVIOUS
    <3>2. l.in + x \in Nat
      BY LineIn
    <3> DEFINE y == l.in + x
    <3> HIDE DEF y
    <3>3. LET h == [l EXCEPT !.in = y]
          IN h \in AllLines /\ h.kind = l.kind /\ h.of = l.of /\ h.by = l.by /\ h.n = l.n
      BY <3>2 DEF AllLines, y
    <3> QED BY <3>3 DEF y
  <2>2. SUFFICES ASSUME NEW k \in 1..Len(rest)
                 PROVE more[k] \in AllLines /\ more[k].kind = rest[k].kind
                       /\ more[k].of = rest[k].of /\ more[k].by = rest[k].by /\ more[k].n = rest[k].n
    OBVIOUS
  <2>3. CASE k = 1
    <3>1. more[k] = [rest[k] EXCEPT !.in = @ + x]
      BY <1>2, <2>3
    <3> QED BY <1>1, <2>1, <3>1
  <2>4. CASE k # 1
    BY <1>1, <1>2, <2>4
  <2> QED BY <2>3, <2>4
<1>4. more \in Seq(AllLines) /\ Len(more) = Len(rest)
  BY <1>1, <1>2, <1>3
<1>5. /\ f \in Seq(AllLines) /\ Len(f) = Len(head) + Len(rest)
      /\ g \in Seq(AllLines) /\ Len(g) = Len(head) + Len(more)
      /\ \A k \in 1..(Len(head) + Len(rest)) : f[k] = IF k <= Len(head) THEN head[k] ELSE rest[k - Len(head)]
      /\ \A k \in 1..(Len(head) + Len(more)) : g[k] = IF k <= Len(head) THEN head[k] ELSE more[k - Len(head)]
  BY <1>4, ConcatProperties
<1> HIDE DEF f, g
<1>6. ASSUME NEW k \in 1..Len(f)
      PROVE  g[k] \in AllLines /\ g[k].kind = f[k].kind
             /\ g[k].of = f[k].of /\ g[k].by = f[k].by /\ g[k].n = f[k].n
  <2> DEFINE i == k - Len(head)
  <2>1. CASE k <= Len(head)
    <3>1. k \in 1..Len(head) /\ f[k] = head[k] /\ g[k] = head[k]
      BY <1>1, <1>4, <1>5, <2>1
    <3> QED BY <1>1, <3>1
  <2>2. CASE ~(k <= Len(head))
    <3>1. i \in 1..Len(rest) /\ f[k] = rest[i] /\ g[k] = more[i]
      BY <1>1, <1>4, <1>5, <2>2
    <3> HIDE DEF i
    <3> QED BY <1>3, <3>1
  <2> QED BY <2>1, <2>2
<1>7. SameButIn(f, g)
  BY <1>4, <1>5, <1>6 DEF SameButIn
<1> QED BY <1>5, <1>7 DEF f, g, more

\* removeTag leaves a piece: the first end marker below a start marker is its
\* partner.
LEMMA PieceRemoved ==
  ASSUME NEW f, NEW T, NEW linked, Piece(f, T, linked)
  PROVE  Piece(RemoveTag(f), T, linked)
<1> DEFINE B == Lines(f, 1, Len(f), LAMBDA l : l.kind = "tagStart")
           k == First(B, 0)
           E == Lines(f, k, Len(f), LAMBDA l : l.kind = "tagEnd")
           end == First(E, 0)
           head == SubSeq(f, 1, k - 1)
           rest == SubSeq(f, end + 1, Len(f))
           g == head \o Indented(rest, f[k].in)
<1>1. RemoveTag(f) = IF k = 0 \/ end = 0 THEN f ELSE g
  BY DEF RemoveTag, Indented
<1>2. f \in Seq(AllLines) /\ Len(f) \in Nat /\ DOMAIN f = 1..Len(f)
  BY DEF Piece
<1>3. PICK m : Pairs(f, m)
  BY DEF Piece
<1>4. B = {i \in 1..Len(f) : f[i].kind = "tagStart"}
  BY <1>2 DEF Lines
<1>5. E = {i \in k..Len(f) : i \in 1..Len(f) /\ f[i].kind = "tagEnd"}
  BY <1>2 DEF Lines
<1> HIDE DEF E, B
<1>6. ASSUME k # 0, end # 0 PROVE Piece(g, T, linked)
  <2>1. k \in B
    <3>1. B # {}
      BY <1>6 DEF First
    <3>2. B \in SUBSET (1..Len(f))
      BY <1>4
    <3>3. Min(B) \in B
      BY <1>2, <3>1, <3>2, Extremes
    <3> QED BY <3>1, <3>3 DEF First
  <2> HIDE DEF k
  <2>2. k \in 1..Len(f) /\ f[k].kind = "tagStart"
    BY <1>4, <2>1
  <2>3. IsStart(f[k])
    BY <2>2 DEF IsStart, StartKinds
  <2>4. k < m[k] /\ m[k] \in 1..Len(f) /\ Mates(f[k], f[m[k]])
    BY <1>3, <2>2, <2>3 DEF Pairs
  <2>5. f[m[k]].kind = "tagEnd"
    BY <2>2, <2>4 DEF Mates
  <2>6. \A i \in (k + 1)..(m[k] - 1) : f[i].kind = "script"
    <3>1. SUFFICES ASSUME NEW i \in (k + 1)..(m[k] - 1) PROVE f[i].kind = "script"
      OBVIOUS
    <3>2. i \in 1..Len(f) /\ k < i /\ i < m[k]
      BY <1>2, <2>2, <2>4
    <3>3. Allowed(f[k], f[i])
      BY <1>3, <2>2, <3>2 DEF Pairs
    <3> QED BY <2>2, <3>3 DEF Allowed
  <2>7. end = m[k]
    <3>1. E \in SUBSET (1..Len(f)) /\ m[k] \in E
      BY <1>2, <1>5, <2>2, <2>4, <2>5
    <3>2. ASSUME NEW i \in E PROVE m[k] <= i
      <4>1. i \in k..Len(f) /\ f[i].kind = "tagEnd" /\ i \in Nat
        BY <1>2, <1>5, <2>2
      <4>2. i # k /\ i \notin (k + 1)..(m[k] - 1)
        BY <2>2, <2>6, <4>1
      <4> QED BY <1>2, <2>2, <2>4, <4>1, <4>2
    <3> QED BY <1>2, <3>1, <3>2, FirstIs
  <2> HIDE DEF end
  <2> DEFINE b == m[k]
  <2>8. b \in k..Len(f) /\ Closed(m, k, b)
    <3>1. k <= m[k]
      BY <1>2, <2>2, <2>4
    <3> QED BY <1>2, <1>3, <2>2, <3>1, BlockClosed
  <2> HIDE DEF b
  <2>9. Piece(Spliced(f, <<k, b>>, <<>>), T, linked)
    BY <1>3, <2>2, <2>8, PieceCut
  <2>10. rest = SubSeq(f, b + 1, Len(f))
    BY <2>7 DEF b
  <2>11. Spliced(f, <<k, b>>, <<>>) = head \o <<>> \o rest
    BY <2>10 DEF Spliced
  <2>12. head \in Seq(AllLines) /\ rest \in Seq(AllLines)
    <3>1. 1 \in 1..(Len(f) + 1) /\ k - 1 \in (1 - 1)..Len(f)
      BY <1>2, <2>2
    <3>2. b + 1 \in 1..(Len(f) + 1) /\ Len(f) \in (b + 1 - 1)..Len(f)
      BY <1>2, <2>2, <2>8
    <3> DEFINE c == k - 1
               d == b + 1
    <3>3. rest = SubSeq(f, d, Len(f)) /\ d \in 1..(Len(f) + 1) /\ Len(f) \in (d - 1)..Len(f)
      <4> HIDE DEF rest
      <4>1. rest = SubSeq(f, d, Len(f))
        BY <2>10
      <4>2. d \in 1..(Len(f) + 1) /\ Len(f) \in (d - 1)..Len(f)
        BY <3>2
      <4> QED BY <4>1, <4>2
    <3>4. head = SubSeq(f, 1, c) /\ c \in (1 - 1)..Len(f)
      BY <3>1
    <3> HIDE DEF c, d, head, rest
    <3>5. SubSeq(f, d, Len(f)) \in Seq(AllLines)
      BY <1>2, <3>3, SubLines
    <3>6. SubSeq(f, 1, c) \in Seq(AllLines)
      BY <1>2, <3>1, <3>4, SubLines
    <3> QED BY <3>3, <3>4, <3>5, <3>6
  <2>13. head \o <<>> = head
    BY <2>12, ConcatEmptySeq
  <2>14. f[k].in \in Nat
    <3>1. f[k] \in AllLines
      BY <1>2, <2>2
    <3> QED BY <3>1, LineIn
  <2> HIDE DEF head, rest
  <2>15. g \in Seq(AllLines) /\ SameButIn(head \o rest, g)
    BY <2>12, <2>14, IndentedLines
  <2>16. Piece(head \o rest, T, linked)
    BY <2>9, <2>11, <2>13
  <2> HIDE DEF g
  <2> QED BY <2>15, <2>16, PieceSameButIn
<1> HIDE DEF g, k, end
<1> QED BY <1>1, <1>6

\* live-inject, with --port or --remove, leaves a piece.
LEMMA PieceInjected ==
  ASSUME NEW f, NEW T, NEW linked, Piece(f, T, linked), NEW port \in Ports, NEW where
  PROVE  /\ Piece(Injected(f, port, where), T, linked)
         /\ Piece(RevertCspMeta(RemoveTag(f)), T, linked)
<1> DEFINE without == RevertCspMeta(RemoveTag(f))
           with == InsertTag(without, port, where)
<1>1. Injected(f, port, where) = IF with = without THEN f ELSE PatchCspMeta(with, port)
  BY DEF Injected
<1>2. Piece(without, T, linked)
  BY PieceRemoved, PieceReverted
<1> HIDE DEF without
<1>3. Piece(with, T, linked)
  BY <1>2, PieceInserted
<1> HIDE DEF with
<1>4. Piece(PatchCspMeta(with, port), T, linked)
  BY <1>3, PiecePatched
<1> QED BY <1>1, <1>2, <1>4 DEF without

-----------------------------------------------------------------------------
(* Every file is a piece, of the sessions that have been wrapped *)

Started == {s \in Sessions : phase[s] # "new"}
Linking(f) == f \in Jsx \ Generated

\* The generated file is a copy of the page, whose markers need no link.
NestInv ==
  /\ project \in [Files -> Seq(AllLines)]
  /\ phase \in [Sessions -> {"new", "wrapped", "shown", "closed"}]
  /\ chosen \in [Sessions -> 0..Variants]
  /\ builds \in 0..MaxBuilds
  /\ \A f \in Files : Piece(project[f], Started, Linking(f))

\* At first the files are the author's.
LEMMA NestInit == Init => NestInv
<1>1. SUFFICES ASSUME Init PROVE NestInv
  OBVIOUS
<1>2. project \in [Files -> Seq(AuthorsLines)] /\ \A f \in Files : Nests(project[f])
  BY <1>1, SourceAssumption DEF Init
<1>3. \A f \in Files : Piece(project[f], Started, Linking(f))
  BY <1>2, PieceAuthors
<1>4. project \in [Files -> Seq(AllLines)]
  BY <1>2, <1>3 DEF Piece
<1>5. /\ phase \in [Sessions -> {"new", "wrapped", "shown", "closed"}]
      /\ chosen \in [Sessions -> 0..Variants] /\ builds \in 0..MaxBuilds
  BY <1>1, ConstantsAssumption DEF Init
<1> QED BY <1>3, <1>4, <1>5 DEF NestInv

AllPieces(p, T) ==
  p \in [Files -> Seq(AllLines)] /\ \A h \in Files : Piece(p[h], T, Linking(h))

\* One file is written.
LEMMA OneWritten ==
  ASSUME NEW p, NEW T, AllPieces(p, T), NEW f \in Files, NEW g, NEW U, T \subseteq U,
         Piece(g, U, Linking(f)), NEW r, r = [p EXCEPT ![f] = g]
  PROVE  AllPieces(r, U)
<1>1. g \in Seq(AllLines)
  BY DEF Piece
<1>2. p \in [Files -> Seq(AllLines)] /\ \A h \in Files : Piece(p[h], T, Linking(h))
  BY DEF AllPieces
<1>3. r \in [Files -> Seq(AllLines)] /\ r[f] = g /\ \A h \in Files : h # f => r[h] = p[h]
  BY <1>1, <1>2
<1>4. ASSUME NEW h \in Files PROVE Piece(r[h], U, Linking(h))
  <2>1. CASE h = f
    BY <1>3, <2>1
  <2>2. CASE h # f
    <3>1. Piece(p[h], U, Linking(h))
      BY <1>2, PieceMore
    <3> QED BY <1>3, <2>2, <3>1
  <2> QED BY <2>1, <2>2
<1> QED BY <1>3, <1>4 DEF AllPieces

\* What live-wrap picks is a tag with all that is inside.
LEMMA MatchFound ==
  ASSUME NEW f \in Seq(AllLines), NEW e \in Elements, NEW text, NEW r \in Match(f, Candidates(f, e), text)
  PROVE  \E k \in 1..Len(f) : /\ r = <<k, ClosingLine(f, k)>>
                              /\ Opens(f[k]) \notin {"nothing", "script", "style", "meta"}
<1>1. r \in Candidates(f, e)
  <2> DEFINE cs == Candidates(f, e)
  <2> HIDE DEF cs
  <2>1. Match(f, cs, text) \subseteq cs
    BY DEF Match, FilterByText
  <2> QED BY <2>1 DEF cs
<1>2. PICK c \in Lines(f, 1, Len(f), LAMBDA l : HasClass(l, ClassOf[e])) :
        /\ OpenerLine(f, c, TagOf[e]) # 0
        /\ r = <<OpenerLine(f, c, TagOf[e]), ClosingLine(f, OpenerLine(f, c, TagOf[e]))>>
  BY <1>1 DEF Candidates
<1>3. c \in 1..Len(f)
  BY DEF Lines
<1>4. OpenerLine(f, c, TagOf[e]) \in 1..Len(f) /\ Opens(f[OpenerLine(f, c, TagOf[e])]) = TagOf[e]
  BY <1>2, <1>3, OpenerFound
<1>5. TagOf[e] \notin {"nothing", "script", "style", "meta"}
  BY ConstantsAssumption
<1> QED BY <1>2, <1>4, <1>5

\* live-wrap wraps a whole tag.
LEMMA WrapNests ==
  ASSUME NestInv, NEW s \in Sessions, NEW f \in Files, NEW e \in Elements, NEW text, Wrap(s, f, e, text)
  PROVE  NestInv'
<1> DEFINE p == project
           T == Started
           U == T \cup {s}
           jsx == f \in Jsx
<1>1. /\ p \in [Files -> Seq(AllLines)] /\ \A h \in Files : Piece(p[h], T, Linking(h))
  BY DEF NestInv
<1>2. phase[s] = "new" /\ phase' = [phase EXCEPT ![s] = "wrapped"] /\ chosen' = chosen /\ builds' = builds
  BY DEF Wrap
<1>3. Started' = U /\ s \notin T
  BY <1>2 DEF Started, NestInv
<1>4. Linking(f) = jsx /\ jsx \in BOOLEAN
  BY DEF Wrap, IsGenerated, Linking
<1>5. PICK r \in Match(p[f], Candidates(p[f], e), text) :
        project' = [p EXCEPT ![f] =
          Spliced(p[f], r, Wrapper(s, SubSeq(p[f], r[1], r[2]), p[f][r[1]].in, f \in Jsx))]
  BY DEF Wrap
<1> HIDE DEF p, T, U
<1>6. p[f] \in Seq(AllLines)
  BY <1>1
<1> DEFINE q == p[f]
<1>7. PICK k \in 1..Len(q) : r = <<k, ClosingLine(q, k)>> /\ Opens(q[k]) \notin {"nothing", "script", "style", "meta"}
  BY <1>5, <1>6, MatchFound
<1>8. Piece(q, T, jsx)
  BY <1>1, <1>4
<1> HIDE DEF q, jsx
<1> DEFINE g == Spliced(q, <<k, ClosingLine(q, k)>>, Wrapper(s, SubSeq(q, k, ClosingLine(q, k)), q[k].in, jsx))
<1>9. Piece(g, U, jsx)
  BY <1>3, <1>4, <1>7, <1>8, PieceWrapped DEF U
<1>10. project' = [p EXCEPT ![f] = g]
  BY <1>5, <1>7 DEF q, jsx
<1> HIDE DEF g
<1>11. T \subseteq U
  BY DEF U
<1>12. Piece(g, U, Linking(f))
  BY <1>4, <1>9
<1>17. AllPieces(p, T)
  BY <1>1 DEF AllPieces
<1>18. AllPieces(project', U)
  BY <1>10, <1>11, <1>12, <1>17, OneWritten
<1>13. project' \in [Files -> Seq(AllLines)] /\ \A h \in Files : Piece(project'[h], U, Linking(h))
  BY <1>18 DEF AllPieces
<1>14. phase' \in [Sessions -> {"new", "wrapped", "shown", "closed"}]
  BY <1>2 DEF NestInv
<1>15. chosen' \in [Sessions -> 0..Variants] /\ builds' \in 0..MaxBuilds
  BY <1>2 DEF NestInv
<1>16. \A h \in Files : Piece(project'[h], Started', Linking(h))
  BY <1>3, <1>13
<1> QED BY <1>13, <1>14, <1>15, <1>16 DEF NestInv, Linking

\* A session that has been started stays so.
LEMMA StillStarted ==
  ASSUME NestInv, NEW s \in Sessions, NEW x \in {"shown", "closed"}, phase' = [phase EXCEPT ![s] = x]
  PROVE  /\ Started \subseteq Started'
         /\ phase' \in [Sessions -> {"new", "wrapped", "shown", "closed"}]
BY DEF NestInv, Started

\* A step that leaves one file a piece, and wraps nothing, keeps the invariant.
LEMMA OneNests ==
  ASSUME NestInv, Started \subseteq Started',
         phase' \in [Sessions -> {"new", "wrapped", "shown", "closed"}],
         chosen' \in [Sessions -> 0..Variants], builds' \in 0..MaxBuilds,
         NEW f \in Files, NEW g, project' = [project EXCEPT ![f] = g], Piece(g, Started, Linking(f))
  PROVE  NestInv'
<1> DEFINE p == project
           T == Started
           U == Started'
           r == project'
<1>1. AllPieces(p, T)
  BY DEF NestInv, AllPieces
<1>2. T \subseteq U
  OBVIOUS
<1>3. Piece(g, U, Linking(f))
  BY PieceMore
<1>4. r = [p EXCEPT ![f] = g]
  OBVIOUS
<1> HIDE DEF p, T, U, r
<1>5. AllPieces(r, U)
  BY <1>1, <1>2, <1>3, <1>4, OneWritten
<1>6. project' \in [Files -> Seq(AllLines)] /\ \A h \in Files : Piece(project'[h], U, Linking(h))
  BY <1>5 DEF AllPieces, r
<1> QED BY <1>6 DEF NestInv, Linking, U

\* The agent's variants are whole elements.
LEMMA WriteNests ==
  ASSUME NestInv, NEW s \in Sessions, NEW css \in BOOLEAN, WriteVariants(s, css)
  PROVE  NestInv'
<1>1. PICK f \in Files \ Generated :
       \E k \in Lines(project[f], 1, Len(project[f]), LAMBDA l : l.kind = "insert" /\ l.by = s),
          slot \in Lines(project[f], 1, Len(project[f]),
                        LAMBDA l : l.kind = "variant" /\ l.by = s /\ l.n = 0) :
         LET in == project[f][k].in
             style == Enclosed(Mark("style", s, in), <<Mark("css", s, in + 1)>>, Mark("styleEnd", s, in))
             variants == [n \in 1..Variants |-> Variant(project[f], s, n, slot, in)]
         IN project' = [project EXCEPT ![f] =
              Spliced(@, <<k, k>>, <<@[k]>> \o (IF css THEN style ELSE <<>>) \o FlattenSeq(variants))]
  BY Zenon DEF WriteVariants
<1> DEFINE q == project[f]
           jsx == f \in Jsx
<1>2. PICK k \in Lines(q, 1, Len(q), LAMBDA l : l.kind = "insert" /\ l.by = s),
           slot \in Lines(q, 1, Len(q), LAMBDA l : l.kind = "variant" /\ l.by = s /\ l.n = 0) :
         LET in == q[k].in
             style == Enclosed(Mark("style", s, in), <<Mark("css", s, in + 1)>>, Mark("styleEnd", s, in))
             variants == [n \in 1..Variants |-> Variant(q, s, n, slot, in)]
         IN project' = [project EXCEPT ![f] =
              Spliced(q, <<k, k>>, <<q[k]>> \o (IF css THEN style ELSE <<>>) \o FlattenSeq(variants))]
  BY <1>1
<1>3. Piece(q, Started, jsx) /\ Linking(f) = jsx /\ jsx \in BOOLEAN
  BY DEF NestInv, Linking
<1> HIDE DEF q, jsx
<1>4. k \in 1..Len(q) /\ q[k].kind = "insert" /\ slot \in 1..Len(q) /\ q[slot].kind = "variant"
  BY DEF Lines
<1> DEFINE in == q[k].in
           style == Enclosed(Mark("style", s, in), <<Mark("css", s, in + 1)>>, Mark("styleEnd", s, in))
           variants == [n \in 1..Variants |-> Variant(q, s, n, slot, in)]
           g == Spliced(q, <<k, k>>, <<q[k]>> \o (IF css THEN style ELSE <<>>) \o FlattenSeq(variants))
<1>5. project' = [project EXCEPT ![f] = g]
  BY <1>2
<1>6. Piece(g, Started, jsx)
  BY <1>3, <1>4, PieceWritten
<1> HIDE DEF g
<1>7. Piece(g, Started, Linking(f))
  BY <1>3, <1>6
<1>8. phase' = [phase EXCEPT ![s] = "shown"] /\ chosen' = chosen /\ builds' = builds
  BY DEF WriteVariants
<1>9. chosen' \in [Sessions -> 0..Variants] /\ builds' \in 0..MaxBuilds
  BY <1>8 DEF NestInv
<1> QED BY <1>5, <1>7, <1>8, <1>9, StillStarted, OneNests

\* live-accept replaces a whole wrapper by the inside of a whole variant.
LEMMA AcceptNests ==
  ASSUME NestInv, NEW s \in Sessions, NEW n \in 1..Variants, Accept(s, n)
  PROVE  NestInv'
<1>1. PICK f \in SessionFile(s) :
        \E block \in MarkerBlock(project[f], s) :
          \E variant \in Inner(Stripped(SubSeq(project[f], block[1], block[2])), n) :
            LET range == ReplaceRange(project[f], block, f \in Jsx)
            IN
            /\ ~IsGenerated(f)
            /\ project' = [project EXCEPT ![f] =
                 Spliced(@, range, Replacement(s, n, Trimmed(variant), Css(@, block, s), @[range[1]].in))]
            /\ phase' = [phase EXCEPT ![s] = "closed"]
            /\ chosen' = [chosen EXCEPT ![s] = n]
            /\ UNCHANGED <<picked, insert, builds>>
  BY Zenon DEF Accept
<1> DEFINE q == project[f]
           jsx == f \in Jsx
<1>10. PICK block \in MarkerBlock(q, s) :
        \E variant \in Inner(Stripped(SubSeq(q, block[1], block[2])), n) :
          /\ ~IsGenerated(f)
          /\ project' = [project EXCEPT ![f] =
               Spliced(q, ReplaceRange(q, block, jsx),
                 Replacement(s, n, Trimmed(variant), Css(q, block, s), q[ReplaceRange(q, block, jsx)[1]].in))]
          /\ phase' = [phase EXCEPT ![s] = "closed"]
          /\ chosen' = [chosen EXCEPT ![s] = n]
          /\ builds' = builds
  BY <1>1
<1>2. PICK variant \in Inner(Stripped(SubSeq(q, block[1], block[2])), n) :
        /\ ~IsGenerated(f)
        /\ project' = [project EXCEPT ![f] =
             Spliced(q, ReplaceRange(q, block, jsx),
               Replacement(s, n, Trimmed(variant), Css(q, block, s), q[ReplaceRange(q, block, jsx)[1]].in))]
        /\ phase' = [phase EXCEPT ![s] = "closed"]
        /\ chosen' = [chosen EXCEPT ![s] = n]
        /\ builds' = builds
  BY <1>10
<1>3. f \in Files /\ Piece(q, Started, jsx) /\ Linking(f) = jsx /\ jsx \in BOOLEAN
  BY <1>2 DEF NestInv, Linking, IsGenerated, SessionFile
<1> HIDE DEF q, jsx
<1> DEFINE range == ReplaceRange(q, block, jsx)
           g == Spliced(q, range, Replacement(s, n, Trimmed(variant), Css(q, block, s), q[range[1]].in))
<1>4. project' = [project EXCEPT ![f] = g]
  BY <1>2
<1>5. n \in 0..Variants
  BY ConstantsAssumption
<1>6. Piece(g, Started, jsx)
  BY <1>2, <1>3, <1>5, PieceAccepted
<1> HIDE DEF g
<1>7. Piece(g, Started, Linking(f))
  BY <1>3, <1>6
<1>8. chosen' \in [Sessions -> 0..Variants] /\ builds' \in 0..MaxBuilds
  BY <1>2, <1>5 DEF NestInv
<1>9. phase' = [phase EXCEPT ![s] = "closed"]
  BY <1>2
<1> QED BY <1>3, <1>4, <1>7, <1>8, <1>9, StillStarted, OneNests

\* live-accept --discard replaces a whole wrapper by the original.
LEMMA DiscardNests ==
  ASSUME NestInv, NEW s \in Sessions, Discard(s)
  PROVE  NestInv'
<1>1. PICK f \in SessionFile(s) :
        \E block \in MarkerBlock(project[f], s) :
          LET range == ReplaceRange(project[f], block, f \in Jsx)
              inner == Inner(Stripped(SubSeq(project[f], block[1], block[2])), 0)
              original == IF inner = {} THEN <<>> ELSE CHOOSE ls \in inner : TRUE
          IN
          /\ ~IsGenerated(f)
          /\ project' = [project EXCEPT ![f] = Spliced(@, range, Reindented(original, @[range[1]].in))]
          /\ phase' = [phase EXCEPT ![s] = "closed"]
          /\ UNCHANGED <<chosen, picked, insert, builds>>
  BY Zenon DEF Discard
<1> DEFINE q == project[f]
           jsx == f \in Jsx
<1>2. PICK block \in MarkerBlock(q, s) :
        LET range == ReplaceRange(q, block, jsx)
            inner == Inner(Stripped(SubSeq(q, block[1], block[2])), 0)
            original == IF inner = {} THEN <<>> ELSE CHOOSE ls \in inner : TRUE
        IN
        /\ ~IsGenerated(f)
        /\ project' = [project EXCEPT ![f] = Spliced(q, range, Reindented(original, q[range[1]].in))]
        /\ phase' = [phase EXCEPT ![s] = "closed"]
        /\ chosen' = chosen /\ builds' = builds
  BY <1>1
<1>3. f \in Files /\ Piece(q, Started, jsx) /\ Linking(f) = jsx /\ jsx \in BOOLEAN
  BY <1>2 DEF NestInv, Linking, IsGenerated, SessionFile
<1> HIDE DEF q, jsx
<1> DEFINE range == ReplaceRange(q, block, jsx)
           inner == Inner(Stripped(SubSeq(q, block[1], block[2])), 0)
           original == IF inner = {} THEN <<>> ELSE CHOOSE ls \in inner : TRUE
           g == Spliced(q, range, Reindented(original, q[range[1]].in))
<1>4. project' = [project EXCEPT ![f] = g]
  BY <1>2
<1>5. Piece(g, Started, jsx)
  BY <1>2, <1>3, PieceDiscarded
<1> HIDE DEF g
<1>6. Piece(g, Started, Linking(f))
  BY <1>3, <1>5
<1>7. chosen' \in [Sessions -> 0..Variants] /\ builds' \in 0..MaxBuilds
  BY <1>2 DEF NestInv
<1>8. phase' = [phase EXCEPT ![s] = "closed"]
  BY <1>2
<1> QED BY <1>3, <1>4, <1>6, <1>7, <1>8, StillStarted, OneNests

\* The agent takes the carbon block and the tag around the variant, both with
\* their ends.
LEMMA CleanNests ==
  ASSUME NestInv, NEW s \in Sessions, CleanUp(s)
  PROVE  NestInv'
<1>1. PICK f \in Files \ Generated :
        \E k \in Lines(project[f], 1, Len(project[f]), LAMBDA l : l.kind = "carbonStart" /\ l.by = s) :
          \E tag \in Lines(project[f], k, Len(project[f]), LAMBDA l : l.kind = "accepted" /\ l.by = s) :
            LET end == First(Lines(project[f], k, tag, LAMBDA l : l.kind = "carbonEnd"), k)
            IN project' = [project EXCEPT ![f] =
                 Picked(@, DOMAIN @ \ ((k..end) \cup {tag, ClosingLine(@, tag)}))]
  BY Zenon DEF CleanUp
<1> DEFINE q == project[f]
<1>2. PICK k \in Lines(q, 1, Len(q), LAMBDA l : l.kind = "carbonStart" /\ l.by = s) :
        \E tag \in Lines(q, k, Len(q), LAMBDA l : l.kind = "accepted" /\ l.by = s) :
          LET end == First(Lines(q, k, tag, LAMBDA l : l.kind = "carbonEnd"), k)
          IN project' = [project EXCEPT ![f] =
               Picked(q, DOMAIN q \ ((k..end) \cup {tag, ClosingLine(q, tag)}))]
  BY <1>1
<1>3. PICK tag \in Lines(q, k, Len(q), LAMBDA l : l.kind = "accepted" /\ l.by = s) :
        LET end == First(Lines(q, k, tag, LAMBDA l : l.kind = "carbonEnd"), k)
        IN project' = [project EXCEPT ![f] =
             Picked(q, DOMAIN q \ ((k..end) \cup {tag, ClosingLine(q, tag)}))]
  BY <1>2
<1>4. f \in Files /\ Piece(q, Started, Linking(f))
  BY DEF NestInv
<1> HIDE DEF q
<1> DEFINE end == First(Lines(q, k, tag, LAMBDA l : l.kind = "carbonEnd"), k)
           g == Picked(q, DOMAIN q \ ((k..end) \cup {tag, ClosingLine(q, tag)}))
<1>5. project' = [project EXCEPT ![f] = g]
  BY <1>3
<1>6. Piece(g, Started, Linking(f))
  <2>1. k \in 1..Len(q) /\ q[k].kind = "carbonStart" /\ tag \in k..Len(q) /\ q[tag].kind = "accepted"
    <3>1. q \in Seq(AllLines)
      BY <1>4 DEF Piece
    <3>2. Len(q) \in Nat
      BY <3>1
    <3>3. tag \in k..Len(q) /\ q[tag].kind = "accepted"
      BY DEF Lines
    <3> QED BY <3>3 DEF Lines
  <2>2. end = First({i \in k..tag : i \in DOMAIN q /\ q[i].kind = "carbonEnd"}, k)
    BY DEF Lines
  <2> HIDE DEF end
  <2> QED BY <1>4, <2>1, <2>2, PieceCleaned
<1> HIDE DEF g
<1>7. phase' = phase /\ chosen' = chosen /\ builds' = builds
  BY DEF CleanUp
<1>8. /\ Started \subseteq Started'
      /\ phase' \in [Sessions -> {"new", "wrapped", "shown", "closed"}]
      /\ chosen' \in [Sessions -> 0..Variants] /\ builds' \in 0..MaxBuilds
  BY <1>7 DEF NestInv, Started
<1> QED BY <1>4, <1>5, <1>6, <1>8, OneNests

\* A build copies a page to a generated file.
LEMMA BuildNests ==
  ASSUME NestInv, Build
  PROVE  NestInv'
<1> DEFINE g == project[Page]
<1>1. project' = [project EXCEPT ![Output] = g] /\ phase' = phase /\ chosen' = chosen
      /\ builds' = builds + 1 /\ builds < MaxBuilds
  BY DEF Build
<1>2. Output \in Files /\ Page \in Files /\ ~Linking(Output) /\ MaxBuilds \in Nat
  BY ConstantsAssumption DEF Linking
<1>3. Piece(g, Started, Linking(Page))
  BY <1>2 DEF NestInv
<1> HIDE DEF g
<1>4. Piece(g, Started, Linking(Output))
  BY <1>2, <1>3, PieceMore
<1>5. builds \in 0..MaxBuilds
  BY DEF NestInv
<1>6. builds' \in 0..MaxBuilds
  BY <1>1, <1>2, <1>5
<1>7. /\ Started \subseteq Started'
      /\ phase' \in [Sessions -> {"new", "wrapped", "shown", "closed"}]
      /\ chosen' \in [Sessions -> 0..Variants]
  BY <1>1 DEF NestInv, Started
<1> QED BY <1>1, <1>2, <1>4, <1>6, <1>7, OneNests

\* live-inject --port writes a piece into each configured file.
LEMMA InjectNests ==
  ASSUME NestInv, NEW port \in Ports, Inject(port)
  PROVE  NestInv'
<1>1. phase' = phase /\ chosen' = chosen /\ builds' = builds
      /\ project' = [f \in Files |-> IF f \in Configured THEN Injected(project[f], port, insert) ELSE project[f]]
  BY DEF Inject
<1>2. \A f \in Files : Piece(project'[f], Started, Linking(f))
  <2>1. SUFFICES ASSUME NEW f \in Files PROVE Piece(project'[f], Started, Linking(f))
    OBVIOUS
  <2>2. Piece(project[f], Started, Linking(f))
    BY DEF NestInv
  <2>3. Piece(Injected(project[f], port, insert), Started, Linking(f))
    BY <2>2, PieceInjected
  <2>4. project'[f] = IF f \in Configured THEN Injected(project[f], port, insert) ELSE project[f]
    BY <1>1
  <2> QED BY <2>2, <2>3, <2>4
<1>3. project' \in [Files -> Seq(AllLines)]
  <2>1. \A f \in Files : project'[f] \in Seq(AllLines)
    BY <1>2 DEF Piece
  <2>2. project' = [f \in Files |-> project'[f]]
    BY <1>1
  <2> QED BY <2>1, <2>2
<1>4. Started' = Started
  BY <1>1 DEF Started
<1> QED BY <1>1, <1>2, <1>3, <1>4 DEF NestInv, Linking

\* live-inject --remove leaves a piece of each configured file.
LEMMA RemoveNests ==
  ASSUME NestInv, RemoveAll
  PROVE  NestInv'
<1>1. phase' = phase /\ chosen' = chosen /\ builds' = builds
      /\ project' = [f \in Files |-> IF f \in Configured THEN RevertCspMeta(RemoveTag(project[f])) ELSE project[f]]
  BY DEF RemoveAll
<1>2. \A f \in Files : Piece(project'[f], Started, Linking(f))
  <2>1. SUFFICES ASSUME NEW f \in Files PROVE Piece(project'[f], Started, Linking(f))
    OBVIOUS
  <2>2. Piece(project[f], Started, Linking(f))
    BY DEF NestInv
  <2>3. Piece(RevertCspMeta(RemoveTag(project[f])), Started, Linking(f))
    BY <2>2, PieceRemoved, PieceReverted
  <2>4. project'[f] = IF f \in Configured THEN RevertCspMeta(RemoveTag(project[f])) ELSE project[f]
    BY <1>1
  <2> QED BY <2>2, <2>3, <2>4
<1>3. project' \in [Files -> Seq(AllLines)]
  <2>1. \A f \in Files : project'[f] \in Seq(AllLines)
    BY <1>2 DEF Piece
  <2>2. project' = [f \in Files |-> project'[f]]
    BY <1>1
  <2> QED BY <2>1, <2>2
<1>4. Started' = Started
  BY <1>1 DEF Started
<1> QED BY <1>1, <1>2, <1>3, <1>4 DEF NestInv, Linking

\* Every step of live-wrap, of the agent, of live-accept, of live-inject and
\* of the build leaves every file a piece.
THEOREM FilesStayPieces == Spec => []NestInv
<1>1. Init => NestInv
  BY NestInit
<1>2. NestInv /\ [Next]_vars => NestInv'
  <2>1. SUFFICES ASSUME NestInv, [Next]_vars PROVE NestInv'
    OBVIOUS
  <2>2. ASSUME NEW s \in Sessions, NEW f \in Files, NEW e \in Elements, NEW text, Wrap(s, f, e, text)
        PROVE  NestInv'
    BY <2>1, <2>2, WrapNests
  <2>3. ASSUME NEW s \in Sessions, NEW css \in BOOLEAN, WriteVariants(s, css) PROVE NestInv'
    BY <2>1, <2>3, WriteNests
  <2>4. ASSUME NEW s \in Sessions, Discard(s) PROVE NestInv'
    BY <2>1, <2>4, DiscardNests
  <2>5. ASSUME NEW s \in Sessions, CleanUp(s) PROVE NestInv'
    BY <2>1, <2>5, CleanNests
  <2>6. ASSUME NEW s \in Sessions, NEW n \in 1..Variants, Accept(s, n) PROVE NestInv'
    BY <2>1, <2>6, AcceptNests
  <2>7. ASSUME NEW port \in Ports, Inject(port) PROVE NestInv'
    BY <2>1, <2>7, InjectNests
  <2>8. CASE RemoveAll
    BY <2>1, <2>8, RemoveNests
  <2>9. CASE Build
    BY <2>1, <2>9, BuildNests
  <2>10. CASE UNCHANGED vars
    BY <2>1, <2>10 DEF vars, NestInv, Started, Linking
  <2> QED BY <2>1, <2>2, <2>3, <2>4, <2>5, <2>6, <2>7, <2>8, <2>9, <2>10 DEF Next
<1> QED BY <1>1, <1>2, PTL DEF Spec

\* Files are sequences of the lines that the scripts and the author write,
\* whatever is cut and pasted; a line's indentation is never negative.
THEOREM FilesTyped == Spec => []TypeOK
<1>1. NestInv => TypeOK
  BY DEF NestInv, TypeOK
<1> QED BY <1>1, FilesStayPieces, PTL

\* Every script leaves every file with all its tags closed, in whatever
\* order the sessions come, one wrapper inside another included: finding the
\* end of a tag by counting finds the end that it has.
THEOREM ScriptsKeepTagsNested == Spec => []TagsNest
<1>1. NestInv => TagsNest
  <2>1. SUFFICES ASSUME NestInv, NEW f \in Files PROVE Nests(project[f])
    BY DEF TagsNest
  <2>2. Piece(project[f], Started, Linking(f))
    BY <2>1 DEF NestInv
  <2> QED BY <2>2, PairsNest DEF Piece
<1> QED BY <1>1, FilesStayPieces, PTL

=============================================================================
