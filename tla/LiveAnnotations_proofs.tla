----------------------- MODULE LiveAnnotations_proofs -----------------------
(***************************************************************************)
(* The annotation layer keeps its indices and its notes in order, for any  *)
(* number of pins and strokes.                                             *)
(*                                                                         *)
(* Three places hold the index of a pin across handlers: the pointer, the  *)
(* input and the last click.  The list is spliced under them whenever a    *)
(* note is left empty or a pin is clicked twice.  What keeps them right is *)
(* that never two of the three speak of different pins at a time when the  *)
(* list can be spliced.                                                    *)
(***************************************************************************)
EXTENDS LiveAnnotations, SequenceTheorems, TLAPS

Comment == [id : 1..MaxPins, text : BOOLEAN]

\* The list without its pin i: one shorter, the pins behind i moved up.
LEMMA RemoveAtFacts ==
  ASSUME NEW S, NEW s \in Seq(S), NEW i \in 1..Len(s)
  PROVE  /\ RemoveAt(s, i) \in Seq(S)
         /\ Len(RemoveAt(s, i)) = Len(s) - 1
         /\ \A k \in 1..(Len(s) - 1) : RemoveAt(s, i)[k] = IF k < i THEN s[k] ELSE s[k + 1]
<1>1. /\ SubSeq(s, 1, i - 1) \in Seq(S)
      /\ Len(SubSeq(s, 1, i - 1)) = i - 1
      /\ \A k \in 1..(i - 1) : SubSeq(s, 1, i - 1)[k] = s[k]
  OBVIOUS
<1>2. /\ SubSeq(s, i + 1, Len(s)) \in Seq(S)
      /\ Len(SubSeq(s, i + 1, Len(s))) = Len(s) - i
      /\ \A k \in 1..(Len(s) - i) : SubSeq(s, i + 1, Len(s))[k] = s[i + k]
  OBVIOUS
<1> DEFINE a == SubSeq(s, 1, i - 1)
           b == SubSeq(s, i + 1, Len(s))
<1> HIDE DEF a, b
<1>3. /\ a \o b \in Seq(S)
      /\ Len(a \o b) = Len(a) + Len(b)
      /\ \A k \in 1..(Len(a) + Len(b)) :
           (a \o b)[k] = IF k <= Len(a) THEN a[k] ELSE b[k - Len(a)]
  <2>1. a \in Seq(S) /\ b \in Seq(S)
    BY <1>1, <1>2 DEF a, b
  <2> QED BY <2>1, ConcatProperties
<1>4. RemoveAt(s, i) = a \o b
  BY DEF RemoveAt, a, b
<1>5. Len(a) = i - 1 /\ Len(b) = Len(s) - i
  BY <1>1, <1>2 DEF a, b
<1>6. ASSUME NEW k \in 1..(Len(s) - 1)
      PROVE  (a \o b)[k] = IF k < i THEN s[k] ELSE s[k + 1]
  <2>1. CASE k < i
    BY <2>1, <1>1, <1>3, <1>5 DEF a
  <2>2. CASE ~(k < i)
    <3>1. (a \o b)[k] = b[k - Len(a)]
      BY <2>2, <1>3, <1>5
    <3>2. k - Len(a) \in 1..(Len(s) - i) /\ i + (k - Len(a)) = k + 1
      BY <2>2, <1>5
    <3>3. b[k - Len(a)] = s[i + (k - Len(a))]
      BY <3>2, <1>2 DEF b
    <3> QED BY <2>2, <3>1, <3>2, <3>3
  <2> QED BY <2>1, <2>2
<1>7. Len(s) \in Nat
  BY LenProperties
<1>8. Len(a \o b) = Len(s) - 1
  BY <1>3, <1>5, <1>7
<1> QED
  <2> HIDE DEF a, b
  <2> QED BY <1>3, <1>4, <1>6, <1>8

\* The list with a text for its pin i.
LEMMA NoteFacts ==
  ASSUME NEW s \in Comments, NEW i \in 1..Len(s)
  PROVE  /\ [s EXCEPT ![i].text = TRUE] \in Comments
         /\ Len([s EXCEPT ![i].text = TRUE]) = Len(s)
         /\ [s EXCEPT ![i].text = TRUE][i].text = TRUE
         /\ \A k \in 1..Len(s) : k # i => [s EXCEPT ![i].text = TRUE][k] = s[k]
<1>1. s \in Seq(Comment)
  BY DEF Comments, Comment
<1>2. s[i] \in Comment
  BY <1>1, ElementOfSeq
<1>3. [s[i] EXCEPT !.text = TRUE] \in Comment /\ [s[i] EXCEPT !.text = TRUE].text = TRUE
  BY <1>2 DEF Comment
<1> DEFINE e == [s[i] EXCEPT !.text = TRUE]
<1> HIDE DEF e
<1>4. [s EXCEPT ![i].text = TRUE] = [s EXCEPT ![i] = e]
  BY DEF e
<1>5. /\ [s EXCEPT ![i] = e] \in Seq(Comment)
      /\ Len([s EXCEPT ![i] = e]) = Len(s)
      /\ \A j \in 1..Len(s) : [s EXCEPT ![i] = e][j] = IF j = i THEN e ELSE s[j]
  BY <1>1, <1>3, ExceptSeq DEF e
<1>6. [s EXCEPT ![i] = e][i].text = TRUE
  BY <1>3, <1>5 DEF e
<1>7. [s EXCEPT ![i] = e] \in Comments
  BY <1>5 DEF Comments, Comment
<1> QED BY <1>4, <1>5, <1>6, <1>7, Zenon

-----------------------------------------------------------------------------
(* The invariant *)

\* Cancelling an edit gives back the note that the pin has.
HadIsText == editing # NotEditing => editing.had = comments[editing.idx].text

\* A pin that a second press would delete is the one in the input and the one
\* in hand, if there are any.
OnePin ==
  lastClick.recent =>
    /\ editing # NotEditing => editing.idx = lastClick.idx
    /\ pointer # NoPointer => pointer.kind = "pin" /\ pointer.idx = lastClick.idx

\* No more pins than were made; and Go finds the layer there.
PinsMade == Len(comments) <= made
ReadyMeansActive == state = "CONFIGURING" /\ selected => active

Inv == TypeOK /\ EmptyNoteIsEdited /\ HadIsText /\ OnePin /\ PinsMade /\ ReadyMeansActive

\* What the types say of the three places.
LEMMA Places ==
  ASSUME TypeOK
  PROVE  /\ comments \in Seq(Comment) /\ Len(comments) \in Nat /\ DOMAIN comments = 1..Len(comments)
         /\ editing = NotEditing => editing.idx = 0
         /\ editing # NotEditing =>
              /\ editing.idx \in 1..Len(comments)
              /\ editing.had \in BOOLEAN /\ editing.has \in BOOLEAN
              /\ pointer = NoPointer
         /\ pointer = NoPointer \/ pointer.kind = "new" \/ pointer.kind = "pin"
         /\ pointer.kind = "pin" => pointer # NoPointer /\ pointer.idx \in 1..Len(comments)
         /\ pointer.kind = "new" => pointer # NoPointer
<1>1. comments \in Seq(Comment) /\ Len(comments) \in Nat /\ DOMAIN comments = 1..Len(comments)
  BY LenProperties DEF TypeOK, Comments, Comment
<1>2. /\ editing = NotEditing => editing.idx = 0
      /\ editing # NotEditing =>
              /\ editing.idx \in 1..Len(comments)
              /\ editing.had \in BOOLEAN /\ editing.has \in BOOLEAN
              /\ pointer = NoPointer
  BY <1>1 DEF TypeOK, NotEditing
<1>3. /\ pointer = NoPointer \/ pointer.kind = "new" \/ pointer.kind = "pin"
      /\ pointer.kind = "pin" => pointer # NoPointer /\ pointer.idx \in 1..Len(comments)
      /\ pointer.kind = "new" => pointer # NoPointer
  BY <1>1 DEF TypeOK, NoPointer
<1> QED BY <1>1, <1>2, <1>3

\* finalizeEditingPin leaves a list of comments; while the layer is there,
\* each of them has a text.
LEMMA FinalizedFacts ==
  ASSUME Inv
  PROVE  /\ Finalized(comments, editing) \in Comments
         /\ Len(Finalized(comments, editing)) <= Len(comments)
         /\ active => \A k \in DOMAIN Finalized(comments, editing) :
                        Finalized(comments, editing)[k].text
<1> USE DEF Inv
<1>0. /\ comments \in Seq(Comment) /\ Len(comments) \in Nat /\ DOMAIN comments = 1..Len(comments)
      /\ comments \in Comments
      /\ active => \A k \in 1..Len(comments) : ~comments[k].text => editing.idx = k
  BY Places DEF EmptyNoteIsEdited, TypeOK
<1>1. CASE editing = NotEditing
  BY <1>0, <1>1, Places DEF Finalized
<1>2. CASE editing # NotEditing /\ editing.has
  <2> DEFINE t == [comments EXCEPT ![editing.idx].text = TRUE]
  <2>1. editing.idx \in 1..Len(comments)
    BY <1>2, Places
  <2>2. /\ t \in Comments /\ Len(t) = Len(comments) /\ t[editing.idx].text = TRUE
        /\ \A k \in 1..Len(comments) : k # editing.idx => t[k] = comments[k]
    BY <1>0, <2>1, NoteFacts
  <2>3. Finalized(comments, editing) = t
    BY <1>2 DEF Finalized
  <2> HIDE DEF t
  <2>4. DOMAIN t = 1..Len(comments)
    BY <2>2, LenProperties DEF Comments
  <2>5. active => \A k \in 1..Len(comments) : t[k].text
    BY <1>0, <2>1, <2>2
  <2> QED BY <1>0, <2>2, <2>3, <2>4, <2>5
<1>3. CASE editing # NotEditing /\ ~editing.has
  <2> DEFINE t == RemoveAt(comments, editing.idx)
  <2>1. editing.idx \in 1..Len(comments)
    BY <1>3, Places
  <2>2. /\ t \in Seq(Comment) /\ Len(t) = Len(comments) - 1
        /\ \A k \in 1..(Len(comments) - 1) :
             t[k] = IF k < editing.idx THEN comments[k] ELSE comments[k + 1]
    BY <1>0, <2>1, RemoveAtFacts
  <2>3. Finalized(comments, editing) = t
    BY <1>3 DEF Finalized
  <2> HIDE DEF t
  <2>4. DOMAIN t = 1..(Len(comments) - 1)
    BY <2>2, LenProperties
  <2>5. active => \A k \in 1..(Len(comments) - 1) : t[k].text
    BY <1>0, <2>1, <2>2
  <2>6. t \in Comments
    BY <2>2 DEF Comments, Comment
  <2> QED BY <1>0, <2>2, <2>3, <2>4, <2>5, <2>6
<1> QED BY <1>1, <1>2, <1>3

-----------------------------------------------------------------------------
(* What the actions do *)

LEMMA InitInv == Init => Inv
<1> SUFFICES ASSUME Init PROVE Inv
  OBVIOUS
<1>1. comments \in Comments /\ Len(comments) = 0 /\ DOMAIN comments = {}
  BY EmptySeq DEF Init, Comments
<1>2. sent \in Comments /\ DOMAIN sent = {}
  BY EmptySeq DEF Init, Comments
<1>3. 0 \in 0..MaxPins /\ 0 \in 0..MaxStrokes
  BY BoundsAssumption
<1>4. pointer.kind # "pin"
  BY DEF Init, NoPointer
<1>5. TypeOK
  BY <1>1, <1>2, <1>3, <1>4 DEF Init, TypeOK
<1> QED
  BY <1>1, <1>2, <1>5 DEF Inv, Init, EmptyNoteIsEdited, HadIsText, OnePin, PinsMade, ReadyMeansActive,
                          NoClick, NotEditing

\* The layer is cleared: nothing refers to anything any more.
LEMMA ClearStep ==
  ASSUME Inv, Clear,
         state' \in {"IDLE", "PICKING", "CONFIGURING", "SESSION"},
         pickOn' \in BOOLEAN, selected' \in BOOLEAN, active' \in BOOLEAN,
         sent' \in Comments, \A k \in DOMAIN sent' : sent'[k].text,
         state' = "CONFIGURING" /\ selected' => active'
  PROVE  Inv'
<1>1. comments' \in Comments /\ Len(comments') = 0 /\ DOMAIN comments' = {}
  BY EmptySeq DEF Clear, Comments
<1>2. TypeOK'
  BY <1>1, BoundsAssumption DEF Inv, Clear, TypeOK, NoPointer, NotEditing, NoClick
<1>3. PinsMade'
  BY <1>1, BoundsAssumption DEF Inv, TypeOK, Clear, PinsMade
<1> QED
  BY <1>1, <1>2, <1>3 DEF Inv, Clear, EmptyNoteIsEdited, HadIsText, OnePin, ReadyMeansActive, NoClick, NotEditing

\* The notes and what refers to them stay, and the layer is not shown again.
LEMMA OverlayStep ==
  ASSUME Inv, UNCHANGED <<active, sent, notes, pointer, editing, lastClick>>,
         state' \in {"IDLE", "PICKING", "CONFIGURING", "SESSION"},
         pickOn' \in BOOLEAN, selected' \in BOOLEAN,
         state' = "CONFIGURING" /\ selected' => state = "CONFIGURING" /\ selected
  PROVE  Inv'
<1>1. TypeOK'
  BY DEF Inv, TypeOK, notes
<1> QED
  BY <1>1 DEF Inv, EmptyNoteIsEdited, HadIsText, OnePin, PinsMade, ReadyMeansActive, notes

\* The list becomes cs, in which every note has a text if the layer is there,
\* and there is no input any more.
LEMMA SplicedStep ==
  ASSUME Inv, NEW cs, comments' = cs, editing' = NotEditing,
         cs \in Comments, Len(cs) <= Len(comments),
         active => \A k \in DOMAIN cs : cs[k].text,
         UNCHANGED <<overlay, strokes, made>>,
         pointer' = NoPointer
           \/ (pointer' \in [kind : {"pin"}, idx : 1..MaxPins, pin : 1..MaxPins, moved : BOOLEAN]
               /\ pointer'.idx \in DOMAIN cs /\ (lastClick'.recent => pointer'.idx = lastClick'.idx)),
         lastClick' \in {NoClick} \cup [idx : 1..MaxPins, recent : BOOLEAN]
  PROVE  Inv'
<1>1. Len(comments) \in Nat /\ Len(cs) \in Nat /\ DOMAIN cs = 1..Len(cs)
  BY LenProperties DEF Inv, TypeOK, Comments
<1>2. TypeOK'
  BY <1>1 DEF Inv, TypeOK, overlay, NoPointer
<1>3. PinsMade'
  BY <1>1 DEF Inv, TypeOK, PinsMade
<1>4. EmptyNoteIsEdited'
  BY DEF Inv, EmptyNoteIsEdited, overlay
<1>5. HadIsText' /\ OnePin'
  BY DEF HadIsText, OnePin, NoPointer
<1> QED BY <1>2, <1>3, <1>4, <1>5 DEF Inv, ReadyMeansActive, overlay

LEMMA OverlaySteps ==
  ASSUME Inv, TogglePick \/ EscapePicking \/ BackToPicking
  PROVE  Inv'
<1>1. UNCHANGED <<active, sent, notes, pointer, editing, lastClick>>
  BY DEF TogglePick, EscapePicking, BackToPicking
<1>2. /\ state' \in {"IDLE", "PICKING", "CONFIGURING", "SESSION"}
      /\ pickOn' \in BOOLEAN /\ selected' \in BOOLEAN
      /\ state' = "CONFIGURING" /\ selected' => state = "CONFIGURING" /\ selected
  BY DEF Inv, TypeOK, TogglePick, EscapePicking, BackToPicking
<1> QED BY <1>1, <1>2, OverlayStep

LEMMA ClearSteps ==
  ASSUME Inv, PressClear \/ Choose \/ Dismiss \/ Go
  PROVE  Inv'
<1>1. /\ Clear
      /\ state' \in {"IDLE", "PICKING", "CONFIGURING", "SESSION"}
      /\ pickOn' \in BOOLEAN /\ selected' \in BOOLEAN /\ active' \in BOOLEAN
      /\ state' = "CONFIGURING" /\ selected' => active'
  <2>1. CASE PressClear
    BY <2>1 DEF Inv, TypeOK, ReadyMeansActive, PressClear, overlay
  <2>2. CASE Choose
    BY <2>2 DEF Inv, TypeOK, Choose
  <2>3. CASE Dismiss
    BY <2>3 DEF Inv, TypeOK, Dismiss
  <2>4. CASE Go
    BY <2>4 DEF Inv, TypeOK, Go
  <2> QED BY <2>1, <2>2, <2>3, <2>4
<1>2. sent' \in Comments /\ \A k \in DOMAIN sent' : sent'[k].text
  <2>1. CASE Go
    <3>1. sent' = Finalized(comments, editing) /\ active
      BY <2>1 DEF Go, Inv, ReadyMeansActive
    <3> QED BY <3>1, FinalizedFacts
  <2>2. CASE PressClear \/ Choose \/ Dismiss
    <3>1. sent' = sent
      BY <2>2 DEF PressClear, Choose, Dismiss, overlay
    <3> QED BY <3>1 DEF Inv, TypeOK, EmptyNoteIsEdited
  <2> QED BY <2>1, <2>2
<1> QED BY <1>1, <1>2, ClearStep

\* finalizeEditingPin in a handler that picks up nothing.
LEMMA FinalizeStep ==
  ASSUME Inv, editing # NotEditing,
         comments' = Finalized(comments, editing), editing' = NotEditing,
         UNCHANGED <<overlay, strokes, made, pointer>>,
         lastClick' \in {NoClick} \cup [idx : 1..MaxPins, recent : BOOLEAN]
  PROVE  Inv'
<1>1. pointer' = NoPointer
  BY Places DEF Inv
<1> DEFINE cs == Finalized(comments, editing)
<1>2. /\ cs \in Comments /\ Len(cs) <= Len(comments)
      /\ active => \A k \in DOMAIN cs : cs[k].text
  BY FinalizedFacts
<1> HIDE DEF cs
<1>3. comments' = cs
  BY DEF cs
<1> QED BY <1>1, <1>2, <1>3, SplicedStep

LEMMA ClickTyped ==
  ASSUME TypeOK
  PROVE  [lastClick EXCEPT !.recent = FALSE] \in {NoClick} \cup [idx : 1..MaxPins, recent : BOOLEAN]
<1>1. CASE lastClick = NoClick
  <2>1. NoClick \in [idx : {0}, recent : BOOLEAN] /\ NoClick.recent = FALSE
    BY DEF NoClick
  <2>2. [NoClick EXCEPT !.recent = FALSE] \in [idx : {0}, recent : BOOLEAN]
        /\ [NoClick EXCEPT !.recent = FALSE].recent = FALSE
    BY <2>1
  <2>3. \A x \in [idx : {0}, recent : BOOLEAN] : ~x.recent => x = NoClick
    BY DEF NoClick
  <2> QED BY <1>1, <2>2, <2>3
<1>2. CASE lastClick \in [idx : 1..MaxPins, recent : BOOLEAN]
  BY <1>2
<1> QED BY <1>1, <1>2 DEF TypeOK

LEMMA FinalizeActions ==
  ASSUME Inv, Finalize \/ (PressEmpty /\ editing # NotEditing)
  PROVE  Inv'
<1>1. lastClick' \in {NoClick} \cup [idx : 1..MaxPins, recent : BOOLEAN]
  BY ClickTyped DEF Inv, TypeOK, Finalize, PressEmpty
<1> QED BY <1>1, FinalizeStep DEF Finalize, PressEmpty

LEMMA CancelStep ==
  ASSUME Inv, CancelEdit
  PROVE  Inv'
<1>1. /\ comments \in Seq(Comment) /\ comments \in Comments
      /\ Len(comments) \in Nat /\ DOMAIN comments = 1..Len(comments)
      /\ editing # NotEditing /\ editing.idx \in 1..Len(comments) /\ pointer = NoPointer
      /\ active => \A k \in 1..Len(comments) : ~comments[k].text => editing.idx = k
  BY Places DEF Inv, EmptyNoteIsEdited, TypeOK, CancelEdit
<1>2. lastClick' \in {NoClick} \cup [idx : 1..MaxPins, recent : BOOLEAN]
  BY DEF Inv, TypeOK, CancelEdit
<1>3. CASE editing.had
  <2>1. active => \A k \in DOMAIN comments : comments[k].text
    BY <1>1, <1>3 DEF Inv, HadIsText
  <2>2. comments' = comments
    BY <1>3 DEF CancelEdit
  <2> QED BY <1>1, <1>2, <2>1, <2>2, SplicedStep DEF CancelEdit
<1>4. CASE ~editing.had
  <2> DEFINE cs == RemoveAt(comments, editing.idx)
  <2>1. /\ cs \in Seq(Comment) /\ Len(cs) = Len(comments) - 1
        /\ \A k \in 1..(Len(comments) - 1) :
             cs[k] = IF k < editing.idx THEN comments[k] ELSE comments[k + 1]
    BY <1>1, RemoveAtFacts
  <2>2. comments' = cs
    BY <1>4 DEF CancelEdit
  <2> HIDE DEF cs
  <2>3. DOMAIN cs = 1..(Len(comments) - 1)
    BY <2>1, LenProperties
  <2>4. active => \A k \in DOMAIN cs : cs[k].text
    BY <1>1, <2>1, <2>3
  <2>5. cs \in Comments /\ Len(cs) <= Len(comments)
    BY <1>1, <2>1 DEF Comments, Comment
  <2> QED BY <1>1, <1>2, <2>2, <2>4, <2>5, SplicedStep DEF CancelEdit
<1> QED BY <1>3, <1>4

\* Two presses delete the pin that is in the input, if there is one.
LEMMA TwiceStep ==
  ASSUME Inv, NEW j \in DOMAIN comments, PressTwice(j)
  PROVE  Inv'
<1>1. /\ comments \in Seq(Comment) /\ Len(comments) \in Nat /\ j \in 1..Len(comments)
      /\ active /\ pointer = NoPointer /\ lastClick.recent /\ lastClick.idx = j
  BY Places DEF Inv, PressTwice, Pressable
<1>2. editing = NotEditing \/ editing.idx = j
  BY <1>1 DEF Inv, OnePin
<1>3. editing' = NotEditing
  BY <1>2 DEF PressTwice
<1>4. \A k \in 1..Len(comments) : k # j => comments[k].text
  <2>1. editing.idx = 0 \/ editing.idx = j
    BY <1>2, Places DEF Inv
  <2> QED BY <1>1, <2>1, Places DEF Inv, EmptyNoteIsEdited
<1> DEFINE cs == RemoveAt(comments, j)
<1>5. /\ cs \in Seq(Comment) /\ Len(cs) = Len(comments) - 1
      /\ \A k \in 1..(Len(comments) - 1) : cs[k] = IF k < j THEN comments[k] ELSE comments[k + 1]
  BY <1>1, RemoveAtFacts
<1>6. comments' = cs
  BY DEF PressTwice
<1> HIDE DEF cs
<1>7. DOMAIN cs = 1..(Len(comments) - 1)
  BY <1>5, LenProperties
<1>8. \A k \in DOMAIN cs : cs[k].text
  BY <1>1, <1>4, <1>5, <1>7
<1>9. cs \in Comments /\ Len(cs) <= Len(comments)
  BY <1>1, <1>5 DEF Comments, Comment
<1> QED
  <2>1. UNCHANGED <<overlay, strokes, made>> /\ pointer' = NoPointer /\ lastClick' = NoClick
    BY <1>1 DEF PressTwice
  <2> QED BY <1>3, <1>6, <1>8, <1>9, <2>1, SplicedStep

\* A press of a pin: of the one in the input, or of another.
LEMMA PressPinStep ==
  ASSUME Inv, NEW j \in DOMAIN comments, PressPin(j)
  PROVE  Inv'
<1>1. /\ comments \in Seq(Comment) /\ Len(comments) \in Nat /\ j \in 1..Len(comments)
      /\ pointer = NoPointer /\ lastClick' = [idx |-> j, recent |-> TRUE]
      /\ UNCHANGED <<overlay, strokes, made>>
  BY Places DEF Inv, PressPin, Pressable
<1>2. j \in 1..MaxPins
  BY <1>1, BoundsAssumption DEF Inv, TypeOK, PinsMade
<1>3. lastClick' \in {NoClick} \cup [idx : 1..MaxPins, recent : BOOLEAN]
  BY <1>1, <1>2
<1>4. CASE editing.idx = j
  <2>1. UNCHANGED <<comments, editing, pointer>>
    BY <1>4 DEF PressPin
  <2>2. TypeOK'
    BY <1>1, <1>3, <2>1 DEF Inv, TypeOK, overlay
  <2>3. OnePin'
    BY <1>1, <1>4, <2>1 DEF OnePin
  <2> QED BY <1>1, <2>1, <2>2, <2>3
          DEF Inv, EmptyNoteIsEdited, HadIsText, PinsMade, ReadyMeansActive, overlay
<1>5. CASE editing.idx # j
  <2> DEFINE cs == Finalized(comments, editing)
  <2>1. /\ cs \in Comments /\ Len(cs) <= Len(comments)
        /\ active => \A k \in DOMAIN cs : cs[k].text
    BY FinalizedFacts
  <2>2. comments' = cs /\ editing' = NotEditing
        /\ pointer' = IF j \in DOMAIN cs THEN OnPin(j, comments[j].id) ELSE pointer
    BY <1>5 DEF PressPin
  <2> HIDE DEF cs
  <2>3. comments[j].id \in 1..MaxPins
    <3>1. comments[j] \in Comment
      BY <1>1, ElementOfSeq
    <3> QED BY <3>1 DEF Comment
  <2>4. pointer' = NoPointer
           \/ (pointer' \in [kind : {"pin"}, idx : 1..MaxPins, pin : 1..MaxPins, moved : BOOLEAN]
               /\ pointer'.idx \in DOMAIN cs /\ (lastClick'.recent => pointer'.idx = lastClick'.idx))
    BY <1>1, <1>2, <2>2, <2>3 DEF OnPin
  <2> QED BY <1>1, <1>3, <2>1, <2>2, <2>4, SplicedStep
<1> QED BY <1>4, <1>5

\* A press of an empty place with nothing in the input.
LEMMA PressEmptyStep ==
  ASSUME Inv, PressEmpty, editing = NotEditing
  PROVE  Inv'
<1>1. /\ pointer' = OnEmpty /\ lastClick' = [lastClick EXCEPT !.recent = FALSE]
      /\ UNCHANGED <<overlay, notes, editing>>
  BY DEF PressEmpty, notes
<1>2. lastClick' \in {NoClick} \cup [idx : 1..MaxPins, recent : BOOLEAN] /\ ~lastClick'.recent
  BY <1>1, ClickTyped DEF Inv, TypeOK, NoClick
<1>3. pointer' \in [kind : {"new"}, idx : {0}, pin : {0}, moved : BOOLEAN]
  BY <1>1 DEF OnEmpty, NoPointer
<1>4. TypeOK'
  BY <1>1, <1>2, <1>3 DEF Inv, TypeOK, overlay, notes
<1> QED BY <1>1, <1>2, <1>4
        DEF Inv, EmptyNoteIsEdited, HadIsText, OnePin, PinsMade, ReadyMeansActive, overlay, notes

\* Typing, and what leaves the notes and the places alone.
LEMMA QuietSteps ==
  ASSUME Inv, Type \/ PressStroke \/ ClickIsOver
  PROVE  Inv'
<1>1. lastClick' = [lastClick EXCEPT !.recent = FALSE] /\ UNCHANGED <<overlay, comments, made, pointer>>
  BY DEF Type, PressStroke, ClickIsOver, notes
<1>2. lastClick' \in {NoClick} \cup [idx : 1..MaxPins, recent : BOOLEAN] /\ ~lastClick'.recent
  BY <1>1, ClickTyped DEF Inv, TypeOK, NoClick
<1>3. /\ editing' \in {NotEditing} \cup [idx : 1..MaxPins, had : BOOLEAN, has : BOOLEAN]
      /\ editing'.idx = editing.idx
      /\ editing' = NotEditing => editing = NotEditing
      /\ editing' # NotEditing => editing # NotEditing /\ editing'.had = editing.had
  <2>1. CASE Type
    <3>1. editing \in [idx : 1..MaxPins, had : BOOLEAN, has : BOOLEAN]
      BY <2>1 DEF Inv, TypeOK, Type
    <3>2. /\ editing' \in [idx : 1..MaxPins, had : BOOLEAN, has : BOOLEAN]
          /\ editing'.idx = editing.idx /\ editing'.had = editing.had
      BY <2>1, <3>1 DEF Type
    <3> QED BY <2>1, <3>2 DEF Type, NotEditing
  <2>2. CASE PressStroke \/ ClickIsOver
    BY <2>2 DEF Inv, TypeOK, PressStroke, ClickIsOver
  <2> QED BY <2>1, <2>2
<1>4. strokes' \in 0..MaxStrokes
  BY BoundsAssumption DEF Inv, TypeOK, Type, PressStroke, ClickIsOver, notes
<1>5. TypeOK'
  BY <1>1, <1>2, <1>3, <1>4 DEF Inv, TypeOK, overlay
<1> QED BY <1>1, <1>2, <1>3, <1>5
        DEF Inv, EmptyNoteIsEdited, HadIsText, OnePin, PinsMade, ReadyMeansActive, overlay

LEMMA MoveStep ==
  ASSUME Inv, Move
  PROVE  Inv'
<1>1. /\ pointer # NoPointer /\ pointer' = [pointer EXCEPT !.moved = TRUE]
      /\ UNCHANGED <<overlay, notes, editing, lastClick>>
  BY DEF Move
<1>2. /\ pointer' \in [kind : {"new"}, idx : {0}, pin : {0}, moved : BOOLEAN]
                 \cup [kind : {"pin"}, idx : 1..MaxPins, pin : 1..MaxPins, moved : BOOLEAN]
      /\ pointer'.kind = pointer.kind /\ pointer'.idx = pointer.idx
  BY <1>1 DEF Inv, TypeOK
<1>3. editing = NotEditing
  BY <1>1, Places DEF Inv
<1>4. TypeOK'
  BY <1>1, <1>2, <1>3 DEF Inv, TypeOK, overlay, notes
<1> QED BY <1>1, <1>2, <1>3, <1>4
        DEF Inv, EmptyNoteIsEdited, HadIsText, OnePin, PinsMade, ReadyMeansActive, overlay, notes

LEMMA ReleasePinStep ==
  ASSUME Inv, ReleasePin
  PROVE  Inv'
<1>1. /\ comments \in Seq(Comment) /\ DOMAIN comments = 1..Len(comments)
      /\ pointer.kind = "pin" /\ pointer # NoPointer /\ pointer.idx \in 1..Len(comments)
      /\ pointer' = NoPointer /\ UNCHANGED <<overlay, notes>>
      /\ editing = NotEditing
  BY Places DEF Inv, ReleasePin
<1>2. NoPointer.kind = "none"
  BY DEF NoPointer
<1>3. CASE pointer.moved
  <2>1. lastClick' = NoClick /\ editing' = editing
    BY <1>3 DEF ReleasePin
  <2>2. TypeOK'
    BY <1>1, <1>2, <2>1 DEF Inv, TypeOK, overlay, notes
  <2> QED BY <1>1, <2>1, <2>2
        DEF Inv, EmptyNoteIsEdited, HadIsText, OnePin, PinsMade, ReadyMeansActive, overlay, notes, NoClick
<1>4. CASE ~pointer.moved
  <2> DEFINE i == pointer.idx
  <2>1. comments[i] \in Comment
    BY <1>1, ElementOfSeq
  <2>2. /\ lastClick' = lastClick
        /\ editing' = [idx |-> i, had |-> comments[i].text, has |-> comments[i].text]
    BY <1>1, <1>4 DEF ReleasePin, BeginEdit
  <2>3. i \in 1..MaxPins
    BY <1>1 DEF Inv, TypeOK, NoPointer
  <2>4. /\ editing' \in [idx : 1..MaxPins, had : BOOLEAN, has : BOOLEAN]
        /\ editing'.idx = i /\ editing'.had = comments[i].text
    BY <2>1, <2>2, <2>3 DEF Comment
  <2>5. active => \A k \in DOMAIN comments : comments[k].text
    BY <1>1, Places DEF Inv, EmptyNoteIsEdited
  <2>6. TypeOK'
    BY <1>1, <1>2, <2>2, <2>4 DEF Inv, TypeOK, overlay, notes
  <2>7. OnePin'
    BY <1>1, <2>2, <2>4 DEF Inv, OnePin
  <2>8. EmptyNoteIsEdited' /\ HadIsText'
    BY <1>1, <2>4, <2>5 DEF Inv, EmptyNoteIsEdited, HadIsText, overlay, notes
  <2> QED BY <1>1, <2>6, <2>7, <2>8 DEF Inv, PinsMade, ReadyMeansActive, overlay, notes
<1> QED BY <1>3, <1>4

\* A new pin: its note is empty, and is the one in the input.
LEMMA ReleaseNewStep ==
  ASSUME Inv, ReleaseNew
  PROVE  Inv'
<1>1. /\ comments \in Seq(Comment) /\ comments \in Comments
      /\ DOMAIN comments = 1..Len(comments) /\ Len(comments) \in Nat
      /\ pointer.kind = "new" /\ pointer # NoPointer
      /\ pointer' = NoPointer /\ UNCHANGED <<overlay, lastClick>>
      /\ editing = NotEditing /\ ~lastClick.recent
  BY Places DEF Inv, TypeOK, OnePin, ReleaseNew
<1>2. NoPointer.kind = "none"
  BY DEF NoPointer
<1>3. CASE pointer.moved
  <2>1. strokes' = strokes + 1 /\ strokes < MaxStrokes /\ UNCHANGED <<comments, made, editing>>
    BY <1>3 DEF ReleaseNew
  <2>2. strokes' \in 0..MaxStrokes
    BY <2>1, BoundsAssumption DEF Inv, TypeOK
  <2>3. TypeOK'
    BY <1>1, <1>2, <2>1, <2>2 DEF Inv, TypeOK, overlay
  <2> QED BY <1>1, <2>1, <2>3
        DEF Inv, EmptyNoteIsEdited, HadIsText, OnePin, PinsMade, ReadyMeansActive, overlay
<1>4. CASE ~pointer.moved
  <2> DEFINE n == [id |-> made', text |-> FALSE]
             cs == Append(comments, n)
  <2>1. made' = made + 1 /\ made < MaxPins /\ strokes' = strokes /\ made' \in 1..MaxPins
    BY <1>4, BoundsAssumption DEF ReleaseNew, Inv, TypeOK
  <2>2. n \in Comment
    BY <2>1 DEF Comment
  <2>3. n.text = FALSE
    OBVIOUS
  <2> HIDE DEF n
  <2>4. /\ cs \in Seq(Comment) /\ Len(cs) = Len(comments) + 1
        /\ cs[Len(comments) + 1] = n
        /\ \A k \in 1..Len(comments) : cs[k] = comments[k]
    BY <1>1, <2>2, AppendProperties
  <2>5. comments' = cs
    BY <1>4 DEF ReleaseNew, n
  <2>6. editing' = [idx |-> Len(comments) + 1, had |-> n.text, has |-> n.text]
    <3>1. BeginEdit(cs, Len(cs))
      BY <1>4 DEF ReleaseNew, n
    <3>2. Len(cs) \in DOMAIN cs
      BY <1>1, <2>4, LenProperties
    <3> QED BY <2>4, <3>1, <3>2 DEF BeginEdit
  <2> HIDE DEF cs
  <2>7. DOMAIN cs = 1..(Len(comments) + 1)
    BY <2>4, LenProperties
  <2>8. Len(comments) + 1 \in 1..MaxPins
    BY <1>1, <2>1, BoundsAssumption DEF Inv, TypeOK, PinsMade
  <2>9. /\ editing' \in [idx : 1..MaxPins, had : BOOLEAN, has : BOOLEAN]
        /\ editing'.idx = Len(comments) + 1 /\ editing'.had = n.text
    BY <2>3, <2>6, <2>8
  <2>10. cs \in Comments
    BY <2>4 DEF Comments, Comment
  <2>11. TypeOK'
    BY <1>1, <1>2, <2>1, <2>5, <2>7, <2>8, <2>9, <2>10 DEF Inv, TypeOK, overlay
  <2>12. active => \A k \in 1..Len(comments) : comments[k].text
    BY <1>1, Places DEF Inv, EmptyNoteIsEdited
  <2>13. EmptyNoteIsEdited' /\ HadIsText'
    BY <1>1, <2>4, <2>5, <2>7, <2>9, <2>12 DEF Inv, EmptyNoteIsEdited, HadIsText, overlay
  <2>14. PinsMade' /\ OnePin'
    BY <1>1, <2>1, <2>4, <2>5 DEF Inv, TypeOK, PinsMade, OnePin
  <2> QED BY <1>1, <2>11, <2>13, <2>14 DEF Inv, ReadyMeansActive, overlay
<1> QED BY <1>3, <1>4

LEMMA ServerLostStep ==
  ASSUME Inv, ServerLost
  PROVE  Inv'
<1>1. /\ UNCHANGED <<pickOn, sent, notes, pointer, lastClick>>
      /\ editing' = NotEditing /\ selected' = FALSE /\ active' = FALSE
      /\ state' \in {"IDLE", "PICKING", "CONFIGURING", "SESSION"}
  BY DEF Inv, TypeOK, ServerLost
<1>2. TypeOK'
  BY <1>1 DEF Inv, TypeOK, notes
<1> QED BY <1>1, <1>2
        DEF Inv, EmptyNoteIsEdited, HadIsText, OnePin, PinsMade, ReadyMeansActive, notes

-----------------------------------------------------------------------------
(* The theorems *)

LEMMA InvStep == Inv /\ [Next]_vars => Inv'
<1> SUFFICES ASSUME Inv, [Next]_vars PROVE Inv'
  OBVIOUS
<1>1. CASE TogglePick \/ EscapePicking \/ BackToPicking
  BY <1>1, OverlaySteps
<1>2. CASE PressClear \/ Choose \/ Dismiss \/ Go
  BY <1>2, ClearSteps
<1>3. CASE Finalize
  BY <1>3, FinalizeActions
<1>4. CASE PressEmpty
  BY <1>4, FinalizeActions, PressEmptyStep
<1>5. CASE CancelEdit
  BY <1>5, CancelStep
<1>6. CASE Type \/ PressStroke \/ ClickIsOver
  BY <1>6, QuietSteps
<1>7. CASE \E j \in DOMAIN comments : PressPin(j) \/ PressTwice(j)
  BY <1>7, PressPinStep, TwiceStep
<1>8. CASE Move \/ ReleasePin \/ ReleaseNew \/ ServerLost
  BY <1>8, MoveStep, ReleasePinStep, ReleaseNewStep, ServerLostStep
<1>9. CASE UNCHANGED vars
  BY <1>9 DEF vars, overlay, notes, Inv, TypeOK, EmptyNoteIsEdited, HadIsText, OnePin, PinsMade,
              ReadyMeansActive
<1> QED BY <1>1, <1>2, <1>3, <1>4, <1>5, <1>6, <1>7, <1>8, <1>9 DEF Next

LEMMA InvHolds == Spec => []Inv
BY InitInv, InvStep, PTL DEF Spec

\* The indices that the pointer and the input keep across handlers
\* (annotPointer and annotEditing) always refer to a pin of the list, however
\* often it is spliced under them, for any number of pins and strokes.
THEOREM AnnotationsTypeCorrect == Spec => []TypeOK
<1>1. Inv => TypeOK
  BY DEF Inv
<1> QED BY <1>1, InvHolds, PTL

\* While the layer is shown, a note without a text is the one in the input
\* (onAnnotDown, finalizeEditingPin), and handleGo sends no empty note.
THEOREM EmptyNotesAreEdited == Spec => []EmptyNoteIsEdited
<1>1. Inv => EmptyNoteIsEdited
  BY DEF Inv
<1> QED BY <1>1, InvHolds, PTL
=============================================================================
