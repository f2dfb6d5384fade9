-------------------------- MODULE LiveAnnotations --------------------------
(***************************************************************************)
(* Notes and strokes on the chosen element (live-browser.js).  While the   *)
(* overlay is configuring, an annotation layer lies over the element: a    *)
(* click makes a pin with a note, a drag draws a stroke, a drag of a pin   *)
(* moves it, a click on it edits its note, two clicks in short order       *)
(* delete it.  Handlers refer to a pin by its index in the list of         *)
(* comments, and notes that are left empty leave the list.                 *)
(*                                                                         *)
(* There is one pointer.  Positions are left out; a pin has a number that  *)
(* stands for its identity, and its note is empty or not.                  *)
(***************************************************************************)
EXTENDS Naturals, SequencesExt

CONSTANTS
  MaxPins,    \* pins made
  MaxStrokes  \* strokes at a time

ASSUME BoundsAssumption == MaxPins \in Nat /\ MaxStrokes \in Nat

VARIABLES
  state,      \* state: of a session only that there is one
  pickOn,     \* pickActive
  selected,   \* selectedElement is set
  active,     \* annotActive
  comments,   \* annotState.comments
  strokes,    \* the number of annotState.strokes
  pointer,    \* annotPointer
  editing,    \* annotEditing
  lastClick,  \* annotLastPinClick, and whether its time is not over
  made,       \* how many pins there have been
  sent        \* the comments of the last generate

overlay == <<state, pickOn, selected, active, sent>>
notes   == <<comments, strokes, made>>
vars    == <<overlay, notes, pointer, editing, lastClick>>

\* A pin in hand, and which one it was when it was pressed; or an empty place.
NoPointer == [kind |-> "none", idx |-> 0, pin |-> 0, moved |-> FALSE]
OnEmpty == [NoPointer EXCEPT !.kind = "new"]
OnPin(j, pin) == [kind |-> "pin", idx |-> j, pin |-> pin, moved |-> FALSE]

\* The input: whether the note had a text before, and has one now.
NotEditing == [idx |-> 0, had |-> FALSE, has |-> FALSE]

NoClick == [idx |-> 0, recent |-> FALSE]

Init ==
  /\ state = "PICKING" /\ pickOn = TRUE /\ selected = FALSE /\ active = FALSE
  /\ comments = <<>> /\ strokes = 0 /\ made = 0
  /\ pointer = NoPointer /\ editing = NotEditing /\ lastClick = NoClick
  /\ sent = <<>>

-----------------------------------------------------------------------------
(* Editing *)

\* Mutant: a note that is left empty stays.
FinalizedEmpty(cs, e) == IF e = NotEditing THEN cs ELSE [cs EXCEPT ![e.idx].text = e.has]

\* finalizeEditingPin: what becomes of the comments.
Finalized(cs, e) ==
  IF e = NotEditing THEN cs
  ELSE IF e.has THEN [cs EXCEPT ![e.idx].text = TRUE]
  ELSE RemoveAt(cs, e.idx)

\* Enter in the input, or the input loses the focus.
Finalize ==
  /\ editing # NotEditing
  /\ comments' = Finalized(comments, editing)
  /\ editing' = NotEditing
  /\ UNCHANGED <<overlay, strokes, made, pointer, lastClick>>

\* Escape in the input: cancelEditingPin.
CancelEdit ==
  /\ editing # NotEditing
  /\ comments' = IF editing.had THEN comments ELSE RemoveAt(comments, editing.idx)
  /\ editing' = NotEditing
  /\ UNCHANGED <<overlay, strokes, made, pointer, lastClick>>

\* The user types, or deletes what is there: not within a double click.
Type ==
  /\ editing # NotEditing
  /\ editing' = [editing EXCEPT !.has = ~@]
  /\ lastClick' = [lastClick EXCEPT !.recent = FALSE]
  /\ UNCHANGED <<overlay, notes, pointer>>

\* beginEditPin, in the list cs: a pin that is not drawn is left alone.
BeginEdit(cs, j) ==
  editing' = IF j \in DOMAIN cs
             THEN [idx |-> j, had |-> cs[j].text, has |-> cs[j].text] ELSE editing

-----------------------------------------------------------------------------
(* onAnnotDown *)

Pressable == active /\ pointer = NoPointer

\* clearAnnotations.
Clear ==
  /\ comments' = <<>> /\ strokes' = 0
  /\ pointer' = NoPointer /\ editing' = NotEditing /\ lastClick' = NoClick
  /\ UNCHANGED made

PressClear ==
  /\ Pressable
  /\ comments # <<>> \/ strokes > 0
  /\ Clear
  /\ UNCHANGED overlay

PressStroke ==
  /\ Pressable
  /\ strokes > 0
  /\ strokes' = strokes - 1
  /\ lastClick' = [lastClick EXCEPT !.recent = FALSE]
  /\ UNCHANGED <<overlay, comments, made, pointer, editing>>

\* Mutant: the time of the double click runs on.
PressTwiceAgain(j) ==
  /\ Pressable
  /\ j \in DOMAIN comments
  /\ lastClick = [idx |-> j, recent |-> TRUE]
  /\ editing' = IF editing.idx = j THEN NotEditing ELSE editing
  /\ comments' = RemoveAt(comments, j)
  /\ lastClick' = [lastClick EXCEPT !.idx = 0]
  /\ UNCHANGED <<overlay, strokes, made, pointer>>

\* Two presses of the same pin within 300 ms.  Three presses take longer.
PressTwice(j) ==
  /\ Pressable
  /\ j \in DOMAIN comments
  /\ lastClick = [idx |-> j, recent |-> TRUE]
  /\ editing' = IF editing.idx = j THEN NotEditing ELSE editing
  /\ comments' = RemoveAt(comments, j)
  /\ lastClick' = NoClick
  /\ UNCHANGED <<overlay, strokes, made, pointer>>

\* A press of pin j.  An edit of another pin is finalized, which may take it
\* out of the list; what j then refers to is what is picked up, and if it
\* refers to nothing the handler throws.
PressPin(j) ==
  /\ Pressable
  /\ j \in DOMAIN comments
  /\ lastClick # [idx |-> j, recent |-> TRUE]
  /\ lastClick' = [idx |-> j, recent |-> TRUE]
  /\ IF editing.idx = j
     THEN UNCHANGED <<comments, editing, pointer>>
     ELSE /\ comments' = Finalized(comments, editing)
          /\ editing' = NotEditing
          /\ pointer' = IF j \in DOMAIN comments' THEN OnPin(j, comments[j].id) ELSE pointer
  /\ UNCHANGED <<overlay, strokes, made>>

\* The time of a double click is over.
ClickIsOver ==
  /\ lastClick.recent
  /\ lastClick' = [lastClick EXCEPT !.recent = FALSE]
  /\ UNCHANGED <<overlay, notes, pointer, editing>>

\* A press of an empty place finalizes an edit, or else begins a new mark.
PressEmpty ==
  /\ Pressable
  /\ lastClick' = [lastClick EXCEPT !.recent = FALSE]
  /\ IF editing # NotEditing
     THEN comments' = Finalized(comments, editing) /\ editing' = NotEditing /\ UNCHANGED pointer
     ELSE pointer' = OnEmpty /\ UNCHANGED <<comments, editing>>
  /\ UNCHANGED <<overlay, strokes, made>>

-----------------------------------------------------------------------------
(* onAnnotMove and onAnnotUp *)

\* The pointer moves beyond the threshold.
Move ==
  /\ active /\ pointer # NoPointer
  /\ ~pointer.moved
  /\ pointer' = [pointer EXCEPT !.moved = TRUE]
  /\ UNCHANGED <<overlay, notes, editing, lastClick>>

ReleasePin ==
  /\ active /\ pointer.kind = "pin"
  /\ pointer' = NoPointer
  /\ IF pointer.moved
     THEN lastClick' = NoClick /\ UNCHANGED editing
     ELSE BeginEdit(comments, pointer.idx) /\ UNCHANGED lastClick
  /\ UNCHANGED <<overlay, notes>>

\* A new pin is there with an empty note, and is edited.
ReleaseNew ==
  /\ active /\ pointer.kind = "new"
  /\ pointer' = NoPointer
  /\ IF pointer.moved
     THEN strokes < MaxStrokes /\ strokes' = strokes + 1 /\ UNCHANGED <<comments, made, editing>>
     ELSE /\ made < MaxPins
          /\ made' = made + 1
          /\ comments' = Append(comments, [id |-> made', text |-> FALSE])
          /\ BeginEdit(comments', Len(comments'))
          /\ UNCHANGED strokes
  /\ UNCHANGED <<overlay, lastClick>>

-----------------------------------------------------------------------------
(* The overlay around it *)

\* handleClick, or handleKeyDown with Enter, or with an arrow that goes on to
\* a neighbour.
Choose ==
  /\ state = "PICKING" \/ (state = "CONFIGURING" /\ selected)
  /\ state' = "CONFIGURING" /\ selected' = TRUE /\ active' = TRUE
  /\ Clear
  /\ UNCHANGED <<pickOn, sent>>

\* A click elsewhere, or Escape: hideAnnotOverlay and clearAnnotations.
Dismiss ==
  /\ state = "CONFIGURING"
  /\ state' = "PICKING" /\ active' = FALSE
  /\ Clear
  /\ UNCHANGED <<pickOn, selected, sent>>

\* togglePick leaves the annotation layer where it is.
TogglePick ==
  /\ pickOn' = ~pickOn
  /\ IF pickOn
     THEN /\ selected' = FALSE
          /\ state' = IF state \in {"PICKING", "CONFIGURING"} THEN "IDLE" ELSE state
     ELSE /\ state' = IF state = "IDLE" THEN "PICKING" ELSE state
          /\ UNCHANGED selected
  /\ UNCHANGED <<active, sent, notes, pointer, editing, lastClick>>

\* Escape with the picker off.
EscapePicking ==
  /\ state = "PICKING" /\ ~pickOn
  /\ state' = "IDLE"
  /\ UNCHANGED <<pickOn, selected, active, sent, notes, pointer, editing, lastClick>>

\* handleGo: the open edit is finalized, the notes are in the generate, and
\* the layer is hidden and cleared.
Go ==
  /\ state = "CONFIGURING" /\ selected
  /\ sent' = Finalized(comments, editing)
  /\ state' = "SESSION" /\ active' = FALSE
  /\ Clear
  /\ UNCHANGED <<pickOn, selected>>

\* The session is over; or an SSE error, which does not ask what the state is.
BackToPicking ==
  /\ state' = "PICKING"
  /\ selected' \in {FALSE, selected}
  /\ UNCHANGED <<pickOn, active, sent, notes, pointer, editing, lastClick>>

\* handleServerLost: hideAnnotOverlay drops the edit and keeps the comments.
\* A session that an error has left in place keeps the state.
ServerLost ==
  /\ state' \in {"IDLE", state}
  /\ selected' = FALSE /\ active' = FALSE
  /\ editing' = NotEditing
  /\ UNCHANGED <<pickOn, sent, notes, pointer, lastClick>>

-----------------------------------------------------------------------------
Next ==
  \/ Finalize \/ CancelEdit \/ Type
  \/ PressClear \/ PressStroke \/ PressEmpty \/ ClickIsOver
  \/ \E j \in DOMAIN comments : PressPin(j) \/ PressTwice(j)
  \/ Move \/ ReleasePin \/ ReleaseNew
  \/ Choose \/ Dismiss \/ TogglePick \/ EscapePicking \/ Go \/ BackToPicking \/ ServerLost

Spec == Init /\ [][Next]_vars

-----------------------------------------------------------------------------
(* Properties *)

Comments == Seq([id : 1..MaxPins, text : BOOLEAN])

TypeOK ==
  /\ state \in {"IDLE", "PICKING", "CONFIGURING", "SESSION"}
  /\ pickOn \in BOOLEAN /\ selected \in BOOLEAN /\ active \in BOOLEAN
  /\ comments \in Comments /\ sent \in Comments
  /\ strokes \in 0..MaxStrokes /\ made \in 0..MaxPins
  /\ pointer \in {NoPointer} \cup [kind : {"new"}, idx : {0}, pin : {0}, moved : BOOLEAN]
                 \cup [kind : {"pin"}, idx : 1..MaxPins, pin : 1..MaxPins, moved : BOOLEAN]
  /\ editing \in {NotEditing} \cup [idx : 1..MaxPins, had : BOOLEAN, has : BOOLEAN]
  /\ lastClick \in {NoClick} \cup [idx : 1..MaxPins, recent : BOOLEAN]
  \* The index in hand and the index in the input refer to a pin, although the
  \* list is spliced under them, and there is never one of each.
  /\ editing # NotEditing => editing.idx \in DOMAIN comments /\ pointer = NoPointer
  /\ pointer.kind = "pin" => pointer.idx \in DOMAIN comments

\* While the layer is there, a note without a text is the one that is being
\* edited, however edits, drags, deletions and clears follow each other; and so
\* the agent is not sent an empty note.
EmptyNoteIsEdited ==
  /\ active => \A k \in DOMAIN comments : ~comments[k].text => editing.idx = k
  /\ \A k \in DOMAIN sent : sent[k].text
=============================================================================
