--------------------------- MODULE CatalogMirror ---------------------------
(***************************************************************************)
(* What a client's local database promises about the server's file         *)
(* catalog, without pages, cursors or clocks: a file appears in the mirror *)
(* only after the server published it, is hidden only after the server     *)
(* archived it, and never comes back.  It may lag behind as long as it     *)
(* likes.                                                                  *)
(***************************************************************************)
CONSTANT Files

VARIABLES
  catalog,  \* the server: "none", "live" or "archived"
  mirror    \* the client: "none", "present" or "archived"

vars == <<catalog, mirror>>

Init ==
  /\ catalog = [f \in Files |-> "none"]
  /\ mirror = [f \in Files |-> "none"]

Publish(f) ==
  /\ catalog[f] = "none"
  /\ catalog' = [catalog EXCEPT ![f] = "live"]
  /\ UNCHANGED mirror

Remove(f) ==
  /\ catalog[f] = "live"
  /\ catalog' = [catalog EXCEPT ![f] = "archived"]
  /\ UNCHANGED mirror

\* Files are copied, perhaps after the server has archived them, but not
\* after the client has.
Copy(S) ==
  /\ \A f \in S : catalog[f] # "none" /\ mirror[f] # "archived"
  /\ mirror' = [f \in Files |-> IF f \in S THEN "present" ELSE mirror[f]]
  /\ UNCHANGED catalog

\* Files the server has archived are hidden.
Hide(S) ==
  /\ \A f \in S : catalog[f] = "archived" /\ mirror[f] = "present"
  /\ mirror' = [f \in Files |-> IF f \in S THEN "archived" ELSE mirror[f]]
  /\ UNCHANGED catalog

Next ==
  \/ \E f \in Files : Publish(f) \/ Remove(f)
  \/ \E S \in SUBSET Files : Copy(S) \/ Hide(S)

Spec == Init /\ [][Next]_vars
=============================================================================
