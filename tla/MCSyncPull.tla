----------------------------- MODULE MCSyncPull -----------------------------
(* Instances of SyncPull for TLC. *)
EXTENDS SyncPull

\* Any order of the ids.
SomeOrder ==
  CHOOSE id \in [Rows -> 1 .. Cardinality(Rows)] :
    \A q, r \in Rows : id[q] = id[r] => q = r

\* Files are spread over the collections.
SomeHome ==
  CHOOSE home \in [Files -> Collections] :
    \A c \in Collections : \E f \in Files : home[f] = c

\* What the constants are replaced by.  TLC evaluates SomeOrder and SomeHome
\* once, but the body of a replacement at every use.
AnyId == SomeOrder
AnyHome == SomeHome

AllEndpoints == {"collections", "trash"}
=============================================================================
