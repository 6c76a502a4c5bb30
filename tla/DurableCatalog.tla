--------------------------- MODULE DurableCatalog ---------------------------
(***************************************************************************)
(* What the course catalog promises its callers: a single table of courses *)
(* that never forgets an answered operation and never issues the same      *)
(* data_id twice.  It has no memory/disk split, no start-up and no crash;  *)
(* CourseCatalog (courseStore in smm2_storage.go) is shown to implement it *)
(* when the disk does not fail and no request overtakes the loading of the *)
(* catalog.                                                                *)
(***************************************************************************)
EXTENDS Naturals

CONSTANTS
  Owners,    \* PIDs of the accounts that post courses
  Sizes,     \* byte sizes a course can have
  FirstID,   \* the first data_id ever issued
  MaxID      \* bound on the data_ids issued

ID     == FirstID .. MaxID
Course == [owner : Owners, size : Sizes, ready : BOOLEAN]

\* What a lookup yields for a data_id the table does not hold.
nil == [absent |-> TRUE]

VARIABLES
  table,    \* table[id] is the course posted under id, or nil
  next      \* the data_id the next Reserve issues

vars == <<table, next>>

Init ==
  /\ table = [id \in ID |-> nil]
  /\ next = FirstID

\* Issue a data_id to a course that is still to be uploaded.
Reserve(owner, size) ==
  /\ next \in ID
  /\ table' = [table EXCEPT ![next] =
                 [owner |-> owner, size |-> size, ready |-> FALSE]]
  /\ next' = next + 1

\* The uploader reports success: the course is ready, for good.
Publish(id) ==
  /\ table[id] # nil
  /\ table' = [table EXCEPT ![id].ready = TRUE]
  /\ UNCHANGED next

\* The uploader reports failure: the course is dropped.
Drop(id) ==
  /\ table[id] # nil
  /\ table' = [table EXCEPT ![id] = nil]
  /\ UNCHANGED next

\* The blob has arrived and its true size is known.
Resize(id, size) ==
  /\ table[id] # nil
  /\ table' = [table EXCEPT ![id].size = size]
  /\ UNCHANGED next

Next ==
  \/ \E owner \in Owners, size \in Sizes : Reserve(owner, size)
  \/ \E id \in ID : Publish(id) \/ Drop(id)
  \/ \E id \in ID, size \in Sizes : Resize(id, size)

Spec == Init /\ [][Next]_vars
=============================================================================
