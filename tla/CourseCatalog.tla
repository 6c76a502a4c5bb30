--------------------------- MODULE CourseCatalog ---------------------------
(***************************************************************************)
(* The course catalog: courseStore in smm2_storage.go.  The catalog lives  *)
(* in memory (nextID, byID) under a mutex; every operation that changes it *)
(* rewrites catalog.json before it returns.  At start-up load() reads the  *)
(* file back, without the mutex, from a goroutine that runs beside the     *)
(* secure server: main.go starts both and orders neither (main.go:149 and  *)
(* main.go:170).                                                           *)
(*                                                                         *)
(* An operation under the mutex is one step here.  That includes its save: *)
(* catalog.json is replaced by a rename, so a crash inside the operation   *)
(* leaves either the old file or the new one and no answer in either case. *)
(***************************************************************************)
EXTENDS Naturals

CONSTANTS
  Owners,       \* PIDs of the accounts that post courses
  Sizes,        \* byte sizes a course can have
  FirstID,      \* nextID of the courses literal; 1000 in the code
  MaxID,        \* bound: data_ids above it are not issued
  EarlyRMC,     \* may RMC requests arrive while load() is still running?
  WriteFaults,  \* may saving catalog.json fail?
  ReadFaults    \* may reading catalog.json fail?

ASSUME BoundsAssumption ==
  /\ FirstID \in Nat \ {0}
  /\ MaxID \in Nat
  /\ FirstID <= MaxID

ASSUME EnvironmentAssumption ==
  /\ EarlyRMC \in BOOLEAN
  /\ WriteFaults \in BOOLEAN
  /\ ReadFaults \in BOOLEAN

ID     == FirstID .. MaxID
Course == [owner : Owners, size : Sizes, ready : BOOLEAN]

\* The nil *courseMeta a map lookup yields for an unknown data_id.
nil == [absent |-> TRUE]

NoCourses == [id \in ID |-> nil]

\* catalog.json holds a counter and a list of courses.  A missing file and
\* an unreadable one leave load() with the zero value, which is this one.
EmptyFile == [nextID |-> 0, byID |-> NoCourses]
CatalogFile == [nextID : 0 .. MaxID + 1, byID : [ID -> Course \union {nil}]]

VARIABLES
  phase,    \* how far load() has come since the process started
  nextID,   \* courseStore.nextID
  byID,     \* courseStore.byID
  saved,    \* load()'s local copy of the file, less the courses merged
  disk,     \* catalog.json
  issued,   \* history: every data_id alloc ever returned
  verdict   \* history: what effective calls of complete() said of a course

memory  == <<phase, nextID, byID, saved>>
history == <<issued, verdict>>
vars    == <<phase, nextID, byID, saved, disk, issued, verdict>>

Phases   == {"boot", "path", "read", "raise", "merge", "serving"}
Verdicts == {"none", "ready", "cancelled", "withdrawn"}

\* Some complete() said that the upload had finished; the last one dropped it.
Published == {"ready", "withdrawn"}
Dropped   == {"cancelled", "withdrawn"}

\* The verdict of a course that complete() drops.
DroppedAfter(v) == IF v \in Published THEN "withdrawn" ELSE "cancelled"

Known(id) == byID[id] # nil

Init ==
  /\ phase = "boot"
  /\ nextID = FirstID
  /\ byID = NoCourses
  /\ saved = EmptyFile
  /\ disk = EmptyFile
  /\ issued = {}
  /\ verdict = [id \in ID |-> "none"]

-----------------------------------------------------------------------------
(* persistLocked: save counter c and courses m.  The path of the file is   *)
(* set by load(); before that the rename has no target and fails.  A       *)
(* failed save is dropped silently and the file keeps its old content.     *)

PathSet == phase # "boot"

Persist(c, m) ==
  \/ /\ PathSet
     /\ disk' = [nextID |-> c, byID |-> m]
  \/ /\ WriteFaults \/ ~PathSet
     /\ UNCHANGED disk

-----------------------------------------------------------------------------
(* load(), statement by statement: it does not hold the mutex.             *)

SetPath ==
  /\ phase = "boot"
  /\ phase' = "path"
  /\ UNCHANGED <<nextID, byID, saved, disk, history>>

ReadCatalog ==
  /\ phase = "path"
  /\ phase' = "read"
  /\ \/ saved' = disk
     \/ ReadFaults /\ saved' = EmptyFile
  /\ UNCHANGED <<nextID, byID, disk, history>>

\* Mutant: the counter of the file is taken without comparing.
CompareNextIDAlways ==
  /\ phase = "read"
  /\ phase' = "raise"
  /\ UNCHANGED <<nextID, byID, saved, disk, history>>

\* Mutant: the counter of the file is not taken at all.
CompareNextIDNever ==
  /\ phase = "read"
  /\ phase' = "merge"
  /\ UNCHANGED <<nextID, byID, saved, disk, history>>

CompareNextID ==
  /\ phase = "read"
  /\ phase' = IF saved.nextID > nextID THEN "raise" ELSE "merge"
  /\ UNCHANGED <<nextID, byID, saved, disk, history>>

RaiseNextID ==
  /\ phase = "raise"
  /\ phase' = "merge"
  /\ nextID' = saved.nextID
  /\ UNCHANGED <<byID, saved, disk, history>>

MergeCourse(id) ==
  /\ phase = "merge"
  /\ saved.byID[id] # nil
  /\ byID' = [byID EXCEPT ![id] = saved.byID[id]]
  /\ saved' = [saved EXCEPT !.byID[id] = nil]
  /\ UNCHANGED <<phase, nextID, disk, history>>

\* Mutant: loading stops before the last course of the file.
FinishLoadEarly ==
  /\ phase = "merge"
  /\ phase' = "serving"
  /\ UNCHANGED <<nextID, byID, saved, disk, history>>

FinishLoad ==
  /\ phase = "merge"
  /\ saved.byID = NoCourses
  /\ phase' = "serving"
  /\ UNCHANGED <<nextID, byID, saved, disk, history>>

-----------------------------------------------------------------------------
(* The operations, each under the mutex.  RMC requests reach alloc and     *)
(* complete; the HTTP server, which listens only once load() has returned, *)
(* reaches setSize.                                                        *)

RMCServed == phase = "serving" \/ EarlyRMC

\* load() assigns nextID without the mutex, so an alloc that overlaps the
\* assignment may write its own increment over it: the assignment is lost.
RaiseOverwritten == phase = "raise" /\ phase' = "merge"

\* Mutant: the catalog is saved before the counter is incremented.
AllocSavedEarly(owner, size) ==
  LET course == [owner |-> owner, size |-> size, ready |-> FALSE]
  IN /\ RMCServed
     /\ nextID \in ID
     /\ nextID' = nextID + 1
     /\ byID' = [byID EXCEPT ![nextID] = course]
     /\ Persist(nextID, byID')
     /\ issued' = issued \union {nextID}
     /\ UNCHANGED phase \/ RaiseOverwritten
     /\ UNCHANGED <<saved, verdict>>

Alloc(owner, size) ==
  LET course == [owner |-> owner, size |-> size, ready |-> FALSE]
  IN /\ RMCServed
     /\ nextID \in ID
     /\ nextID' = nextID + 1
     /\ byID' = [byID EXCEPT ![nextID] = course]
     /\ Persist(nextID', byID')
     /\ issued' = issued \union {nextID}
     /\ UNCHANGED phase \/ RaiseOverwritten
     /\ UNCHANGED <<saved, verdict>>

CompleteOK(id) ==
  /\ RMCServed
  /\ Known(id)
  /\ byID' = [byID EXCEPT ![id].ready = TRUE]
  /\ Persist(nextID, byID')
  /\ verdict' = [verdict EXCEPT ![id] = "ready"]
  /\ UNCHANGED <<phase, nextID, saved, issued>>

\* Mutant: the removal of a cancelled course is not saved.
CompleteCancelledUnsaved(id) ==
  /\ RMCServed
  /\ Known(id)
  /\ byID' = [byID EXCEPT ![id] = nil]
  /\ verdict' = [verdict EXCEPT ![id] = DroppedAfter(@)]
  /\ UNCHANGED <<phase, nextID, saved, disk, issued>>

CompleteCancelled(id) ==
  /\ RMCServed
  /\ Known(id)
  /\ byID' = [byID EXCEPT ![id] = nil]
  /\ Persist(nextID, byID')
  /\ verdict' = [verdict EXCEPT ![id] = DroppedAfter(@)]
  /\ UNCHANGED <<phase, nextID, saved, issued>>

\* Mutant: the arrival of the blob already makes the course ready.
SetSizeReady(id, size) ==
  /\ phase = "serving"
  /\ Known(id)
  /\ byID' = [byID EXCEPT ![id].size = size, ![id].ready = TRUE]
  /\ Persist(nextID, byID')
  /\ UNCHANGED <<phase, nextID, saved, history>>

SetSize(id, size) ==
  /\ phase = "serving"
  /\ Known(id)
  /\ byID' = [byID EXCEPT ![id].size = size]
  /\ Persist(nextID, byID')
  /\ UNCHANGED <<phase, nextID, saved, history>>

(* The process dies and is started again: memory is back to the package's  *)
(* initial values, the file stays.                                         *)
Crash ==
  /\ phase' = "boot"
  /\ nextID' = FirstID
  /\ byID' = NoCourses
  /\ saved' = EmptyFile
  /\ UNCHANGED <<disk, history>>

Load ==
  \/ SetPath
  \/ ReadCatalog
  \/ CompareNextID
  \/ RaiseNextID
  \/ \E id \in ID : MergeCourse(id)
  \/ FinishLoad

Operation ==
  \/ \E owner \in Owners, size \in Sizes : Alloc(owner, size)
  \/ \E id \in ID : CompleteOK(id)
  \/ \E id \in ID : CompleteCancelled(id)
  \/ \E id \in ID, size \in Sizes : SetSize(id, size)

Next == Load \/ Operation \/ Crash

Spec == Init /\ [][Next]_vars

-----------------------------------------------------------------------------
\* The catalog, its file and load()'s copy hold courses under data_ids, and the
\* counter is a data_id or the one after the last (smm2_storage.go:52-73).
TypeOK ==
  /\ phase \in Phases
  /\ nextID \in FirstID .. MaxID + 1
  /\ byID \in [ID -> Course \union {nil}]
  /\ saved \in CatalogFile
  /\ disk \in CatalogFile
  /\ issued \subseteq ID
  /\ verdict \in [ID -> Verdicts]

\* Every course the process knows, and every course in the file, has a
\* data_id below the counter kept beside it: alloc (smm2_storage.go:123-130)
\* then overwrites no known course, now or after a restart, even when saves
\* and reads fail and the process crashes at any point.
IdsBelowCounter ==
  /\ phase = "serving" => \A id \in ID : Known(id) => id < nextID
  /\ \A id \in ID : disk.byID[id] # nil => id < disk.nextID

\* alloc "reserves a new data_id" (smm2_storage.go:119): it never issues one
\* that it issued before, in this run of the process or an earlier one.
AllocFresh ==
  [][\A owner \in Owners, size \in Sizes :
       Alloc(owner, size) => nextID \notin issued]_vars

\* What complete() answered holds from then on, across restarts: a completed
\* course is in the catalog and ready, a cancelled one is gone
\* (smm2_storage.go:14, 134-148).
VerdictHonoured ==
  phase = "serving" =>
    \A id \in ID :
      /\ verdict[id] = "ready" => Known(id) /\ byID[id].ready
      /\ verdict[id] \in Dropped => ~Known(id)

\* No course is ever ready, in memory or in the file, unless complete() once
\* said of its data_id that the upload had finished; a cancellation does not
\* count: no start-up race, lost save, restarted counter or crash publishes an
\* upload that was never reported finished (smm2_storage.go:61, 134-148).
ReadyOnlyIfCompleted ==
  \A id \in ID :
    /\ Known(id) /\ byID[id].ready => verdict[id] \in Published
    /\ disk.byID[id] # nil /\ disk.byID[id].ready => verdict[id] \in Published

-----------------------------------------------------------------------------
(* The abstract catalog is the memory once load() has returned, and the    *)
(* file before that.                                                       *)

Raised(n) == IF n > FirstID THEN n ELSE FirstID

Durable == INSTANCE DurableCatalog
             WITH table <- IF phase = "serving" THEN byID ELSE disk.byID,
                  next  <- IF phase = "serving" THEN nextID
                                                ELSE Raised(disk.nextID)

\* The catalog implements the table that forgets nothing and reissues
\* nothing: start-up and crashes are invisible, operations are atomic.
ImplementsDurable == Durable!Spec
=============================================================================
