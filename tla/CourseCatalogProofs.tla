------------------------ MODULE CourseCatalogProofs ------------------------
(***************************************************************************)
(* Theorems about CourseCatalog, for every set of accounts and sizes and   *)
(* every bound on the data_ids.                                            *)
(***************************************************************************)
EXTENDS CourseCatalog, TLAPS

\* The file system does its work and no request overtakes load().
Calm == ~EarlyRMC /\ ~WriteFaults /\ ~ReadFaults

-----------------------------------------------------------------------------
(* Two facts about the bounds, cited instead of their definitions.         *)

\* The counter of a process that has just started is in range.
LEMMA IDFacts ==
  /\ ID \subseteq Nat
  /\ FirstID \in FirstID .. MaxID + 1
  /\ \A n \in ID : n + 1 \in FirstID .. MaxID + 1
  /\ FirstID .. MaxID + 1 \subseteq 0 .. MaxID + 1
BY BoundsAssumption DEF ID

\* The empty file, and with it a missing one, is well formed.
LEMMA EmptyFileType ==
  /\ NoCourses \in [ID -> Course \union {nil}]
  /\ EmptyFile \in CatalogFile
  /\ \A id \in ID : NoCourses[id] = nil
BY BoundsAssumption DEF NoCourses, EmptyFile, CatalogFile

\* nil is no course: the two are told apart by every lookup.
LEMMA NilIsNoCourse == nil \notin Course
BY DEF nil, Course
-----------------------------------------------------------------------------
(* Type correctness.  load() raises the counter only above FirstID, which  *)
(* is what keeps the raised counter in range.                              *)

TypeInv ==
  /\ TypeOK
  /\ phase = "raise" => saved.nextID > FirstID

LEMMA TypeInit == Init => TypeInv
<1> SUFFICES ASSUME Init PROVE TypeInv
  OBVIOUS
<1>1. verdict \in [ID -> Verdicts]
  BY DEF Init, Verdicts
<1> QED
  BY <1>1, IDFacts, EmptyFileType DEF Init, TypeInv, TypeOK, Phases

\* A save leaves a well-formed file behind.
LEMMA PersistType ==
  ASSUME TypeOK, NEW c \in FirstID .. MaxID + 1,
         NEW m \in [ID -> Course \union {nil}], Persist(c, m)
  PROVE  disk' \in CatalogFile
BY IDFacts DEF Persist, TypeOK, CatalogFile

LEMMA TypeStep == TypeInv /\ [Next]_vars => TypeInv'
<1> SUFFICES ASSUME TypeInv, [Next]_vars PROVE TypeInv'
  OBVIOUS
<1> USE DEF TypeInv, TypeOK
<1>1. CASE SetPath
  BY <1>1 DEF SetPath, Phases, history
<1>2. CASE ReadCatalog
  BY <1>2, EmptyFileType DEF ReadCatalog, Phases, history
<1>3. CASE CompareNextID
  BY <1>3, BoundsAssumption DEF CompareNextID, Phases, history, CatalogFile
<1>4. CASE RaiseNextID
  BY <1>4, BoundsAssumption DEF RaiseNextID, Phases, history, CatalogFile
<1>5. ASSUME NEW id \in ID, MergeCourse(id) PROVE TypeInv'
  <2>1. saved.byID[id] \in Course \union {nil}
    BY DEF CatalogFile
  <2>2. saved' \in CatalogFile /\ saved'.nextID = saved.nextID
    BY <1>5 DEF MergeCourse, CatalogFile
  <2> QED
    BY <1>5, <2>1, <2>2 DEF MergeCourse, history
<1>6. CASE FinishLoad
  BY <1>6 DEF FinishLoad, Phases, history
<1>7. ASSUME NEW owner \in Owners, NEW size \in Sizes, Alloc(owner, size)
      PROVE  TypeInv'
  <2>1. [owner |-> owner, size |-> size, ready |-> FALSE] \in Course
    BY DEF Course
  <2>2. nextID' \in FirstID .. MaxID + 1
    BY <1>7, IDFacts DEF Alloc
  <2>3. byID' \in [ID -> Course \union {nil}]
    BY <1>7, <2>1 DEF Alloc
  <2>4. disk' \in CatalogFile
    BY <1>7, <2>2, <2>3, PersistType DEF Alloc
  <2> QED
    BY <1>7, <2>2, <2>3, <2>4 DEF Alloc, RaiseOverwritten, Phases
<1>8. ASSUME NEW id \in ID, CompleteOK(id) PROVE TypeInv'
  <2>1. byID' \in [ID -> Course \union {nil}]
    BY <1>8 DEF CompleteOK, Known, Course
  <2>2. disk' \in CatalogFile
    BY <1>8, <2>1, PersistType DEF CompleteOK
  <2> QED
    BY <1>8, <2>1, <2>2 DEF CompleteOK, Verdicts
<1>9. ASSUME NEW id \in ID, CompleteCancelled(id) PROVE TypeInv'
  <2>1. byID' \in [ID -> Course \union {nil}]
    BY <1>9 DEF CompleteCancelled
  <2>2. disk' \in CatalogFile
    BY <1>9, <2>1, PersistType DEF CompleteCancelled
  <2> QED
    BY <1>9, <2>1, <2>2 DEF CompleteCancelled, Verdicts, DroppedAfter
<1>10. ASSUME NEW id \in ID, NEW size \in Sizes, SetSize(id, size)
       PROVE  TypeInv'
  <2>1. byID' \in [ID -> Course \union {nil}]
    BY <1>10 DEF SetSize, Known, Course
  <2>2. disk' \in CatalogFile
    BY <1>10, <2>1, PersistType DEF SetSize
  <2> QED
    BY <1>10, <2>1, <2>2 DEF SetSize, history
<1>11. CASE Crash
  BY <1>11, IDFacts, EmptyFileType DEF Crash, Phases, history
<1>12. CASE UNCHANGED vars
  BY <1>12 DEF vars
<1> QED
  BY <1>1, <1>2, <1>3, <1>4, <1>5, <1>6, <1>7, <1>8, <1>9, <1>10, <1>11,
     <1>12 DEF Next, Load, Operation

\* The catalog, its file and load()'s copy of it stay well formed, whatever
\* fails and however load() and the requests interleave.
THEOREM TypeCorrect == Spec => []TypeOK
<1>1. TypeInv => TypeOK
  BY DEF TypeInv
<1> QED
  BY <1>1, TypeInit, TypeStep, PTL DEF Spec

\* What the verdicts exclude of each other.
LEMMA VerdictFacts ==
  /\ "none" \notin Dropped /\ "ready" \notin Dropped
  /\ \A v : /\ DroppedAfter(v) \in Dropped
            /\ DroppedAfter(v) # "none" /\ DroppedAfter(v) # "ready"
  /\ Dropped \subseteq Verdicts
BY DEF Dropped, DroppedAfter, Verdicts

-----------------------------------------------------------------------------
(* Nothing is ready that complete() never reported.  Between a crash and   *)
(* the end of load() a course may be in load()'s copy only, so the copy is *)
(* part of the invariant.                                                  *)

\* The ready courses of a table were all reported.
Reported(table, answers) ==
  \A id \in ID : table[id] # nil /\ table[id].ready => answers[id] \in Published

ReadyInv ==
  /\ TypeInv
  /\ Reported(byID, verdict)
  /\ Reported(saved.byID, verdict)
  /\ Reported(disk.byID, verdict)

LEMMA ReadyInit == Init => ReadyInv
BY TypeInit, EmptyFileType DEF Init, ReadyInv, Reported, EmptyFile

\* A save of reported courses leaves a file of reported courses, whether it
\* succeeds or not.
LEMMA PersistReported ==
  ASSUME ReadyInv, NEW c, NEW m, Persist(c, m), Reported(m, verdict'),
         \A id \in ID : verdict[id] \in Published => verdict'[id] \in Published
  PROVE  Reported(disk'.byID, verdict')
BY DEF Persist, ReadyInv, Reported

LEMMA ReadyStep == ReadyInv /\ [Next]_vars => ReadyInv'
<1> SUFFICES ASSUME ReadyInv, [Next]_vars PROVE ReadyInv'
  OBVIOUS
<1>0. TypeInv /\ TypeOK /\ TypeInv'
  BY TypeStep DEF ReadyInv, TypeInv
<1> USE <1>0 DEF ReadyInv
<1>1. CASE SetPath \/ CompareNextID \/ RaiseNextID \/ FinishLoad
  BY <1>1 DEF SetPath, CompareNextID, RaiseNextID, FinishLoad, history, Reported
<1>2. CASE ReadCatalog
  BY <1>2, EmptyFileType DEF ReadCatalog, history, Reported, EmptyFile
<1>3. ASSUME NEW id \in ID, MergeCourse(id) PROVE ReadyInv'
  <2>1. Reported(byID', verdict')
    BY <1>3 DEF MergeCourse, history, Reported, TypeOK
  <2>2. Reported(saved'.byID, verdict')
    BY <1>3 DEF MergeCourse, history, Reported, TypeOK, CatalogFile
  <2> QED
    BY <1>3, <2>1, <2>2 DEF MergeCourse, history
<1>4. ASSUME NEW owner \in Owners, NEW size \in Sizes, Alloc(owner, size)
      PROVE  ReadyInv'
  <2>1. Reported(byID', verdict')
    BY <1>4 DEF Alloc, Reported, TypeOK
  <2>2. Reported(disk'.byID, verdict')
    BY <1>4, <2>1, PersistReported DEF Alloc
  <2> QED
    BY <1>4, <2>1, <2>2 DEF Alloc
<1>5. ASSUME NEW id \in ID, CompleteOK(id) PROVE ReadyInv'
  <2>1. \A i \in ID : verdict[i] \in Published => verdict'[i] \in Published
    BY <1>5 DEF CompleteOK, TypeOK, Published
  <2>2. Reported(byID', verdict')
    BY <1>5, <2>1 DEF CompleteOK, Reported, TypeOK, Known, Course, Published
  <2>3. Reported(disk'.byID, verdict')
    BY <1>5, <2>1, <2>2, PersistReported DEF CompleteOK
  <2> QED
    BY <1>5, <2>1, <2>2, <2>3 DEF CompleteOK, Reported
<1>6. ASSUME NEW id \in ID, CompleteCancelled(id) PROVE ReadyInv'
  <2>1. \A i \in ID : verdict[i] \in Published => verdict'[i] \in Published
    BY <1>6 DEF CompleteCancelled, TypeOK, Published, DroppedAfter
  <2>2. Reported(byID', verdict')
    BY <1>6, <2>1 DEF CompleteCancelled, Reported, TypeOK
  <2>3. Reported(disk'.byID, verdict')
    BY <1>6, <2>1, <2>2, PersistReported DEF CompleteCancelled
  <2> QED
    BY <1>6, <2>1, <2>2, <2>3 DEF CompleteCancelled, Reported
<1>7. ASSUME NEW id \in ID, NEW size \in Sizes, SetSize(id, size)
      PROVE  ReadyInv'
  <2>1. Reported(byID', verdict')
    BY <1>7 DEF SetSize, Reported, TypeOK, Known, Course, history
  <2>2. Reported(disk'.byID, verdict')
    BY <1>7, <2>1, PersistReported DEF SetSize, history
  <2> QED
    BY <1>7, <2>1, <2>2 DEF SetSize, history
<1>8. CASE Crash
  BY <1>8, EmptyFileType DEF Crash, history, Reported, EmptyFile
<1>9. CASE UNCHANGED vars
  BY <1>9 DEF vars, Reported
<1> QED
  BY <1>1, <1>2, <1>3, <1>4, <1>5, <1>6, <1>7, <1>8, <1>9
     DEF Next, Load, Operation

\* No start-up race, lost save, failed read or crash makes a course ready, in
\* memory or in the file, that complete() never reported finished.
THEOREM ReadyReported == Spec => []ReadyOnlyIfCompleted
<1>1. ReadyInv => ReadyOnlyIfCompleted
  BY DEF ReadyInv, Reported, ReadyOnlyIfCompleted, Known
<1> QED
  BY <1>1, ReadyInit, ReadyStep, PTL DEF Spec

-----------------------------------------------------------------------------
(* No known course at or above its counter.  The argument needs the copy   *)
(* load() holds as well: what it merges lies below the counter it read,    *)
(* and by then the process's own counter has caught up with that one.      *)

CounterInv ==
  /\ TypeInv
  /\ \A id \in ID : disk.byID[id] # nil => id < disk.nextID
  /\ \A id \in ID : saved.byID[id] # nil => id < saved.nextID
  /\ \A id \in ID : Known(id) => id < nextID
  /\ phase \notin {"merge", "serving"} => byID = NoCourses
  /\ phase = "merge" => saved.nextID <= nextID

\* A save of courses below the counter leaves a file of courses below the
\* counter, whether it succeeds or not.
LEMMA PersistBelow ==
  ASSUME NEW c, NEW m, Persist(c, m),
         \A id \in ID : disk.byID[id] # nil => id < disk.nextID,
         \A id \in ID : m[id] # nil => id < c
  PROVE  \A id \in ID : disk'.byID[id] # nil => id < disk'.nextID
BY DEF Persist

LEMMA CounterInit == Init => CounterInv
BY TypeInit, EmptyFileType DEF Init, CounterInv, Known, EmptyFile

LEMMA CounterStep ==
  ASSUME ~EarlyRMC, CounterInv, [Next]_vars
  PROVE  CounterInv'
<1> USE DEF CounterInv, Known, RMCServed
<1>0. TypeInv'
  BY TypeStep
<1>t. TypeOK
  BY DEF TypeInv
<1>1. CASE SetPath
  BY <1>0, <1>1 DEF SetPath
<1>2. CASE ReadCatalog
  BY <1>0, <1>2, EmptyFileType DEF ReadCatalog, EmptyFile
<1>3. CASE CompareNextID
  <2>1. ~(saved.nextID > nextID) => saved.nextID <= nextID
    BY <1>t, BoundsAssumption DEF TypeOK, CatalogFile
  <2> QED
    BY <1>0, <1>3, <2>1 DEF CompareNextID
<1>4. CASE RaiseNextID
  <2>1. byID = NoCourses
    BY <1>4 DEF RaiseNextID
  <2>2. saved.nextID <= saved.nextID
    BY <1>t, BoundsAssumption DEF TypeOK, CatalogFile
  <2> QED
    BY <1>0, <1>4, <2>1, <2>2, EmptyFileType DEF RaiseNextID
<1>5. ASSUME NEW id \in ID, MergeCourse(id) PROVE CounterInv'
  <2>1. id < nextID
    BY <1>5, <1>t, BoundsAssumption DEF MergeCourse, TypeOK, CatalogFile, ID
  <2>2. /\ saved'.nextID = saved.nextID
        /\ \A i \in ID : saved'.byID[i] # nil => saved.byID[i] # nil
    BY <1>5, <1>t DEF MergeCourse, TypeOK, CatalogFile
  <2>3. \A i \in ID : byID'[i] # nil => byID[i] # nil \/ i = id
    BY <1>5, <1>t DEF MergeCourse, TypeOK
  <2> QED
    BY <1>0, <1>5, <2>1, <2>2, <2>3 DEF MergeCourse
<1>6. CASE FinishLoad
  BY <1>0, <1>6 DEF FinishLoad
<1>7. ASSUME NEW owner \in Owners, NEW size \in Sizes, Alloc(owner, size)
      PROVE  CounterInv'
  <2>1. \A i \in ID : byID'[i] # nil => byID[i] # nil \/ i = nextID
    BY <1>7, <1>t DEF Alloc, TypeOK
  <2>2. \A i \in ID : byID'[i] # nil => i < nextID'
    BY <1>7, <2>1, <1>t, BoundsAssumption DEF Alloc, TypeOK, ID
  <2>3. \A i \in ID : disk'.byID[i] # nil => i < disk'.nextID
    BY <1>7, <2>2, PersistBelow DEF Alloc
  <2> QED
    BY <1>0, <1>7, <2>2, <2>3 DEF Alloc, RaiseOverwritten
<1>8. ASSUME NEW id \in ID, CompleteOK(id) PROVE CounterInv'
  <2>1. \A i \in ID : byID'[i] # nil => byID[i] # nil
    BY <1>8, <1>t DEF CompleteOK, TypeOK
  <2>2. \A i \in ID : disk'.byID[i] # nil => i < disk'.nextID
    BY <1>8, <2>1, PersistBelow DEF CompleteOK
  <2> QED
    BY <1>0, <1>8, <2>1, <2>2 DEF CompleteOK
<1>9. ASSUME NEW id \in ID, CompleteCancelled(id) PROVE CounterInv'
  <2>1. \A i \in ID : byID'[i] # nil => byID[i] # nil
    BY <1>9, <1>t DEF CompleteCancelled, TypeOK
  <2>2. \A i \in ID : disk'.byID[i] # nil => i < disk'.nextID
    BY <1>9, <2>1, PersistBelow DEF CompleteCancelled
  <2> QED
    BY <1>0, <1>9, <2>1, <2>2 DEF CompleteCancelled
<1>10. ASSUME NEW id \in ID, NEW size \in Sizes, SetSize(id, size)
       PROVE  CounterInv'
  <2>1. \A i \in ID : byID'[i] # nil => byID[i] # nil
    BY <1>10, <1>t DEF SetSize, TypeOK
  <2>2. \A i \in ID : disk'.byID[i] # nil => i < disk'.nextID
    BY <1>10, <2>1, PersistBelow DEF SetSize
  <2> QED
    BY <1>0, <1>10, <2>1, <2>2 DEF SetSize, history
<1>11. CASE Crash
  BY <1>0, <1>11, EmptyFileType DEF Crash, EmptyFile
<1>12. CASE UNCHANGED vars
  BY <1>0, <1>12 DEF vars
<1> QED
  BY <1>1, <1>2, <1>3, <1>4, <1>5, <1>6, <1>7, <1>8, <1>9, <1>10, <1>11,
     <1>12 DEF Next, Load, Operation

\* With no request served before load() has returned, every course the
\* process or the file knows lies below the counter kept beside it: lost
\* saves, failed reads and crashes cannot make alloc overwrite a course.
THEOREM CounterAhead ==
  ASSUME ~EarlyRMC
  PROVE  Spec => []IdsBelowCounter
<1>1. CounterInv => IdsBelowCounter
  BY DEF CounterInv, IdsBelowCounter
<1>2. CounterInv /\ [Next]_vars => CounterInv'
  BY CounterStep
<1> QED
  BY <1>1, <1>2, CounterInit, PTL DEF Spec
-----------------------------------------------------------------------------
(* When nothing fails the file is the catalog: while requests are served   *)
(* memory and file agree, and while load() runs memory and load()'s copy   *)
(* make up the file between them.  The history variables then speak of the *)
(* file, which no crash touches.                                           *)

MemoryIsFile ==
  /\ phase \notin {"merge", "serving"} => nextID = FirstID /\ byID = NoCourses
  /\ phase \in {"read", "raise"} => saved = disk
  /\ phase \in {"merge", "serving"} => nextID = Raised(disk.nextID)
  /\ phase = "merge" =>
       \A id \in ID : disk.byID[id] = IF saved.byID[id] # nil
                                      THEN saved.byID[id] ELSE byID[id]
  /\ phase = "serving" => byID = disk.byID

FileIsHistory ==
  /\ \A id \in issued : id < Raised(disk.nextID)
  /\ \A id \in ID : disk.byID[id] # nil => id \in issued
  /\ \A id \in ID : verdict[id] # "none" => id \in issued
  /\ \A id \in ID : verdict[id] = "ready" =>
                      disk.byID[id] # nil /\ disk.byID[id].ready
  /\ \A id \in ID : verdict[id] \in Dropped => disk.byID[id] = nil

DurableInv == TypeInv /\ MemoryIsFile /\ FileIsHistory

\* Without faults, and once the path is set, a save succeeds.
LEMMA PersistSucceeds ==
  ASSUME Calm, phase = "serving", NEW c, NEW m, Persist(c, m)
  PROVE  disk' = [nextID |-> c, byID |-> m]
BY DEF Calm, Persist, PathSet

\* A counter that has reached FirstID is its own raised value.
LEMMA RaisedCounter ==
  /\ \A n \in FirstID .. MaxID + 1 : Raised(n) = n
  /\ Raised(0) = FirstID
BY BoundsAssumption DEF Raised

LEMMA DurableInit == Init => DurableInv
<1> SUFFICES ASSUME Init PROVE DurableInv
  OBVIOUS
<1>1. MemoryIsFile
  BY DEF Init, MemoryIsFile
<1>2. FileIsHistory
  BY EmptyFileType DEF Init, FileIsHistory, EmptyFile
<1> QED
  BY <1>1, <1>2, TypeInit DEF DurableInv

\* A step that leaves the file and the history alone keeps their relation.
LEMMA SameFile ==
  ASSUME FileIsHistory, UNCHANGED <<disk, issued, verdict>>
  PROVE  FileIsHistory'
BY DEF FileIsHistory

LEMMA DurableStep ==
  ASSUME Calm, DurableInv, [Next]_vars
  PROVE  DurableInv'
<1>t. TypeOK /\ MemoryIsFile /\ FileIsHistory
  BY DEF DurableInv, TypeInv
<1> SUFFICES MemoryIsFile' /\ FileIsHistory'
  BY TypeStep DEF DurableInv
<1>1. CASE SetPath
  BY <1>t, <1>1, SameFile DEF SetPath, history, MemoryIsFile
<1>2. CASE ReadCatalog
  BY <1>t, <1>2, SameFile DEF ReadCatalog, Calm, history, MemoryIsFile
<1>3. CASE CompareNextID
  <2>1. nextID = FirstID /\ byID = NoCourses /\ saved = disk
    BY <1>t, <1>3 DEF CompareNextID, MemoryIsFile
  <2>2. phase' = "merge" => Raised(disk.nextID) = FirstID
    BY <1>t, <1>3, <2>1 DEF CompareNextID, Raised
  <2> QED
    BY <1>t, <1>3, <2>1, <2>2, SameFile, EmptyFileType
       DEF CompareNextID, history, MemoryIsFile
<1>4. CASE RaiseNextID
  <2>1. byID = NoCourses /\ saved = disk
    BY <1>t, <1>4 DEF RaiseNextID, MemoryIsFile
  <2>2. Raised(disk.nextID) = disk.nextID
    BY <1>4, <2>1 DEF RaiseNextID, Raised, DurableInv, TypeInv
  <2> QED
    BY <1>t, <1>4, <2>1, <2>2, SameFile, EmptyFileType
       DEF RaiseNextID, history, MemoryIsFile
<1>5. ASSUME NEW id \in ID, MergeCourse(id)
      PROVE  MemoryIsFile' /\ FileIsHistory'
  <2>1. \A i \in ID : saved'.byID[i] = IF i = id THEN nil ELSE saved.byID[i]
    BY <1>t, <1>5 DEF MergeCourse, TypeOK, CatalogFile
  <2>2. \A i \in ID : byID'[i] = IF i = id THEN saved.byID[id] ELSE byID[i]
    BY <1>t, <1>5 DEF MergeCourse, TypeOK
  <2> QED
    BY <1>t, <1>5, <2>1, <2>2, SameFile
       DEF MergeCourse, history, MemoryIsFile
<1>6. CASE FinishLoad
  <2>1. \A i \in ID : disk.byID[i] = byID[i]
    BY <1>t, <1>6, EmptyFileType DEF FinishLoad, MemoryIsFile
  <2>2. byID = disk.byID
    BY <1>t, <2>1 DEF TypeOK, CatalogFile
  <2> QED
    BY <1>t, <1>6, <2>2, SameFile DEF FinishLoad, history, MemoryIsFile
<1>7. ASSUME NEW owner \in Owners, NEW size \in Sizes, Alloc(owner, size)
      PROVE  MemoryIsFile' /\ FileIsHistory'
  <2>1. phase = "serving" /\ phase' = "serving"
    BY <1>7 DEF Alloc, RMCServed, RaiseOverwritten, Calm
  <2>2. disk' = [nextID |-> nextID', byID |-> byID']
    BY <1>7, <2>1, PersistSucceeds DEF Alloc
  <2>3. Raised(disk'.nextID) = nextID'
    BY <1>7, <2>2, IDFacts, RaisedCounter DEF Alloc
  <2>4. nextID = Raised(disk.nextID) /\ byID = disk.byID
    BY <1>t, <2>1 DEF MemoryIsFile
  <2>5. nextID \notin issued
    BY <1>t, <1>7, <2>4, IDFacts DEF FileIsHistory, Alloc
  <2>6. MemoryIsFile'
    BY <2>1, <2>2, <2>3 DEF MemoryIsFile
  <2>7. \A i \in ID : i # nextID => byID'[i] = byID[i]
    BY <1>t, <1>7 DEF Alloc, TypeOK
  <2>8. \A i \in issued' : i < nextID'
    BY <1>t, <1>7, <2>4, IDFacts DEF Alloc, FileIsHistory, TypeOK
  <2>9. FileIsHistory'
    BY <1>t, <1>7, <2>2, <2>3, <2>4, <2>5, <2>7, <2>8, VerdictFacts
       DEF Alloc, FileIsHistory
  <2> QED
    BY <2>6, <2>9
<1>8. ASSUME NEW id \in ID, CompleteOK(id)
      PROVE  MemoryIsFile' /\ FileIsHistory'
  <2>1. phase = "serving" /\ phase' = "serving"
    BY <1>8 DEF CompleteOK, RMCServed, Calm
  <2>2. disk' = [nextID |-> nextID, byID |-> byID'] /\ nextID' = nextID
    BY <1>8, <2>1, PersistSucceeds DEF CompleteOK
  <2>3. nextID = Raised(disk.nextID) /\ byID = disk.byID
    BY <1>t, <2>1 DEF MemoryIsFile
  <2>4. Raised(disk'.nextID) = nextID
    BY <1>t, <2>2, RaisedCounter DEF TypeOK
  <2>5. /\ byID'[id] # nil /\ byID'[id].ready
        /\ \A i \in ID : i # id => byID'[i] = byID[i]
    <3>1. byID[id] \in Course
      BY <1>t, <1>8 DEF CompleteOK, Known, TypeOK
    <3>2. byID'[id] = [byID[id] EXCEPT !.ready = TRUE]
      BY <1>t, <1>8 DEF CompleteOK, TypeOK
    <3>3. byID'[id] \in Course /\ byID'[id].ready
      BY <3>1, <3>2 DEF Course
    <3> QED
      BY <1>t, <1>8, <3>3, NilIsNoCourse DEF CompleteOK, TypeOK
  <2>6. MemoryIsFile'
    BY <2>1, <2>2, <2>4 DEF MemoryIsFile
  <2>7. \A i \in ID : verdict'[i] = IF i = id THEN "ready" ELSE verdict[i]
    BY <1>t, <1>8 DEF CompleteOK, TypeOK
  <2>8. id \in issued
    BY <1>t, <1>8, <2>3 DEF CompleteOK, Known, FileIsHistory
  <2>9. FileIsHistory'
    BY <1>t, <1>8, <2>2, <2>3, <2>4, <2>5, <2>7, <2>8, VerdictFacts
       DEF CompleteOK, FileIsHistory
  <2> QED
    BY <2>6, <2>9
<1>9. ASSUME NEW id \in ID, CompleteCancelled(id)
      PROVE  MemoryIsFile' /\ FileIsHistory'
  <2>1. phase = "serving" /\ phase' = "serving"
    BY <1>9 DEF CompleteCancelled, RMCServed, Calm
  <2>2. disk' = [nextID |-> nextID, byID |-> byID'] /\ nextID' = nextID
    BY <1>9, <2>1, PersistSucceeds DEF CompleteCancelled
  <2>3. nextID = Raised(disk.nextID) /\ byID = disk.byID
    BY <1>t, <2>1 DEF MemoryIsFile
  <2>4. Raised(disk'.nextID) = nextID
    BY <1>t, <2>2, RaisedCounter DEF TypeOK
  <2>5. \A i \in ID : byID'[i] = IF i = id THEN nil ELSE byID[i]
    BY <1>t, <1>9 DEF CompleteCancelled, TypeOK
  <2>6. MemoryIsFile'
    BY <2>1, <2>2, <2>4 DEF MemoryIsFile
  <2>7. \A i \in ID : verdict'[i] = IF i = id THEN DroppedAfter(verdict[id])
                                              ELSE verdict[i]
    BY <1>t, <1>9 DEF CompleteCancelled, TypeOK
  <2>8. id \in issued
    BY <1>t, <1>9, <2>3 DEF CompleteCancelled, Known, FileIsHistory
  <2>9. FileIsHistory'
    BY <1>t, <1>9, <2>2, <2>3, <2>4, <2>5, <2>7, <2>8, VerdictFacts
       DEF CompleteCancelled, FileIsHistory
  <2> QED
    BY <2>6, <2>9
<1>10. ASSUME NEW id \in ID, NEW size \in Sizes, SetSize(id, size)
       PROVE  MemoryIsFile' /\ FileIsHistory'
  <2>1. phase = "serving" /\ phase' = "serving"
    BY <1>10 DEF SetSize
  <2>2. disk' = [nextID |-> nextID, byID |-> byID'] /\ nextID' = nextID
    BY <1>10, <2>1, PersistSucceeds DEF SetSize
  <2>3. nextID = Raised(disk.nextID) /\ byID = disk.byID
    BY <1>t, <2>1 DEF MemoryIsFile
  <2>4. Raised(disk'.nextID) = nextID
    BY <1>t, <2>2, RaisedCounter DEF TypeOK
  <2>5. /\ byID'[id] # nil /\ byID'[id].ready = byID[id].ready
        /\ \A i \in ID : i # id => byID'[i] = byID[i]
    <3>1. byID[id] \in Course
      BY <1>t, <1>10 DEF SetSize, Known, TypeOK
    <3>2. byID'[id] = [byID[id] EXCEPT !.size = size]
      BY <1>t, <1>10 DEF SetSize, TypeOK
    <3>3. byID'[id] \in Course /\ byID'[id].ready = byID[id].ready
      BY <3>1, <3>2 DEF Course
    <3> QED
      BY <1>t, <1>10, <3>3, NilIsNoCourse DEF SetSize, TypeOK
  <2>6. MemoryIsFile'
    BY <2>1, <2>2, <2>4 DEF MemoryIsFile
  <2>7. FileIsHistory'
    BY <1>t, <1>10, <2>2, <2>3, <2>4, <2>5
       DEF SetSize, Known, FileIsHistory, history
  <2> QED
    BY <2>6, <2>7
<1>11. CASE Crash
  BY <1>t, <1>11, SameFile DEF Crash, history, MemoryIsFile
<1>12. CASE UNCHANGED vars
  BY <1>t, <1>12, SameFile DEF vars, MemoryIsFile
<1> QED
  BY <1>1, <1>2, <1>3, <1>4, <1>5, <1>6, <1>7, <1>8, <1>9, <1>10, <1>11,
     <1>12 DEF Next, Load, Operation

LEMMA DurableInvariant ==
  ASSUME Calm
  PROVE  Spec => []DurableInv
<1>1. DurableInv /\ [Next]_vars => DurableInv'
  BY DurableStep
<1> QED
  BY <1>1, DurableInit, PTL DEF Spec

\* When nothing fails, what complete() answered holds from then on, through
\* any number of crashes.
THEOREM VerdictsHold ==
  ASSUME Calm
  PROVE  Spec => []VerdictHonoured
<1>1. DurableInv => VerdictHonoured
  BY DEF DurableInv, MemoryIsFile, FileIsHistory, VerdictHonoured, Known
<1> QED
  BY <1>1, DurableInvariant, PTL

\* When nothing fails, the data_id alloc returns is a new one.
LEMMA FreshID ==
  ASSUME Calm, DurableInv, NEW owner \in Owners, NEW size \in Sizes,
         Alloc(owner, size)
  PROVE  nextID \in ID \ issued
<1>1. phase = "serving"
  BY DEF Alloc, RMCServed, Calm
<1> QED
  BY <1>1, IDFacts DEF Alloc, DurableInv, MemoryIsFile, FileIsHistory

\* When nothing fails, alloc never issues a data_id twice, in one run of the
\* process or across restarts.
THEOREM NoReissue ==
  ASSUME Calm
  PROVE  Spec => AllocFresh
<1>1. DurableInv =>
        [\A owner \in Owners, size \in Sizes :
           Alloc(owner, size) => nextID \notin issued]_vars
  BY FreshID
<1> QED
  BY <1>1, DurableInvariant, PTL DEF AllocFresh
-----------------------------------------------------------------------------
(* The catalog implements DurableCatalog.                                  *)

\* Any other step leaves the file alone and with it the abstract table.
LEMMA HiddenStep ==
  ASSUME DurableInv, DurableInv', UNCHANGED disk,
         \/ phase # "serving" \/ phase' # "serving"
         \/ UNCHANGED <<nextID, byID, phase>>
  PROVE  UNCHANGED Durable!vars
<1>1. /\ phase = "serving" => byID = disk.byID /\ nextID = Raised(disk.nextID)
      /\ phase' = "serving" =>
           byID' = disk'.byID /\ nextID' = Raised(disk.nextID)'
  BY DEF DurableInv, MemoryIsFile
<1> QED
  BY <1>1 DEF Durable!vars, Raised

LEMMA ImplementsInit == Init => Durable!Init
BY EmptyFileType, RaisedCounter
   DEF Init, Durable!Init, EmptyFile, NoCourses, Durable!ID, ID,
       Durable!nil, nil

LEMMA ImplementsStep ==
  ASSUME Calm, DurableInv, DurableInv', [Next]_vars
  PROVE  [Durable!Next]_Durable!vars
<1> USE DEF Durable!ID, ID, Durable!nil, nil
<1>1. CASE Load
  <2>1. UNCHANGED disk /\ (phase # "serving" \/ phase' # "serving")
    BY <1>1 DEF Load, SetPath, ReadCatalog, CompareNextID, RaiseNextID,
                MergeCourse, FinishLoad
  <2> QED
    BY <2>1, HiddenStep
<1>2. ASSUME NEW owner \in Owners, NEW size \in Sizes, Alloc(owner, size)
      PROVE  Durable!Reserve(owner, size)
  <2>1. phase = "serving" /\ phase' = "serving"
    BY <1>2 DEF Alloc, RMCServed, RaiseOverwritten, Calm
  <2> QED
    BY <1>2, <2>1 DEF Alloc, Durable!Reserve
<1>3. ASSUME NEW id \in ID, CompleteOK(id) PROVE Durable!Publish(id)
  <2>1. phase = "serving" /\ phase' = "serving"
    BY <1>3 DEF CompleteOK, RMCServed, Calm
  <2> QED
    BY <1>3, <2>1 DEF CompleteOK, Known, Durable!Publish
<1>4. ASSUME NEW id \in ID, CompleteCancelled(id) PROVE Durable!Drop(id)
  <2>1. phase = "serving" /\ phase' = "serving"
    BY <1>4 DEF CompleteCancelled, RMCServed, Calm
  <2> QED
    BY <1>4, <2>1 DEF CompleteCancelled, Known, Durable!Drop
<1>5. ASSUME NEW id \in ID, NEW size \in Sizes, SetSize(id, size)
      PROVE  Durable!Resize(id, size)
  BY <1>5 DEF SetSize, Known, Durable!Resize
<1>6. CASE Crash
  BY <1>6, HiddenStep DEF Crash
<1>7. CASE UNCHANGED vars
  BY <1>7, HiddenStep DEF vars
<1> QED
  BY <1>1, <1>2, <1>3, <1>4, <1>5, <1>6, <1>7
     DEF Next, Operation, Durable!Next

\* When nothing fails, the catalog with its file, its start-up and its
\* crashes behaves as one table that forgets nothing and reissues nothing.
THEOREM Implementation ==
  ASSUME Calm
  PROVE  Spec => ImplementsDurable
<1>1. DurableInv /\ DurableInv' /\ [Next]_vars => [Durable!Next]_Durable!vars
  BY ImplementsStep
<1> QED
  BY <1>1, ImplementsInit, DurableInvariant, PTL
     DEF Spec, ImplementsDurable, Durable!Spec
=============================================================================
