------------------------ MODULE CourseTransferProofs ------------------------
(***************************************************************************)
(* Theorems about CourseTransfer, for any number of consoles, PUTs and     *)
(* data_ids and for any lengths of courses.                                *)
(***************************************************************************)
EXTENDS CourseTransfer, CourseCatalogProofs

-----------------------------------------------------------------------------
(* Type correctness, and what it takes for the catalog's operations to be  *)
(* called as the catalog allows: a console that has begun has a data_id,   *)
(* and a body that has been read has a size.                               *)

ShapeInv ==
  /\ TransferTypeOK
  /\ \A c \in Owners : console[c].step # "idle" =>
       console[c].id \in ID /\ console[c].length \in Lengths
  /\ \A c \in Owners : console[c].step = "waiting" => Current(c) \in Puts
  /\ \A p \in Puts : put[p].stage # "none" => console[p[1]].step # "idle"
  /\ \A p \in Puts : put[p].stage \notin {"none", "body"} => put[p].body \in Sizes
  /\ \A g \in Guests : guest[g].step # "idle" => guest[g].id \in ID

LEMMA PutsFacts ==
  /\ \A p \in Puts : p[1] \in Owners
  /\ \A c \in Owners, k \in 1 .. MaxPuts : <<c, k>> \in Puts /\ <<c, k>>[1] = c
BY DEF Puts

\* The records the actions build are well formed.
ConsoleState == [step : ConsoleSteps, id : ID \union {NoID},
                 length : Sizes \union {0}, puts : 0 .. MaxPuts]
PutState     == [stage : PutStages, body : Sizes \union {0}]
GuestState   == [step : GuestSteps, id : ID \union {NoID}, size : Sizes \union {0},
                 ready : BOOLEAN, got : Sizes \union {0}]

LEMMA ShapeInit == TransferInit => ShapeInv
<1> SUFFICES ASSUME TransferInit PROVE ShapeInv
  OBVIOUS
<1>1. \A c \in Owners : console[c].step = "idle"
  BY DEF TransferInit
<1>2. \A p \in Puts : put[p] = NoPut
  BY DEF TransferInit
<1>3. \A g \in Guests : guest[g] = NoGuest
  BY DEF TransferInit
<1>4. console \in [Owners -> ConsoleState]
  BY TransferAssumption DEF TransferInit, ConsoleState, ConsoleSteps
<1>5. put \in [Puts -> PutState]
  BY DEF TransferInit, NoPut, PutState, PutStages
<1>6. guest \in [Guests -> GuestState]
  BY DEF TransferInit, NoGuest, GuestState, GuestSteps
<1>7. TransferTypeOK
  BY <1>4, <1>5, <1>6
     DEF TransferInit, TransferTypeOK, ConsoleState, PutState, GuestState
<1> QED
  BY <1>1, <1>2, <1>3, <1>7 DEF ShapeInv, NoPut, NoGuest

\* A console that is moved on to another step, with the same course.
LEMMA ConsoleMoved ==
  ASSUME ShapeInv, NEW c \in Owners, console[c].step # "idle",
         NEW step \in ConsoleSteps \ {"idle", "waiting"},
         console' = [console EXCEPT ![c].step = step],
         UNCHANGED <<files, put, guest>>
  PROVE  ShapeInv'
<1> DEFINE r == [console[c] EXCEPT !.step = step]
<1>1. console[c] \in ConsoleState
  BY DEF ShapeInv, TransferTypeOK, ConsoleState
<1>2. r \in ConsoleState /\ r.id = console[c].id /\ r.length = console[c].length
      /\ r.step = step
  BY <1>1 DEF ConsoleState
<1>3. console' = [console EXCEPT ![c] = r]
  OBVIOUS
<1>4. console' \in [Owners -> ConsoleState]
  BY <1>2, <1>3 DEF ShapeInv, TransferTypeOK, ConsoleState
<1>5. \A d \in Owners : console'[d].step # "idle" =>
        /\ console[d].step # "idle"
        /\ console'[d].id = console[d].id /\ console'[d].length = console[d].length
  BY <1>2, <1>3, <1>4 DEF ShapeInv, TransferTypeOK
<1>6. \A d \in Owners : console[d].step # "idle" => console'[d].step # "idle"
  BY <1>2, <1>3, <1>4 DEF ShapeInv, TransferTypeOK
<1>7. TransferTypeOK'
  BY <1>4 DEF ShapeInv, TransferTypeOK, ConsoleState
<1>8. \A d \in Owners : console'[d].step = "waiting" => Current(d)' \in Puts
  BY <1>2, <1>3, <1>4 DEF ShapeInv, TransferTypeOK, Current
<1> QED
  BY <1>4, <1>5, <1>6, <1>7, <1>8, PutsFacts DEF ShapeInv

\* A PUT that goes on to another stage, and the file it writes meanwhile.
LEMMA PutMoved ==
  ASSUME ShapeInv, NEW p \in Puts, put[p].stage # "none",
         NEW stage \in PutStages, NEW body \in Sizes \union {0},
         stage \notin {"none", "body"} => body \in Sizes,
         put' = [put EXCEPT ![p] = [stage |-> stage, body |-> body]],
         files' \in [ID -> Sizes \union {0, NoFile}],
         UNCHANGED <<console, guest>>
  PROVE  ShapeInv'
<1>1. [stage |-> stage, body |-> body] \in PutState
  BY DEF PutState
<1>2. put' \in [Puts -> PutState]
  BY <1>1 DEF ShapeInv, TransferTypeOK, PutState
<1>3. TransferTypeOK'
  BY <1>2 DEF ShapeInv, TransferTypeOK, PutState
<1> QED
  BY <1>3 DEF ShapeInv, TransferTypeOK, Current

\* What a guest does, and is told, is well formed.
LEMMA GuestMoved ==
  ASSUME ShapeInv, NEW g \in Guests, NEW r \in GuestState,
         r.step # "idle" => r.id \in ID,
         guest' = [guest EXCEPT ![g] = r],
         UNCHANGED <<files, console, put>>
  PROVE  ShapeInv'
<1>1. guest' \in [Guests -> GuestState]
  BY DEF ShapeInv, TransferTypeOK, GuestState
<1>2. TransferTypeOK'
  BY <1>1 DEF ShapeInv, TransferTypeOK, GuestState
<1> QED
  BY <1>2 DEF ShapeInv, TransferTypeOK, Current

LEMMA ShapeStep == TypeInv /\ ShapeInv /\ [TransferNext]_allVars => ShapeInv'
<1> SUFFICES ASSUME TypeInv, ShapeInv, [TransferNext]_allVars PROVE ShapeInv'
  OBVIOUS
<1>t. /\ console \in [Owners -> ConsoleState]
      /\ put \in [Puts -> PutState]
      /\ guest \in [Guests -> GuestState]
      /\ files \in [ID -> Sizes \union {0, NoFile}]
  BY DEF ShapeInv, TransferTypeOK, ConsoleState, PutState, GuestState
<1>u. ASSUME UNCHANGED transfer PROVE ShapeInv'
  BY <1>u DEF transfer, ShapeInv, TransferTypeOK, Current
<1>1. ASSUME NEW c \in Owners, NEW length \in Lengths, PreparePost(c, length)
      PROVE  ShapeInv'
  <2> DEFINE r == [console[c] EXCEPT !.step = "upload", !.id = nextID,
                                     !.length = length]
  <2>1. nextID \in ID
    BY <1>1 DEF PreparePost, Alloc
  <2>2. /\ r \in ConsoleState /\ r.id = nextID /\ r.length = length
        /\ r.step = "upload"
    BY <1>t, <2>1 DEF ConsoleState, ConsoleSteps, Lengths
  <2>3. console' = [console EXCEPT ![c] = r]
    BY <1>1 DEF PreparePost
  <2>4. console' \in [Owners -> ConsoleState]
    BY <1>t, <2>2, <2>3
  <2>5. TransferTypeOK'
    BY <1>1, <2>4 DEF PreparePost, ShapeInv, TransferTypeOK, ConsoleState
  <2>6. \A d \in Owners : console'[d] = IF d = c THEN r ELSE console[d]
    BY <1>t, <2>3
  <2> HIDE DEF r
  <2>7. \A d \in Owners : console'[d].step # "idle" =>
          console'[d].id \in ID /\ console'[d].length \in Lengths
    BY <2>1, <2>2, <2>6 DEF ShapeInv
  <2>8. \A d \in Owners : console[d].step # "idle" => console'[d].step # "idle"
    BY <2>2, <2>6
  <2>9. \A d \in Owners : console'[d].step = "waiting" =>
          console[d].step = "waiting" /\ console'[d] = console[d]
    BY <2>2, <2>6
  <2> QED
    BY <1>1, <2>5, <2>7, <2>8, <2>9, PutsFacts DEF PreparePost, ShapeInv, Current
<1>2. ASSUME NEW c \in Owners, SendPut(c) PROVE ShapeInv'
  <2> DEFINE k == console[c].puts + 1
             r == [console[c] EXCEPT !.step = "waiting", !.puts = @ + 1]
             q == [stage |-> "body", body |-> 0]
  <2>1. k \in 1 .. MaxPuts
    BY <1>t, <1>2, TransferAssumption DEF SendPut, ConsoleState
  <2>2. /\ r \in ConsoleState /\ r.id = console[c].id
        /\ r.length = console[c].length /\ r.step = "waiting"
    <3>1. console[c] \in ConsoleState /\ k \in 0 .. MaxPuts
      BY <1>t, <2>1
    <3>2. "waiting" \in ConsoleSteps
      BY DEF ConsoleSteps
    <3> QED
      BY <3>1, <3>2 DEF ConsoleState
  <2>3. \A d \in Owners : console'[d] = IF d = c THEN r ELSE console[d]
    BY <1>t, <1>2 DEF SendPut
  <2>4. console' \in [Owners -> ConsoleState]
    BY <1>t, <1>2, <2>2 DEF SendPut
  <2>5. /\ put' = [put EXCEPT ![<<c, k>>] = q]
        /\ q \in PutState /\ <<c, k>> \in Puts
    BY <1>2, <2>1, PutsFacts DEF SendPut, PutState, PutStages
  <2>6. put' \in [Puts -> PutState]
    BY <1>t, <2>5
  <2>7. TransferTypeOK'
    BY <1>2, <2>4, <2>6
       DEF SendPut, ShapeInv, TransferTypeOK, ConsoleState, PutState
  <2>8. \A p \in Puts : put'[p] = IF p = <<c, k>> THEN q ELSE put[p]
    BY <1>t, <2>5
  <2>9. \A d \in Owners : console[d].step # "idle" =>
          /\ console'[d].step # "idle" /\ console'[d].id = console[d].id
          /\ console'[d].length = console[d].length
    BY <2>2, <2>3
  <2>10. console[c].step # "idle"
    BY <1>2 DEF SendPut
  <2>14. r.puts = k
    BY <1>t DEF ConsoleState
  <2> HIDE DEF r, k, q
  <2>15. \A d \in Owners : console'[d].step = "waiting" => Current(d)' \in Puts
    BY <2>1, <2>3, <2>14, PutsFacts DEF ShapeInv, Current
  <2>11. \A p \in Puts : put'[p].stage # "none" => console'[p[1]].step # "idle"
    BY <2>1, <2>8, <2>9, <2>10, PutsFacts DEF ShapeInv
  <2>12. \A p \in Puts : put'[p].stage \notin {"none", "body"} => put'[p].body \in Sizes
    BY <2>8 DEF ShapeInv, q
  <2>13. \A d \in Owners : console'[d].step # "idle" => console[d].step # "idle"
    BY <2>3, <2>10
  <2> QED
    BY <1>2, <2>7, <2>9, <2>11, <2>12, <2>13, <2>15 DEF SendPut, ShapeInv
<1>3. ASSUME NEW c \in Owners, GiveUp(c) PROVE ShapeInv'
  BY <1>3, ConsoleMoved DEF GiveUp, ConsoleSteps
<1>4. ASSUME NEW c \in Owners, PutAnswered(c) PROVE ShapeInv'
  BY <1>4, ConsoleMoved DEF PutAnswered, ConsoleSteps
<1>5. ASSUME NEW c \in Owners, NEW id \in ID, NEW success \in BOOLEAN,
             CompletePost(c, id, success)
      PROVE  ShapeInv'
  <2> DEFINE step == IF success THEN "done" ELSE "cancelled"
  <2>1. CASE InOrder(c, id, success)
    <3>1. /\ console[c].step # "idle" /\ step \in ConsoleSteps \ {"idle", "waiting"}
          /\ console' = [console EXCEPT ![c].step = step]
      BY <1>5, <2>1 DEF CompletePost, InOrder, ConsoleSteps
    <3> HIDE DEF step
    <3> QED
      BY <1>5, <3>1, ConsoleMoved DEF CompletePost
  <2>2. CASE ~InOrder(c, id, success)
    BY <1>5, <1>u, <2>2 DEF CompletePost, transfer
  <2> QED
    BY <2>1, <2>2
<1>7. ASSUME NEW p \in Puts, ReadBody(p) PROVE ShapeInv'
  <2>1. PICK n \in Sizes : put' = [put EXCEPT ![p] = [stage |-> "open", body |-> n]]
    BY <1>7 DEF ReadBody
  <2> QED
    BY <1>t, <1>7, <2>1, PutMoved DEF ReadBody, PutStages
<1>b. ASSUME NEW p \in Puts, put[p].stage \in {"open", "write", "size"},
             NEW stage \in {"write", "size", "ok", "failed"},
             put' = [put EXCEPT ![p].stage = stage],
             files' \in [ID -> Sizes \union {0, NoFile}],
             UNCHANGED <<console, guest>>
      PROVE  ShapeInv'
  <2>1. put[p].body \in Sizes
    BY <1>b DEF ShapeInv
  <2>2. [put[p] EXCEPT !.stage = stage] = [stage |-> stage, body |-> put[p].body]
    BY <1>t DEF PutState
  <2>3. put' = [put EXCEPT ![p] = [stage |-> stage, body |-> put[p].body]]
    BY <1>b, <2>2
  <2> QED
    BY <1>b, <2>1, <2>3, PutMoved DEF PutStages
<1>8. ASSUME NEW p \in Puts, OpenBlob(p) PROVE ShapeInv'
  <2>1. files' \in [ID -> Sizes \union {0, NoFile}]
    BY <1>t, <1>8 DEF OpenBlob
  <2> QED
    BY <1>8, <1>b, <2>1 DEF OpenBlob
<1>9. ASSUME NEW p \in Puts, WriteBlob(p) PROVE ShapeInv'
  <2>1. Target(p) \in ID /\ put[p].body \in Sizes
    BY <1>9, PutsFacts DEF WriteBlob, Target, ShapeInv
  <2>2. \A n \in Sizes : LongerOf(files[Target(p)], n) \in Sizes \union {0, NoFile}
    BY <1>t, <2>1 DEF LongerOf
  <2>3. files' \in [ID -> Sizes \union {0, NoFile}]
    BY <1>t, <1>9, <2>1, <2>2 DEF WriteBlob
  <2> QED
    BY <1>9, <1>b, <2>3 DEF WriteBlob
<1>10. ASSUME NEW p \in Puts, RecordSize(p) PROVE ShapeInv'
  BY <1>t, <1>10, <1>b DEF RecordSize
<1>11. ASSUME NEW g \in Guests, NEW id \in ID, PrepareGet(g, id) PROVE ShapeInv'
  <2>1. CASE Known(id)
    <3>1. byID[id] \in Course
      BY <1>11, <2>1 DEF Known, TypeInv, TypeOK
    <3>2. [step |-> "told", id |-> id, size |-> byID[id].size,
           ready |-> byID[id].ready, got |-> 0] \in GuestState
      BY <3>1 DEF Course, GuestState, GuestSteps
    <3> QED
      BY <1>11, <2>1, <3>2, GuestMoved DEF PrepareGet
  <2>2. CASE ~Known(id)
    <3>1. [step |-> "elsewhere", id |-> id, size |-> 0, ready |-> FALSE,
           got |-> 0] \in GuestState
      BY DEF GuestState, GuestSteps
    <3> QED
      BY <1>11, <2>2, <3>1, GuestMoved DEF PrepareGet
  <2> QED
    BY <2>1, <2>2
<1>12. ASSUME NEW g \in Guests, FetchBlob(g) \/ Forget(g) PROVE ShapeInv'
  <2>1. CASE guest' = [guest EXCEPT ![g] = NoGuest]
    BY <1>12, <2>1, GuestMoved DEF FetchBlob, Forget, NoGuest, GuestState, GuestSteps
  <2>2. CASE FetchBlob(g) /\ files[guest[g].id] # NoFile
    <3> DEFINE r == [guest[g] EXCEPT !.step = "fetched", !.got = files[guest[g].id]]
    <3>1. guest[g].id \in ID
      BY <2>2 DEF FetchBlob, ShapeInv
    <3>2. r \in GuestState /\ r.id = guest[g].id
      BY <1>t, <2>2, <3>1 DEF GuestState, GuestSteps
    <3>3. guest' = [guest EXCEPT ![g] = r]
      BY <2>2 DEF FetchBlob
    <3> QED
      BY <2>2, <3>1, <3>2, <3>3, GuestMoved DEF FetchBlob
  <2> QED
    BY <1>12, <2>1, <2>2 DEF FetchBlob, Forget
<1>13. CASE ServerCrash
  <2>1. \A c \in Owners :
          /\ console'[c] \in ConsoleState
          /\ console'[c].id = console[c].id /\ console'[c].length = console[c].length
          /\ console'[c].step = "idle" <=> console[c].step = "idle"
          /\ console'[c].step # "waiting"
    <3> TAKE c \in Owners
    <3>1. [console[c] EXCEPT !.step = "upload"] \in ConsoleState
      BY <1>t DEF ConsoleState, ConsoleSteps
    <3> QED
      BY <1>t, <1>13, <3>1 DEF ServerCrash, ConsoleState
  <2>2. console' \in [Owners -> ConsoleState]
    BY <1>13, <2>1 DEF ServerCrash
  <2>3. put' \in [Puts -> PutState] /\ \A p \in Puts : put'[p].stage = "none"
    BY <1>13 DEF ServerCrash, NoPut, PutState, PutStages
  <2>4. TransferTypeOK'
    BY <1>13, <2>2, <2>3
       DEF ServerCrash, ShapeInv, TransferTypeOK, ConsoleState, PutState
  <2> QED
    BY <1>13, <2>1, <2>3, <2>4 DEF ServerCrash, ShapeInv
<1>14. CASE UNCHANGED allVars
  BY <1>14, <1>u DEF allVars, transfer
<1> QED
  BY <1>1, <1>2, <1>3, <1>4, <1>5, <1>7, <1>8, <1>9, <1>10, <1>11,
     <1>12, <1>13, <1>14, <1>u DEF TransferNext

\* Consoles and PUTs change the catalog by its own operations only.
LEMMA CatalogStep == ShapeInv /\ [TransferNext]_allVars => [Next]_vars
<1> SUFFICES ASSUME ShapeInv, [TransferNext]_allVars PROVE [Next]_vars
  OBVIOUS
<1> USE DEF Next, Operation
<1>1. ASSUME NEW c \in Owners, NEW length \in Lengths, PreparePost(c, length)
      PROVE  [Next]_vars
  BY <1>1 DEF PreparePost, Lengths
<1>2. ASSUME NEW c \in Owners, SendPut(c) \/ GiveUp(c) \/ PutAnswered(c)
      PROVE  [Next]_vars
  BY <1>2 DEF SendPut, GiveUp, PutAnswered
<1>3. ASSUME NEW c \in Owners, NEW id \in ID, NEW success \in BOOLEAN,
             CompletePost(c, id, success)
      PROVE  [Next]_vars
  BY <1>3 DEF CompletePost
<1>4. ASSUME NEW p \in Puts, ReadBody(p) \/ OpenBlob(p) \/ WriteBlob(p)
      PROVE  [Next]_vars
  BY <1>4 DEF ReadBody, OpenBlob, WriteBlob
<1>5. ASSUME NEW p \in Puts, RecordSize(p) PROVE [Next]_vars
  BY <1>5, PutsFacts DEF RecordSize, Target, ShapeInv
<1>6. ASSUME NEW g \in Guests, NEW id \in ID,
             PrepareGet(g, id) \/ FetchBlob(g) \/ Forget(g)
      PROVE  [Next]_vars
  BY <1>6 DEF PrepareGet, FetchBlob, Forget
<1>7. ASSUME NEW g \in Guests, FetchBlob(g) \/ Forget(g)
      PROVE  [Next]_vars
  BY <1>7 DEF FetchBlob, Forget
<1>8. CASE ServerCrash
  BY <1>8 DEF ServerCrash
<1>9. CASE UNCHANGED allVars
  BY <1>9 DEF allVars, vars
<1> QED
  BY <1>1, <1>2, <1>3, <1>4, <1>5, <1>6, <1>7, <1>8, <1>9 DEF TransferNext

\* Uploads and downloads run the catalog within its specification, whatever
\* fails: all that is proved of the catalog alone holds under them.
THEOREM CatalogDriven == TransferSpec => Spec /\ [](TypeInv /\ ShapeInv)
<1>1. TransferInit => Init /\ TypeInv /\ ShapeInv
  BY TypeInit, ShapeInit DEF TransferInit
<1>2. TypeInv /\ ShapeInv /\ [TransferNext]_allVars =>
        [Next]_vars /\ (TypeInv /\ ShapeInv)'
  BY CatalogStep, TypeStep, ShapeStep
<1> QED
  BY <1>1, <1>2, PTL DEF TransferSpec, Spec

\* Consoles, PUTs, files and guests are well formed under all faults, whether
\* or not consoles give up.
THEOREM TransferTypeCorrect == TransferSpec => []TransferTypeOK
<1>1. ShapeInv => TransferTypeOK
  BY DEF ShapeInv
<1> QED
  BY <1>1, CatalogDriven, PTL

-----------------------------------------------------------------------------
(* Behind every ready course whose data_id is completed in order there is  *)
(* a file, and what is completed out of order changes nothing of that.  A  *)
(* course is ready in memory, in the file of the catalog or in load()'s    *)
(* copy of that, and the three are not the same when saves and reads fail; *)
(* so all three are in the invariant.  Files are never removed, and a      *)
(* console that completes its course in order has had a PUT answered that  *)
(* wrote one.                                                              *)

HasBlob(m, f) ==
  \A id \in ID \ Unordered : m[id] # nil /\ m[id].ready => f[id] # NoFile

BlobInv ==
  /\ HasBlob(byID, files) /\ HasBlob(saved.byID, files) /\ HasBlob(disk.byID, files)
  /\ \A c \in Owners : console[c].step \in {"uploaded", "done"} =>
       files[console[c].id] # NoFile
  /\ \A p \in Puts : put[p].stage \in {"write", "size", "ok"} => files[Target(p)] # NoFile

\* A file that is there stays.
FilesStay == \A id \in ID : files[id] # NoFile => files'[id] # NoFile

LEMMA FilesStayStep ==
  ASSUME ShapeInv, BlobInv, [TransferNext]_allVars
  PROVE  FilesStay
<1>t. files \in [ID -> Sizes \union {0, NoFile}]
  BY DEF ShapeInv, TransferTypeOK
<1>1. ASSUME NEW p \in Puts, OpenBlob(p) PROVE FilesStay
  BY <1>t, <1>1 DEF OpenBlob, FilesStay, NoFile
<1>2. ASSUME NEW p \in Puts, WriteBlob(p) PROVE FilesStay
  <2>1. Target(p) \in ID
    BY <1>2, PutsFacts DEF WriteBlob, Target, ShapeInv
  <2>2. files[Target(p)] # NoFile
    BY <1>2 DEF WriteBlob, BlobInv
  <2>3. \A n \in Sizes : LongerOf(files[Target(p)], n) # NoFile
    BY <1>t, <2>1, <2>2, TransferAssumption DEF LongerOf, NoFile
  <2>4. put[p].body \in Sizes
    BY <1>2 DEF WriteBlob, ShapeInv
  <2>5. \E n \in Sizes : files' = [files EXCEPT ![Target(p)] = LongerOf(@, n)]
    BY <1>2, <2>4 DEF WriteBlob
  <2> QED
    BY <1>t, <2>3, <2>5 DEF FilesStay
<1>3. ASSUME UNCHANGED files PROVE FilesStay
  BY <1>3 DEF FilesStay
<1> QED
  BY <1>1, <1>2, <1>3
     DEF TransferNext, transfer, PreparePost, SendPut, GiveUp, PutAnswered,
         CompletePost, ReadBody, RecordSize, PrepareGet, FetchBlob,
         Forget, ServerCrash, allVars

\* A save leaves ready courses with files in the catalog's file.
LEMMA PersistBlob ==
  ASSUME NEW f, NEW c, NEW m, Persist(c, m), HasBlob(disk.byID, f), HasBlob(m, f)
  PROVE  HasBlob(disk'.byID, f)
BY DEF Persist

\* A step of the catalog that makes no course without a file ready.
CatalogMove(f) ==
  \/ Load
  \/ \E owner \in Owners, size \in Sizes : Alloc(owner, size)
  \/ \E id \in ID : CompleteOK(id) /\ (f[id] # NoFile \/ id \in Unordered)
  \/ \E id \in ID : CompleteCancelled(id)
  \/ \E id \in ID, size \in Sizes : SetSize(id, size)
  \/ Crash
  \/ UNCHANGED vars

\* No operation but complete() can make a course ready.
LEMMA CatalogBlob ==
  ASSUME TypeInv, NEW f, CatalogMove(f),
         HasBlob(byID, f), HasBlob(saved.byID, f), HasBlob(disk.byID, f)
  PROVE  HasBlob(byID', f) /\ HasBlob(saved'.byID, f) /\ HasBlob(disk'.byID, f)
<1>t. TypeOK
  BY DEF TypeInv
<1> DEFINE Goal == HasBlob(byID', f) /\ HasBlob(saved'.byID, f) /\ HasBlob(disk'.byID, f)
<1>e. HasBlob(NoCourses, f)
  BY EmptyFileType DEF HasBlob
<1>1. CASE SetPath \/ CompareNextID \/ RaiseNextID \/ FinishLoad
  BY <1>1 DEF SetPath, CompareNextID, RaiseNextID, FinishLoad, HasBlob
<1>2. CASE ReadCatalog
  BY <1>2, <1>e DEF ReadCatalog, HasBlob, EmptyFile
<1>3. ASSUME NEW id \in ID, MergeCourse(id) PROVE Goal
  <2>1. saved'.byID = [saved.byID EXCEPT ![id] = nil]
    BY <1>3, <1>t DEF MergeCourse, TypeOK, CatalogFile
  <2>2. \A i \in ID : byID'[i] = IF i = id THEN saved.byID[id] ELSE byID[i]
    BY <1>3, <1>t DEF MergeCourse, TypeOK
  <2>3. \A i \in ID : saved'.byID[i] = IF i = id THEN nil ELSE saved.byID[i]
    BY <2>1, <1>t DEF TypeOK, CatalogFile
  <2> QED
    BY <1>3, <2>2, <2>3 DEF MergeCourse, HasBlob
<1>4. ASSUME NEW owner \in Owners, NEW size \in Sizes, Alloc(owner, size)
      PROVE  Goal
  <2>1. HasBlob(byID', f)
    BY <1>4, <1>t DEF Alloc, TypeOK, HasBlob
  <2> QED
    BY <1>4, <2>1, PersistBlob DEF Alloc
<1>5. ASSUME NEW id \in ID, CompleteOK(id),
             f[id] # NoFile \/ id \in Unordered
      PROVE  Goal
  <2>2. \A i \in ID : i # id => byID'[i] = byID[i]
    BY <1>5, <1>t DEF CompleteOK, TypeOK
  <2>3. HasBlob(byID', f)
    BY <1>5, <2>2 DEF HasBlob
  <2> QED
    BY <1>5, <2>3, PersistBlob DEF CompleteOK
<1>6. ASSUME NEW id \in ID, CompleteCancelled(id) PROVE Goal
  <2>1. HasBlob(byID', f)
    BY <1>6, <1>t DEF CompleteCancelled, TypeOK, HasBlob
  <2> QED
    BY <1>6, <2>1, PersistBlob DEF CompleteCancelled
<1>7. ASSUME NEW id \in ID, NEW size \in Sizes, SetSize(id, size) PROVE Goal
  <2>1. byID[id] \in Course
    BY <1>7, <1>t DEF SetSize, Known, TypeOK
  <2>2. [byID[id] EXCEPT !.size = size].ready = byID[id].ready
    BY <2>1 DEF Course
  <2>3. \A i \in ID : byID'[i] = IF i = id THEN [byID[id] EXCEPT !.size = size] ELSE byID[i]
    BY <1>7, <1>t DEF SetSize, TypeOK
  <2>4. HasBlob(byID', f)
    BY <1>7, <2>2, <2>3 DEF HasBlob, SetSize, Known
  <2> QED
    BY <1>7, <2>4, PersistBlob DEF SetSize
<1>8. CASE Crash
  BY <1>8, <1>e DEF Crash, EmptyFile
<1>9. CASE UNCHANGED vars
  BY <1>9 DEF vars
<1> QED
  BY <1>1, <1>2, <1>3, <1>4, <1>5, <1>6, <1>7, <1>8, <1>9
     DEF CatalogMove, Load

LEMMA BlobInit == TransferInit => BlobInv
BY EmptyFileType
   DEF TransferInit, Init, BlobInv, HasBlob, EmptyFile, NoPut

\* In order, a course is completed only after a PUT of it was answered.
LEMMA TransferMove ==
  ASSUME ShapeInv, BlobInv, [TransferNext]_allVars
  PROVE  CatalogMove(files)
<1> USE DEF CatalogMove
<1>1. ASSUME NEW c \in Owners, NEW length \in Lengths, PreparePost(c, length)
      PROVE  CatalogMove(files)
  BY <1>1 DEF PreparePost, Lengths
<1>2. ASSUME NEW c \in Owners, NEW id \in ID, NEW success \in BOOLEAN,
             CompletePost(c, id, success)
      PROVE  CatalogMove(files)
  <2>1. success => files[id] # NoFile \/ id \in Unordered
    BY <1>2 DEF CompletePost, InOrder, BlobInv
  <2> QED
    BY <1>2, <2>1 DEF CompletePost
<1>4. ASSUME NEW p \in Puts, RecordSize(p) PROVE CatalogMove(files)
  BY <1>4, PutsFacts DEF RecordSize, Target, ShapeInv
<1>5. CASE ServerCrash
  BY <1>5 DEF ServerCrash
<1> QED
  BY <1>1, <1>2, <1>4, <1>5
     DEF TransferNext, SendPut, GiveUp, PutAnswered, ReadBody, OpenBlob,
         WriteBlob, PrepareGet, FetchBlob, Forget, allVars, vars

LEMMA BlobStep ==
  ASSUME TypeInv, ShapeInv, BlobInv, [TransferNext]_allVars
  PROVE  BlobInv'
<1>t. /\ console \in [Owners -> ConsoleState]
      /\ put \in [Puts -> PutState]
  BY DEF ShapeInv, TransferTypeOK, ConsoleState, PutState
<1>s. FilesStay
  BY FilesStayStep
<1>c. HasBlob(byID', files') /\ HasBlob(saved'.byID, files') /\ HasBlob(disk'.byID, files')
  <2>1. HasBlob(byID', files) /\ HasBlob(saved'.byID, files) /\ HasBlob(disk'.byID, files)
    BY TransferMove, CatalogBlob DEF BlobInv
  <2> QED
    BY <2>1, <1>s DEF HasBlob, FilesStay
<1> DEFINE Stored == /\ \A c \in Owners : console[c].step \in {"uploaded", "done"} =>
                          files[console[c].id] # NoFile
                     /\ \A p \in Puts : put[p].stage \in {"write", "size", "ok"} =>
                          files[Target(p)] # NoFile
<1> SUFFICES Stored'
  BY <1>c DEF BlobInv
<1>i. /\ \A c \in Owners : console[c].step # "idle" => console[c].id \in ID
      /\ \A p \in Puts : put[p].stage # "none" =>
           console[p[1]].step # "idle" /\ Target(p) \in ID
  BY PutsFacts DEF ShapeInv, Target
<1>u. ASSUME UNCHANGED <<files, console, put>> PROVE Stored'
  BY <1>u DEF BlobInv, Target
<1>1. ASSUME NEW c \in Owners, NEW length \in Lengths, PreparePost(c, length)
      PROVE  Stored'
  <2>1. \A d \in Owners : d # c => console'[d] = console[d]
    BY <1>1, <1>t DEF PreparePost
  <2>2. console[c].step = "idle" /\ console'[c].step = "upload"
    BY <1>1, <1>t DEF PreparePost, ConsoleState
  <2>3. \A p \in Puts : put[p].stage # "none" => p[1] # c
    BY <1>i, <2>2
  <2> QED
    BY <1>1, <2>1, <2>2, <2>3, PutsFacts DEF PreparePost, BlobInv, Target
<1>2. ASSUME NEW c \in Owners, SendPut(c) PROVE Stored'
  <2> DEFINE q == <<c, console[c].puts + 1>>
  <2>1. \A d \in Owners : /\ console'[d].id = console[d].id
                          /\ d # c => console'[d] = console[d]
    BY <1>2, <1>t DEF SendPut, ConsoleState
  <2>2. console'[c].step = "waiting"
    BY <1>2, <1>t DEF SendPut, ConsoleState
  <2>3. \A p \in Puts : put'[p] = put[p] \/ put'[p].stage = "body"
    BY <1>2, <1>t DEF SendPut
  <2> QED
    BY <1>2, <2>1, <2>2, <2>3, PutsFacts DEF SendPut, BlobInv, Target
<1>3. ASSUME NEW c \in Owners, GiveUp(c) PROVE Stored'
  <2>1. \A d \in Owners : /\ console'[d].id = console[d].id
                          /\ d # c => console'[d] = console[d]
    BY <1>3, <1>t DEF GiveUp, ConsoleState
  <2>2. console'[c].step = "upload" /\ UNCHANGED <<files, put>>
    BY <1>3, <1>t DEF GiveUp, ConsoleState
  <2> QED
    BY <2>1, <2>2, PutsFacts DEF BlobInv, Target
<1>d. ASSUME NEW c \in Owners, NEW id \in ID, NEW success \in BOOLEAN,
             CompletePost(c, id, success)
      PROVE  Stored'
  <2>1. CASE InOrder(c, id, success)
    <3>1. \A d \in Owners : /\ console'[d].id = console[d].id
                            /\ d # c => console'[d] = console[d]
      BY <1>d, <1>t, <2>1 DEF CompletePost, ConsoleState
    <3>2. /\ console'[c].step = IF success THEN "done" ELSE "cancelled"
          /\ success => console[c].step \in {"uploaded", "done"}
          /\ UNCHANGED <<files, put>>
      BY <1>d, <1>t, <2>1 DEF CompletePost, InOrder, ConsoleState
    <3> QED
      BY <3>1, <3>2, PutsFacts DEF BlobInv, Target
  <2>2. CASE ~InOrder(c, id, success)
    BY <1>d, <1>u, <2>2 DEF CompletePost
  <2> QED
    BY <2>1, <2>2
<1>4. ASSUME NEW c \in Owners, PutAnswered(c) PROVE Stored'
  <2>1. \A d \in Owners : /\ console'[d].id = console[d].id
                          /\ d # c => console'[d] = console[d]
    BY <1>4, <1>t DEF PutAnswered, ConsoleState
  <2>2. console'[c].step \in {"uploaded", "done"} => put[Current(c)].stage = "ok"
    BY <1>4, <1>t DEF PutAnswered, ConsoleState
  <2>3. put[Current(c)].stage = "ok" => files[console[c].id] # NoFile
    <3>1. Current(c) \in Puts /\ Current(c)[1] = c
      BY <1>4 DEF PutAnswered, ShapeInv, Current
    <3> QED
      BY <3>1 DEF BlobInv, Target
  <2> QED
    BY <1>4, <2>1, <2>2, <2>3, PutsFacts DEF PutAnswered, BlobInv, Target
<1>b. ASSUME NEW p \in Puts, NEW q, put' = [put EXCEPT ![p] = q], UNCHANGED console,
             q.stage \in {"write", "size", "ok"} => files'[Target(p)] # NoFile
      PROVE  Stored'
  <2>1. \A c \in Owners : console[c].step \in {"uploaded", "done"} =>
          files'[console[c].id] # NoFile
    BY <1>i, <1>s DEF BlobInv, FilesStay
  <2>2. \A r \in Puts : put[r].stage \in {"write", "size", "ok"} =>
          files'[Target(r)] # NoFile
    BY <1>i, <1>s DEF BlobInv, FilesStay
  <2>3. \A r \in Puts : put'[r] = IF r = p THEN q ELSE put[r]
    BY <1>t, <1>b
  <2> QED
    BY <1>b, <2>1, <2>2, <2>3 DEF Target
<1>5. ASSUME NEW p \in Puts, ReadBody(p) PROVE Stored'
  <2>1. PICK n \in Sizes : put' = [put EXCEPT ![p] = [stage |-> "open", body |-> n]]
    BY <1>5 DEF ReadBody
  <2> QED
    BY <1>5, <2>1, <1>b DEF ReadBody
<1>6. ASSUME NEW p \in Puts,
             NEW stage, put' = [put EXCEPT ![p].stage = stage], UNCHANGED console,
             stage = "failed" \/ files'[Target(p)] # NoFile
      PROVE  Stored'
  <2> DEFINE q == [put[p] EXCEPT !.stage = stage]
  <2>1. q.stage = stage
    BY <1>t DEF PutState
  <2>2. put' = [put EXCEPT ![p] = q]
    BY <1>6
  <2> HIDE DEF q
  <2> QED
    BY <1>6, <1>b, <2>1, <2>2
<1>7. ASSUME NEW p \in Puts, OpenBlob(p) PROVE Stored'
  <2>1. files' = [files EXCEPT ![Target(p)] = 0] => files'[Target(p)] # NoFile
    BY <1>7, <1>i DEF OpenBlob, NoFile, ShapeInv, TransferTypeOK
  <2> QED
    BY <1>7, <1>6, <2>1 DEF OpenBlob
<1>8. ASSUME NEW p \in Puts, WriteBlob(p) \/ RecordSize(p) PROVE Stored'
  <2>1. files[Target(p)] # NoFile /\ Target(p) \in ID
    BY <1>8, <1>i DEF WriteBlob, RecordSize, BlobInv
  <2>2. files'[Target(p)] # NoFile
    BY <1>s, <2>1 DEF FilesStay
  <2> QED
    BY <1>8, <1>6, <2>2 DEF WriteBlob, RecordSize
<1>9. CASE ServerCrash
  <2>1. \A p \in Puts : put'[p].stage = "none"
    BY <1>9 DEF ServerCrash, NoPut
  <2>2. \A c \in Owners : console'[c].step \in {"uploaded", "done"} =>
          console'[c] = console[c]
    BY <1>9, <1>t DEF ServerCrash, ConsoleState
  <2> QED
    BY <1>9, <2>1, <2>2 DEF ServerCrash, BlobInv
<1> QED
  BY <1>1, <1>2, <1>3, <1>4, <1>5, <1>7, <1>8, <1>9, <1>d, <1>u
     DEF TransferNext, PrepareGet, FetchBlob, Forget, allVars, transfer

\* For every set of data_ids that are completed out of order: behind a ready
\* course with any other data_id there is a file, though consoles give up and
\* retry, complete twice and cancel, saves, reads and writes fail, the catalog
\* is lost and data_ids are issued again.
THEOREM ReadyFileThere == TransferSpec => []ReadyHasBlob
<1>1. BlobInv => ReadyHasBlob
  BY DEF BlobInv, HasBlob, ReadyHasBlob, Known
<1>2. TypeInv /\ ShapeInv /\ BlobInv /\ [TransferNext]_allVars => BlobInv'
  BY BlobStep
<1> QED
  BY <1>1, <1>2, BlobInit, CatalogDriven, PTL DEF TransferSpec

-----------------------------------------------------------------------------
(* What a ready course promises, when the catalog's file is written and    *)
(* read without faults, no console gives up a PUT and all keep the order   *)
(* of the flow.  Blob files may fail, the process may crash, and consoles  *)
(* may complete again and cancel what they completed.  The argument goes   *)
(* over the file of the catalog, which no crash touches: while a console   *)
(* has a PUT in progress its course is in that file and not ready, so      *)
(* nothing that is promised speaks of the blob that is being written.      *)

Patient == Calm /\ ~Impatient /\ Unordered = {}

Uploading(c) == console[c].step \in {"upload", "waiting", "uploaded"}
Finished(c)  == console[c].step \in {"done", "cancelled"}

\* c's blob has the size of the catalog, and is whole unless it was cut.
Stored(c) ==
  LET id == console[c].id
  IN /\ disk.byID[id].size = files[id]
     /\ console[c].length <= MaxBody => files[id] = console[c].length

ConsoleWhole(c) ==
  LET id == console[c].id
  IN /\ console[c].step = "idle" => id = NoID
     /\ console[c].step # "idle" => id \in issued
     /\ Uploading(c) => disk.byID[id] # nil /\ ~disk.byID[id].ready
     /\ console[c].step \in {"uploaded", "done"} /\ disk.byID[id] # nil => Stored(c)
     /\ console[c].step = "cancelled" => disk.byID[id] = nil

\* No two consoles are given the same data_id.
OwnCourse(c, d) ==
  console[c].step # "idle" /\ console[c].id = console[d].id => c = d

\* Only the PUT its console waits for is in progress, and the blob is what
\* that PUT has done so far.
PutWhole(p) ==
  /\ Active(p) => phase = "serving" /\ Awaited(p)
  /\ Awaited(p) =>
       /\ put[p].stage = "write" => files[Target(p)] = 0
       /\ put[p].stage \in {"size", "ok"} => files[Target(p)] = put[p].body
       /\ put[p].stage = "ok" => disk.byID[Target(p)].size = put[p].body
       /\ /\ put[p].stage \in {"open", "write", "size", "ok"}
          /\ console[p[1]].length <= MaxBody
          => put[p].body = console[p[1]].length

\* What a guest was told of a ready course stays true of its blob.
GuestWhole(g) ==
  guest[g].step # "idle" /\ guest[g].ready =>
    /\ \E c \in Owners : console[c].id = guest[g].id /\ Finished(c)
    /\ guest[g].size = files[guest[g].id]
    /\ guest[g].step = "fetched" => guest[g].got = guest[g].size

\* What is in the catalog was uploaded by a console, and memory holds
\* nothing but what the file holds.
CatalogWhole ==
  \A id \in ID :
    /\ disk.byID[id] # nil =>
         \E c \in Owners : console[c].step # "idle" /\ console[c].id = id
    /\ Known(id) => byID[id] = disk.byID[id]

WholeInv ==
  /\ CatalogWhole
  /\ \A c \in Owners : ConsoleWhole(c)
  /\ \A c, d \in Owners : OwnCourse(c, d)
  /\ \A p \in Puts : PutWhole(p)
  /\ \A g \in Guests : GuestWhole(g)

\* The catalog's operations, seen in its file: when nothing fails, memory and
\* file agree before and after each of them.
Agreed ==
  /\ phase = "serving" /\ phase' = "serving"
  /\ byID = disk.byID /\ byID' = disk'.byID

LEMMA AllocFile ==
  ASSUME Calm, DurableInv, DurableInv',
         NEW owner \in Owners, NEW size \in Sizes, Alloc(owner, size)
  PROVE  /\ Agreed
         /\ nextID \in ID \ issued /\ issued' = issued \union {nextID}
         /\ disk'.byID[nextID] # nil /\ ~disk'.byID[nextID].ready
         /\ \A i \in ID \ {nextID} : disk'.byID[i] = disk.byID[i]
<1>1. Agreed
  BY DEF Agreed, Alloc, RMCServed, Calm, RaiseOverwritten, DurableInv, MemoryIsFile
<1>2. nextID \in ID \ issued
  BY FreshID
<1>3. byID \in [ID -> Course \union {nil}]
  BY DEF DurableInv, TypeInv, TypeOK
<1>4. [owner |-> owner, size |-> size, ready |-> FALSE] \in Course
  BY DEF Course
<1>5. [owner |-> owner, size |-> size, ready |-> FALSE] # nil
  BY <1>4, NilIsNoCourse
<1>6. \A i \in ID : byID'[i] = IF i = nextID
                               THEN [owner |-> owner, size |-> size, ready |-> FALSE]
                               ELSE byID[i]
  BY <1>3 DEF Alloc
<1>7. issued' = issued \union {nextID}
  BY DEF Alloc
<1> QED
  BY <1>1, <1>2, <1>5, <1>6, <1>7 DEF Agreed

LEMMA CompleteFile ==
  ASSUME Calm, DurableInv, DurableInv', NEW id \in ID, CompleteOK(id)
  PROVE  /\ Agreed /\ UNCHANGED issued
         /\ disk'.byID[id] # nil /\ disk'.byID[id].size = disk.byID[id].size
         /\ \A i \in ID \ {id} : disk'.byID[i] = disk.byID[i]
<1>1. Agreed
  BY DEF Agreed, CompleteOK, RMCServed, Calm, DurableInv, MemoryIsFile
<1>2. byID \in [ID -> Course \union {nil}] /\ byID[id] \in Course
  BY DEF DurableInv, TypeInv, TypeOK, CompleteOK, Known
<1>3. /\ [byID[id] EXCEPT !.ready = TRUE] # nil
      /\ [byID[id] EXCEPT !.ready = TRUE].size = byID[id].size
  BY <1>2, NilIsNoCourse DEF Course
<1> QED
  BY <1>1, <1>2, <1>3 DEF Agreed, CompleteOK

LEMMA CancelFile ==
  ASSUME Calm, DurableInv, DurableInv', NEW id \in ID, CompleteCancelled(id)
  PROVE  /\ Agreed /\ UNCHANGED issued
         /\ disk'.byID[id] = nil
         /\ \A i \in ID \ {id} : disk'.byID[i] = disk.byID[i]
<1>1. Agreed
  BY DEF Agreed, CompleteCancelled, RMCServed, Calm, DurableInv, MemoryIsFile
<1>2. byID \in [ID -> Course \union {nil}]
  BY DEF DurableInv, TypeInv, TypeOK
<1> QED
  BY <1>1, <1>2 DEF Agreed, CompleteCancelled

LEMMA SizeFile ==
  ASSUME Calm, DurableInv, DurableInv', NEW id \in ID, NEW size \in Sizes,
         SetSize(id, size)
  PROVE  /\ Agreed /\ UNCHANGED issued
         /\ disk'.byID[id] # nil /\ disk'.byID[id].size = size
         /\ disk'.byID[id].ready = disk.byID[id].ready
         /\ \A i \in ID \ {id} : disk'.byID[i] = disk.byID[i]
<1>1. Agreed
  BY DEF Agreed, SetSize, DurableInv, MemoryIsFile
<1>2. byID \in [ID -> Course \union {nil}] /\ byID[id] \in Course
  BY DEF DurableInv, TypeInv, TypeOK, SetSize, Known
<1>3. /\ [byID[id] EXCEPT !.size = size] # nil
      /\ [byID[id] EXCEPT !.size = size].size = size
      /\ [byID[id] EXCEPT !.size = size].ready = byID[id].ready
  BY <1>2, NilIsNoCourse DEF Course
<1> QED
  BY <1>1, <1>2, <1>3 DEF Agreed, SetSize, history

\* Nothing changes for a console whose course nobody else touches,
LEMMA ConsoleKept ==
  ASSUME NEW d \in Owners, ConsoleWhole(d), console'[d] = console[d],
         issued \subseteq issued',
         console[d].step # "idle" =>
           /\ disk'.byID[console[d].id] = disk.byID[console[d].id]
           /\ files'[console[d].id] = files[console[d].id]
  PROVE  ConsoleWhole(d)'
BY DEF ConsoleWhole, Uploading, Stored

\* for a PUT of such a console,
LEMMA PutKept ==
  ASSUME NEW p \in Puts, PutWhole(p),
         put'[p] = put[p], console'[p[1]] = console[p[1]],
         Active(p) => phase' = phase,
         Awaited(p) => /\ disk'.byID[Target(p)] = disk.byID[Target(p)]
                       /\ files'[Target(p)] = files[Target(p)]
  PROVE  PutWhole(p)'
BY DEF PutWhole, Active, Awaited, Target, Current

\* and for a guest, as long as finished courses are left alone.
LEMMA GuestKept ==
  ASSUME NEW g \in Guests, GuestWhole(g), guest'[g] = guest[g],
         \A c \in Owners : Finished(c) =>
           /\ Finished(c)' /\ console'[c].id = console[c].id
           /\ files'[console[c].id] = files[console[c].id]
  PROVE  GuestWhole(g)'
BY DEF GuestWhole

LEMMA WholeInit == TransferInit => WholeInv
<1> SUFFICES ASSUME TransferInit PROVE WholeInv
  OBVIOUS
<1>1. CatalogWhole
  BY EmptyFileType DEF TransferInit, Init, CatalogWhole, Known, EmptyFile
<1>2. \A c \in Owners : ConsoleWhole(c)
  BY DEF TransferInit, ConsoleWhole, Uploading
<1>3. \A c, d \in Owners : OwnCourse(c, d)
  BY DEF TransferInit, OwnCourse
<1>4. \A p \in Puts : PutWhole(p)
  BY PutsFacts DEF TransferInit, NoPut, PutWhole, Active, Awaited
<1>5. \A g \in Guests : GuestWhole(g)
  BY DEF TransferInit, NoGuest, GuestWhole
<1> QED
  BY <1>1, <1>2, <1>3, <1>4, <1>5 DEF WholeInv

\* A step of console c, and of the catalog on c's course alone.
LEMMA ConsoleStep ==
  ASSUME ShapeInv, ShapeInv', WholeInv, NEW c \in Owners,
         Finished(c) => Finished(c)', console'[c].step # "idle",
         UNCHANGED <<files, guest, phase>>, issued \subseteq issued',
         \A d \in Owners \ {c} : /\ console'[d] = console[d]
                                 /\ console[d].step # "idle" =>
                                      console[d].id # console'[c].id,
         \A i \in ID \ {console'[c].id} : disk'.byID[i] = disk.byID[i],
         byID' = disk'.byID \/ UNCHANGED <<byID, disk>>,
         ConsoleWhole(c)',
         console[c].step # "idle" => console'[c].id = console[c].id,
         \A p \in Puts : IF p[1] = c THEN PutWhole(p)' ELSE put'[p] = put[p]
  PROVE  WholeInv'
<1>1. CatalogWhole'
  <2> SUFFICES ASSUME NEW i \in ID
               PROVE  /\ disk'.byID[i] # nil =>
                           \E d \in Owners : console'[d].step # "idle" /\ console'[d].id = i
                      /\ byID'[i] # nil => byID'[i] = disk'.byID[i]
    BY DEF CatalogWhole, Known
  <2>1. CASE i = console'[c].id
    BY <2>1 DEF WholeInv, CatalogWhole, Known
  <2>2. CASE i # console'[c].id
    BY <2>2 DEF WholeInv, CatalogWhole, Known
  <2> QED
    BY <2>1, <2>2
<1>2. \A d \in Owners : ConsoleWhole(d)'
  BY ConsoleKept DEF WholeInv, ShapeInv
<1>3. \A d, e \in Owners : OwnCourse(d, e)'
  <2>1. \A d \in Owners : console[d].step = "idle" => console[d].id = NoID
    BY DEF WholeInv, ConsoleWhole
  <2>2. NoID \notin ID /\ console'[c].id \in ID
    BY BoundsAssumption DEF ShapeInv, ID, NoID
  <2> QED
    BY <2>1, <2>2 DEF WholeInv, OwnCourse
<1>4. \A p \in Puts : PutWhole(p)'
  <2> SUFFICES ASSUME NEW p \in Puts, p[1] # c PROVE PutWhole(p)'
    OBVIOUS
  <2>1. Awaited(p) => Target(p) \in ID /\ Target(p) # console'[c].id
    BY PutsFacts DEF Awaited, Target, ShapeInv
  <2> QED
    BY <2>1, PutsFacts, PutKept DEF WholeInv
<1>5. \A g \in Guests : GuestWhole(g)'
  BY GuestKept DEF WholeInv, Finished
<1> QED
  BY <1>1, <1>2, <1>3, <1>4, <1>5 DEF WholeInv

\* A step of a PUT in progress touches the course it is for and no other,
\* and that course is not ready.
LEMMA PutStep ==
  ASSUME ShapeInv, WholeInv, NEW p \in Puts, Active(p),
         UNCHANGED <<console, guest, phase, issued>>,
         \A r \in Puts \ {p} : put'[r] = put[r],
         \A i \in ID \ {Target(p)} : files'[i] = files[i] /\ disk'.byID[i] = disk.byID[i],
         disk'.byID[Target(p)] # nil, ~disk'.byID[Target(p)].ready,
         byID' = disk'.byID \/ UNCHANGED <<byID, disk>>,
         PutWhole(p)'
  PROVE  WholeInv'
<1> DEFINE c == p[1]
<1>0. /\ c \in Owners /\ Target(p) = console[c].id /\ Target(p) \in ID
      /\ console[c].step = "waiting" /\ Current(c) = p
  BY PutsFacts DEF WholeInv, PutWhole, Awaited, Target, ShapeInv
<1>o. \A d \in Owners \ {c} : console[d].step # "idle" =>
        console[d].id \in ID \ {Target(p)}
  BY <1>0 DEF WholeInv, OwnCourse, ShapeInv
<1>1. CatalogWhole'
  <2> SUFFICES ASSUME NEW i \in ID
               PROVE  /\ disk'.byID[i] # nil =>
                           \E d \in Owners : console[d].step # "idle" /\ console[d].id = i
                      /\ byID'[i] # nil => byID'[i] = disk'.byID[i]
    BY DEF CatalogWhole, Known
  <2>1. CASE i = Target(p)
    BY <1>0, <2>1 DEF WholeInv, CatalogWhole, Known
  <2>2. CASE i # Target(p)
    BY <2>2 DEF WholeInv, CatalogWhole, Known
  <2> QED
    BY <2>1, <2>2
<1>2. \A d \in Owners : ConsoleWhole(d)'
  <2>1. ConsoleWhole(c)'
    BY <1>0 DEF WholeInv, ConsoleWhole, Uploading
  <2>2. \A d \in Owners \ {c} : ConsoleWhole(d)'
    BY <1>o, ConsoleKept DEF WholeInv
  <2> QED
    BY <2>1, <2>2
<1>3. \A d, e \in Owners : OwnCourse(d, e)'
  BY DEF WholeInv, OwnCourse
<1>4. \A r \in Puts : PutWhole(r)'
  <2> SUFFICES ASSUME NEW r \in Puts \ {p} PROVE PutWhole(r)'
    OBVIOUS
  <2>1. Awaited(r) => r[1] # c
    BY <1>0 DEF Awaited
  <2>2. Awaited(r) => Target(r) \in ID \ {Target(p)}
    BY <1>o, <2>1, PutsFacts DEF Awaited, Target
  <2> QED
    BY <2>2, PutKept DEF WholeInv
<1>5. \A g \in Guests : GuestWhole(g)'
  <2>1. \A d \in Owners : Finished(d) => console[d].id \in ID \ {Target(p)}
    BY <1>0, <1>o DEF Finished
  <2> QED
    BY <2>1, GuestKept DEF WholeInv, Finished
<1> QED
  BY <1>1, <1>2, <1>3, <1>4, <1>5 DEF WholeInv

\* While a console is not waiting, no PUT of it is awaited or in progress.
LEMMA NoneAwaited ==
  ASSUME WholeInv, NEW p \in Puts, console[p[1]].step # "waiting"
  PROVE  ~Awaited(p) /\ ~Active(p)
BY DEF WholeInv, PutWhole, Awaited

LEMMA PreparePostWhole ==
  ASSUME Patient, TypeInv, DurableInv, DurableInv', ShapeInv, ShapeInv', WholeInv,
         NEW c \in Owners, NEW length \in Lengths, PreparePost(c, length)
  PROVE  WholeInv'
<1>1. /\ Agreed /\ nextID \in ID \ issued /\ issued' = issued \union {nextID}
      /\ disk'.byID[nextID] # nil /\ ~disk'.byID[nextID].ready
      /\ \A i \in ID \ {nextID} : disk'.byID[i] = disk.byID[i]
  BY AllocFile DEF PreparePost, Lengths, Patient
<1>2. /\ console[c].step = "idle"
      /\ console'[c].step = "upload" /\ console'[c].id = nextID
      /\ \A d \in Owners \ {c} : console'[d] = console[d]
  BY DEF PreparePost, ShapeInv, TransferTypeOK
<1>3. UNCHANGED <<files, put, guest, phase>> /\ byID' = disk'.byID
  BY <1>1 DEF PreparePost, Agreed
<1>4. ConsoleWhole(c)'
  BY <1>1, <1>2 DEF ConsoleWhole, Uploading
<1>5. \A p \in Puts : p[1] = c => PutWhole(p)'
  BY <1>2, <1>3, NoneAwaited DEF PutWhole, Active, Awaited
<1>6. \A d \in Owners \ {c} : console[d].step # "idle" => console[d].id # nextID
  BY <1>1 DEF WholeInv, ConsoleWhole
<1> QED
  BY <1>1, <1>2, <1>3, <1>4, <1>5, <1>6, ConsoleStep DEF Finished

LEMMA SendPutWhole ==
  ASSUME Patient, ShapeInv, ShapeInv', WholeInv,
         NEW c \in Owners, SendPut(c)
  PROVE  WholeInv'
<1> DEFINE q == <<c, console[c].puts + 1>>
<1>1. /\ console[c].step = "upload" /\ phase = "serving"
      /\ console'[c].step = "waiting" /\ console'[c].puts = console[c].puts + 1
      /\ console'[c].id = console[c].id /\ console'[c].length = console[c].length
      /\ \A d \in Owners \ {c} : console'[d] = console[d]
  BY DEF SendPut, ShapeInv, TransferTypeOK
<1>2. UNCHANGED <<vars, files, guest>>
  BY DEF SendPut
<1>3. \A p \in Puts : put'[p] = IF p = q THEN [stage |-> "body", body |-> 0] ELSE put[p]
  BY DEF SendPut, ShapeInv, TransferTypeOK
<1>4. Current(c)' = q
  BY <1>1 DEF Current
<1> HIDE DEF q
<1>5. ConsoleWhole(c)'
  BY <1>1, <1>2 DEF WholeInv, ConsoleWhole, Uploading, vars
<1>6. \A p \in Puts : p[1] = c => PutWhole(p)'
  <2> SUFFICES ASSUME NEW p \in Puts, p[1] = c PROVE PutWhole(p)'
    OBVIOUS
  <2>1. CASE p = q
    BY <1>1, <1>2, <1>3, <1>4, <2>1 DEF PutWhole, Active, Awaited, vars
  <2>2. CASE p # q
    BY <1>1, <1>3, <1>4, <2>2, NoneAwaited DEF PutWhole, Active, Awaited
  <2> QED
    BY <2>1, <2>2
<1>7. \A d \in Owners \ {c} : console[d].step # "idle" => console[d].id # console[c].id
  BY <1>1 DEF WholeInv, OwnCourse
<1>8. \A p \in Puts : p[1] # c => put'[p] = put[p]
  BY <1>3 DEF q
<1> QED
  BY <1>1, <1>2, <1>5, <1>6, <1>7, <1>8, ConsoleStep DEF vars, Finished

LEMMA PutAnsweredWhole ==
  ASSUME Patient, ShapeInv, ShapeInv', WholeInv,
         NEW c \in Owners, PutAnswered(c)
  PROVE  WholeInv'
<1>1. /\ console[c].step = "waiting"
      /\ \/ console'[c].step = "upload"
         \/ console'[c].step = "uploaded" /\ put[Current(c)].stage = "ok"
      /\ put[Current(c)].stage \in {"ok", "failed"}
      /\ console'[c].id = console[c].id /\ console'[c].length = console[c].length
      /\ \A d \in Owners \ {c} : console'[d] = console[d]
  BY DEF PutAnswered, ShapeInv, TransferTypeOK
<1>2. UNCHANGED <<vars, files, put, guest>>
  BY DEF PutAnswered
<1>3. Current(c) \in Puts /\ Awaited(Current(c)) /\ Current(c)[1] = c
      /\ Target(Current(c)) = console[c].id
  BY <1>1 DEF ShapeInv, Current, Awaited, Target
<1>4. ConsoleWhole(c)'
  <2>1. put[Current(c)].stage = "ok" => Stored(c)
    BY <1>3 DEF WholeInv, PutWhole, Stored
  <2> QED
    BY <1>1, <1>2, <2>1 DEF WholeInv, ConsoleWhole, Uploading, Stored, vars
<1>5. \A p \in Puts : p[1] = c => PutWhole(p)'
  <2> SUFFICES ASSUME NEW p \in Puts, p[1] = c PROVE ~Active(p)
    BY <1>1, <1>2 DEF PutWhole, Active, Awaited
  <2>1. Active(p) => p = Current(c)
    BY DEF WholeInv, PutWhole, Awaited
  <2> QED
    BY <1>1, <2>1 DEF Active
<1>6. \A d \in Owners \ {c} : console[d].step # "idle" => console[d].id # console[c].id
  BY <1>1 DEF WholeInv, OwnCourse
<1> QED
  BY <1>1, <1>2, <1>4, <1>5, <1>6, ConsoleStep DEF vars, Finished

LEMMA FinishPostWhole ==
  ASSUME Patient, TypeInv, DurableInv, DurableInv', ShapeInv, ShapeInv', WholeInv,
         NEW c \in Owners, NEW id \in ID, NEW success \in BOOLEAN,
         CompletePost(c, id, success)
  PROVE  WholeInv'
<1>1. /\ id = console[c].id
      /\ console[c].step \in {"upload", "uploaded", "done", "cancelled"}
      /\ success => console[c].step \in {"uploaded", "done"}
      /\ console' = [console EXCEPT
                       ![c].step = IF success THEN "done" ELSE "cancelled"]
      /\ UNCHANGED <<files, put, guest>>
  BY DEF CompletePost, InOrder, Patient
<1>2. /\ console'[c].step = IF success THEN "done" ELSE "cancelled"
      /\ console'[c].id = id /\ console'[c].length = console[c].length
      /\ \A d \in Owners \ {c} : console'[d] = console[d]
  BY <1>1 DEF ShapeInv, TransferTypeOK
<1>3. phase = "serving" /\ byID = disk.byID
  BY DEF CompletePost, RMCServed, Patient, Calm, DurableInv, MemoryIsFile
<1>4. /\ UNCHANGED <<issued, phase>> /\ byID' = disk'.byID
      /\ \A i \in ID \ {id} : disk'.byID[i] = disk.byID[i]
      /\ success => \/ disk'.byID[id] = nil
                    \/ /\ disk.byID[id] # nil
                       /\ disk'.byID[id].size = disk.byID[id].size
      /\ ~success => disk'.byID[id] = nil
  <2>1. CASE Known(id) /\ success
    BY <1>3, <2>1, CompleteFile DEF CompletePost, Patient, Agreed, Known
  <2>2. CASE Known(id) /\ ~success
    BY <2>2, CancelFile DEF CompletePost, Patient, Agreed
  <2>3. CASE ~Known(id)
    BY <1>3, <2>3 DEF CompletePost, CompleteOK, CompleteCancelled, Known, vars
  <2> QED
    BY <2>1, <2>2, <2>3
<1>5. ConsoleWhole(c)'
  <2>1. success /\ disk.byID[id] # nil => Stored(c)
    BY <1>1 DEF WholeInv, ConsoleWhole
  <2>2. id \in issued
    BY <1>1 DEF WholeInv, ConsoleWhole
  <2> QED
    BY <1>1, <1>2, <1>4, <2>1, <2>2 DEF ConsoleWhole, Uploading, Stored
<1>6. \A p \in Puts : p[1] = c => PutWhole(p)'
  BY <1>1, <1>2, NoneAwaited DEF PutWhole, Active, Awaited
<1>7. \A d \in Owners \ {c} : console[d].step # "idle" => console[d].id # id
  BY <1>1 DEF WholeInv, OwnCourse
<1> QED
  BY <1>1, <1>2, <1>4, <1>5, <1>6, <1>7, ConsoleStep DEF Finished

LEMMA ServePutWhole ==
  ASSUME Patient, TypeInv, DurableInv, DurableInv', ShapeInv, ShapeInv', WholeInv,
         NEW p \in Puts,
         ReadBody(p) \/ OpenBlob(p) \/ WriteBlob(p) \/ RecordSize(p)
  PROVE  WholeInv'
<1> DEFINE c == p[1]
<1>1. Active(p)
  BY DEF ReadBody, OpenBlob, WriteBlob, RecordSize, Active
<1>2. /\ phase = "serving" /\ Awaited(p)
      /\ c \in Owners /\ Target(p) = console[c].id /\ Target(p) \in ID
      /\ disk.byID[Target(p)] # nil /\ ~disk.byID[Target(p)].ready
  BY <1>1, PutsFacts
     DEF WholeInv, PutWhole, Awaited, Target, ShapeInv, ConsoleWhole, Uploading
<1>3. put[p].stage # "body" => put[p].body \in Sizes
  BY <1>1 DEF Active, ShapeInv
<1>t. files \in [ID -> Sizes \union {0, NoFile}] /\ put \in [Puts -> PutState]
  BY DEF ShapeInv, TransferTypeOK, PutState
<1>4. UNCHANGED <<console, guest>>
  BY DEF ReadBody, OpenBlob, WriteBlob, RecordSize
<1>5. Awaited(p)' /\ Target(p)' = Target(p)
  BY <1>2, <1>4 DEF Awaited, Target, Current
<1>6. CASE ReadBody(p)
  <2>1. PICK n \in Sizes :
          /\ console[c].length <= MaxBody => n = console[c].length
          /\ put' = [put EXCEPT ![p] = [stage |-> "open", body |-> n]]
    BY <1>2, <1>6 DEF ReadBody
  <2>2. PutWhole(p)'
    BY <1>2, <1>4, <1>5, <1>6, <1>t, <2>1 DEF ReadBody, PutWhole, Active, vars
  <2>3. \A r \in Puts \ {p} : put'[r] = put[r]
    BY <1>t, <2>1
  <2> QED
    BY <1>1, <1>2, <1>4, <1>6, <2>2, <2>3, PutStep DEF ReadBody, vars
<1>7. CASE OpenBlob(p)
  <2>1. /\ \A r \in Puts \ {p} : put'[r] = put[r]
        /\ \A i \in ID \ {Target(p)} : files'[i] = files[i]
        /\ put'[p].body = put[p].body
        /\ \/ put'[p].stage = "write" /\ files'[Target(p)] = 0
           \/ put'[p].stage = "failed"
    BY <1>2, <1>7, <1>t DEF OpenBlob, PutState
  <2>2. UNCHANGED vars /\ put[p].stage = "open"
    BY <1>7 DEF OpenBlob
  <2>3. PutWhole(p)'
    BY <1>2, <1>4, <1>5, <2>1, <2>2 DEF WholeInv, PutWhole, Active, vars
  <2> QED
    BY <1>1, <1>2, <1>4, <2>1, <2>2, <2>3, PutStep DEF vars
<1>8. CASE WriteBlob(p)
  <2>1. LongerOf(files[Target(p)], put[p].body) = put[p].body
    <3>1. files[Target(p)] = 0
      BY <1>2, <1>8 DEF WholeInv, PutWhole, WriteBlob
    <3> QED
      BY <1>3, <1>8, <3>1, TransferAssumption DEF WriteBlob, LongerOf
  <2>2. /\ \A r \in Puts \ {p} : put'[r] = put[r]
        /\ \A i \in ID \ {Target(p)} : files'[i] = files[i]
        /\ put'[p].body = put[p].body
        /\ \/ put'[p].stage = "size" /\ files'[Target(p)] = put[p].body
           \/ put'[p].stage = "failed"
    BY <1>2, <1>8, <1>t, <2>1 DEF WriteBlob, PutState
  <2>3. UNCHANGED vars /\ put[p].stage = "write"
    BY <1>8 DEF WriteBlob
  <2>4. PutWhole(p)'
    BY <1>2, <1>4, <1>5, <2>2, <2>3 DEF WholeInv, PutWhole, Active, vars
  <2> QED
    BY <1>1, <1>2, <1>4, <2>2, <2>3, <2>4, PutStep DEF vars
<1>9. CASE RecordSize(p)
  <2>1. Known(Target(p))
    BY <1>2 DEF DurableInv, MemoryIsFile, Known
  <2>2. SetSize(Target(p), put[p].body) /\ put[p].stage = "size"
    BY <1>9, <2>1 DEF RecordSize
  <2>3. /\ Agreed /\ UNCHANGED issued
        /\ disk'.byID[Target(p)] # nil /\ disk'.byID[Target(p)].size = put[p].body
        /\ ~disk'.byID[Target(p)].ready
        /\ \A i \in ID \ {Target(p)} : disk'.byID[i] = disk.byID[i]
    BY <1>2, <1>3, <2>2, SizeFile DEF Patient
  <2>4. /\ \A r \in Puts \ {p} : put'[r] = put[r]
        /\ put'[p].body = put[p].body /\ put'[p].stage = "ok"
        /\ UNCHANGED files
    BY <1>9, <1>t DEF RecordSize, PutState
  <2>5. PutWhole(p)'
    BY <1>2, <1>4, <1>5, <2>2, <2>3, <2>4 DEF WholeInv, PutWhole, Active
  <2> QED
    BY <1>1, <1>2, <1>4, <2>3, <2>4, <2>5, PutStep DEF Agreed
<1> QED
  BY <1>6, <1>7, <1>8, <1>9

\* A course that is ready was uploaded by a console that is done with it.
LEMMA ReadyIsDone ==
  ASSUME ShapeInv, WholeInv, NEW id \in ID, Known(id), byID[id].ready
  PROVE  \E c \in Owners : /\ console[c].id = id /\ console[c].step = "done"
                           /\ byID[id] = disk.byID[id] /\ Stored(c)
<1>1. PICK c \in Owners : console[c].step # "idle" /\ console[c].id = id
  BY DEF WholeInv, CatalogWhole, Known
<1>2. byID[id] = disk.byID[id] /\ disk.byID[id] # nil
  BY DEF WholeInv, CatalogWhole, Known
<1>3. console[c].step \in ConsoleSteps
  BY DEF ShapeInv, TransferTypeOK
<1>4. console[c].step = "done"
  BY <1>1, <1>2, <1>3 DEF WholeInv, ConsoleWhole, Uploading, ConsoleSteps
<1> QED
  BY <1>1, <1>2, <1>4 DEF WholeInv, ConsoleWhole

LEMMA GuestWholeStep ==
  ASSUME TypeInv, ShapeInv, WholeInv, NEW g \in Guests,
         FetchBlob(g) \/ Forget(g) \/ \E id \in ID : PrepareGet(g, id)
  PROVE  WholeInv'
<1>t. guest \in [Guests -> GuestState]
  BY DEF ShapeInv, TransferTypeOK, GuestState
<1>1. UNCHANGED <<vars, files, console, put>>
  BY DEF FetchBlob, Forget, PrepareGet
<1>2. \A h \in Guests \ {g} : guest'[h] = guest[h]
  BY <1>t DEF FetchBlob, Forget, PrepareGet
<1>3. GuestWhole(g)'
  <2>1. ASSUME NEW id \in ID, PrepareGet(g, id) PROVE GuestWhole(g)'
    <3>1. CASE Known(id)
      <4>1. guest'[g] = [step |-> "told", id |-> id, size |-> byID[id].size,
                         ready |-> byID[id].ready, got |-> 0]
        BY <1>t, <2>1, <3>1 DEF PrepareGet
      <4>2. byID[id].ready =>
              \E c \in Owners : /\ console[c].id = id /\ Finished(c)
                                /\ byID[id].size = files[id]
        BY <3>1, ReadyIsDone DEF Stored, Finished
      <4> QED
        BY <1>1, <4>1, <4>2 DEF GuestWhole, Finished
    <3>2. CASE ~Known(id)
      <4>1. guest'[g] = [step |-> "elsewhere", id |-> id, size |-> 0,
                         ready |-> FALSE, got |-> 0]
        BY <1>t, <2>1, <3>2 DEF PrepareGet
      <4> QED
        BY <4>1 DEF GuestWhole
    <3> QED
      BY <3>1, <3>2
  <2>2. CASE guest'[g] = NoGuest
    BY <2>2 DEF GuestWhole, NoGuest
  <2>3. CASE /\ FetchBlob(g)
             /\ guest' = [guest EXCEPT ![g].step = "fetched",
                                       ![g].got = files[guest[g].id]]
    <3>1. /\ guest'[g].step = "fetched" /\ guest'[g].got = files[guest[g].id]
          /\ guest'[g].id = guest[g].id /\ guest'[g].size = guest[g].size
          /\ guest'[g].ready = guest[g].ready
      BY <1>t, <2>3 DEF GuestState
    <3>2. guest[g].step # "idle"
      BY <2>3 DEF FetchBlob
    <3> QED
      BY <1>1, <3>1, <3>2 DEF WholeInv, GuestWhole, Finished
  <2> QED
    BY <1>t, <2>1, <2>2, <2>3 DEF FetchBlob, Forget
<1>4. CatalogWhole'
  BY <1>1 DEF WholeInv, CatalogWhole, Known, vars
<1>5. \A c \in Owners : ConsoleWhole(c)'
  BY <1>1, ConsoleKept DEF WholeInv, vars
<1>6. \A c, d \in Owners : OwnCourse(c, d)'
  BY <1>1 DEF WholeInv, OwnCourse
<1>7. \A p \in Puts : PutWhole(p)'
  BY <1>1, PutKept DEF WholeInv, vars
<1>8. \A h \in Guests \ {g} : GuestWhole(h)'
  BY <1>1, <1>2, GuestKept DEF WholeInv, Finished
<1> QED
  BY <1>3, <1>4, <1>5, <1>6, <1>7, <1>8 DEF WholeInv

\* No request is in progress while load() runs, and what it merges is what
\* the file holds.
LEMMA LoadWhole ==
  ASSUME TypeInv, DurableInv, ShapeInv, WholeInv, Load, UNCHANGED transfer
  PROVE  WholeInv'
<1>1. /\ UNCHANGED <<files, console, put, guest, disk, issued>>
      /\ phase # "serving"
  BY DEF Load, SetPath, ReadCatalog, CompareNextID, RaiseNextID, MergeCourse,
         FinishLoad, history, transfer
<1>2. CatalogWhole'
  <2>1. CASE UNCHANGED byID
    BY <1>1, <2>1 DEF WholeInv, CatalogWhole, Known
  <2>2. ASSUME NEW id \in ID, MergeCourse(id) PROVE CatalogWhole'
    <3>1. \A i \in ID : byID'[i] = IF i = id THEN saved.byID[id] ELSE byID[i]
      BY <2>2 DEF MergeCourse, TypeInv, TypeOK
    <3>2. saved.byID[id] = disk.byID[id]
      BY <2>2 DEF MergeCourse, DurableInv, MemoryIsFile
    <3> QED
      BY <1>1, <3>1, <3>2 DEF WholeInv, CatalogWhole, Known
  <2> QED
    BY <2>1, <2>2 DEF Load, SetPath, ReadCatalog, CompareNextID, RaiseNextID,
                      FinishLoad
<1>3. \A c \in Owners : ConsoleWhole(c)'
  BY <1>1, ConsoleKept DEF WholeInv
<1>4. \A c, d \in Owners : OwnCourse(c, d)'
  BY <1>1 DEF WholeInv, OwnCourse
<1>5. \A p \in Puts : PutWhole(p)'
  <2>1. \A p \in Puts : ~Active(p)
    BY <1>1 DEF WholeInv, PutWhole
  <2> QED
    BY <1>1, <2>1, PutKept DEF WholeInv
<1>6. \A g \in Guests : GuestWhole(g)'
  BY <1>1, GuestKept DEF WholeInv, Finished
<1> QED
  BY <1>2, <1>3, <1>4, <1>5, <1>6 DEF WholeInv

LEMMA CrashWhole ==
  ASSUME ShapeInv, WholeInv, ServerCrash
  PROVE  WholeInv'
<1>1. UNCHANGED <<files, guest, disk, issued>> /\ byID' = NoCourses
  BY DEF ServerCrash, Crash, history
<1>2. \A c \in Owners :
        /\ console'[c].id = console[c].id /\ console'[c].length = console[c].length
        /\ IF console[c].step = "waiting" THEN console'[c].step = "upload"
                                          ELSE console'[c] = console[c]
  BY DEF ServerCrash, ShapeInv, TransferTypeOK
<1>3. \A p \in Puts : ~Active(p)' /\ ~Awaited(p)'
  BY <1>2, PutsFacts DEF ServerCrash, NoPut, Active, Awaited
<1>4. CatalogWhole'
  BY <1>1, <1>2, EmptyFileType DEF WholeInv, CatalogWhole, Known
<1>5. \A c \in Owners : ConsoleWhole(c)'
  BY <1>1, <1>2 DEF WholeInv, ConsoleWhole, Uploading, Stored
<1>6. \A c, d \in Owners : OwnCourse(c, d)'
  BY <1>2 DEF WholeInv, OwnCourse
<1>7. \A p \in Puts : PutWhole(p)'
  BY <1>3 DEF PutWhole
<1>8. \A g \in Guests : GuestWhole(g)'
  BY <1>1, <1>2, GuestKept DEF WholeInv, Finished
<1> QED
  BY <1>4, <1>5, <1>6, <1>7, <1>8 DEF WholeInv

LEMMA WholeStep ==
  ASSUME Patient, TypeInv, DurableInv, DurableInv', ShapeInv, ShapeInv', WholeInv,
         [TransferNext]_allVars
  PROVE  WholeInv'
<1>1. CASE UNCHANGED allVars
  BY <1>1 DEF allVars, WholeInv, CatalogWhole, Known, ConsoleWhole, Uploading,
              Stored, OwnCourse, PutWhole, Active, Awaited, Current, Target,
              GuestWhole, Finished
<1>2. \A c \in Owners : ~GiveUp(c)
  BY DEF GiveUp, Patient
<1> QED
  BY <1>1, <1>2, PreparePostWhole, SendPutWhole, PutAnsweredWhole,
     FinishPostWhole, ServePutWhole, GuestWholeStep, LoadWhole, CrashWhole
     DEF TransferNext

LEMMA WholeInvariant ==
  ASSUME Patient
  PROVE  TransferSpec => [](ShapeInv /\ WholeInv)
<1>1. TransferSpec => []DurableInv
  BY DurableInvariant, CatalogDriven, PTL DEF Patient
<1>2. TypeInv /\ ShapeInv /\ DurableInv /\ WholeInv
      /\ ShapeInv' /\ DurableInv' /\ [TransferNext]_allVars => WholeInv'
  BY WholeStep
<1> QED
  BY <1>1, <1>2, WholeInit, CatalogDriven, PTL DEF TransferSpec

\* A completed course has its whole blob in the object store, through
\* crashes and failed writes and whatever other consoles do.
THEOREM BlobWhole ==
  ASSUME Patient
  PROVE  TransferSpec => []ReadyBlobWhole
<1>1. ASSUME ShapeInv, WholeInv PROVE ReadyBlobWhole
  <2> SUFFICES ASSUME NEW c \in Owners, console[c].id # NoID,
                      Known(console[c].id), byID[console[c].id].ready,
                      console[c].length <= MaxBody
               PROVE  files[console[c].id] = console[c].length
    BY DEF ReadyBlobWhole
  <2>1. console[c].step # "idle" /\ console[c].id \in ID
    BY <1>1 DEF WholeInv, ConsoleWhole, ShapeInv
  <2>2. PICK d \in Owners : console[d].id = console[c].id /\ Stored(d)
    BY <1>1, <2>1, ReadyIsDone
  <2>3. c = d
    BY <1>1, <2>1, <2>2 DEF WholeInv, OwnCourse
  <2> QED
    BY <2>2, <2>3 DEF Stored
<1> QED
  BY <1>1, WholeInvariant, PTL

\* The size prepare_get gives for a ready course is the length of its blob.
THEOREM SizeRecorded ==
  ASSUME Patient
  PROVE  TransferSpec => []SizeIsBlobLength
<1>1. ShapeInv /\ WholeInv => SizeIsBlobLength
  BY ReadyIsDone DEF SizeIsBlobLength, Stored
<1> QED
  BY <1>1, WholeInvariant, PTL

\* A guest downloads as much of a ready course as it was told there is.
THEOREM DownloadAsTold ==
  ASSUME Patient
  PROVE  TransferSpec => []FetchedAsTold
<1>1. WholeInv => FetchedAsTold
  BY DEF WholeInv, GuestWhole, FetchedAsTold
<1> QED
  BY <1>1, WholeInvariant, PTL
=============================================================================
