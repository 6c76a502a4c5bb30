--------------------------- MODULE CourseTransfer ---------------------------
(***************************************************************************)
(* Uploading and downloading a course: the catalog of CourseCatalog, the   *)
(* blob files of the object server (objectHandler in smm2_storage.go) and  *)
(* the consoles that drive both (the flow at smm2_storage.go:11-16):       *)
(*                                                                         *)
(*   prepare_post(24), PUT the blob, complete_post(26); prepare_get(25),   *)
(*   GET the blob.                                                         *)
(*                                                                         *)
(* The catalog is changed under its mutex; the blob file is not.  A PUT is *)
(* a goroutine that reads the body, truncates the file, writes it and then *)
(* records the size, and other requests run between these steps.           *)
(*                                                                         *)
(* Each account's console uploads one course.  All bodies a console sends  *)
(* are prefixes of that course, so a body, and a file, is its length.      *)
(***************************************************************************)
EXTENDS CourseCatalog, Integers

CONSTANTS
  Guests,      \* the consoles that download
  MaxPuts,     \* bound: PUTs a console sends for its course
  MaxBody,     \* longest body readAllLimited takes; 64 MiB in the code
  Unordered,   \* data_ids that anybody may complete at any time (see InOrder)
  Impatient,   \* may a console give up a PUT that has not been answered?
  BlobFaults   \* may writing a blob file fail?

ASSUME TransferAssumption ==
  /\ Sizes \subseteq Nat
  /\ MaxPuts \in Nat \ {0}
  /\ MaxBody \in Nat
  /\ Unordered \subseteq ID
  /\ Impatient \in BOOLEAN
  /\ BlobFaults \in BOOLEAN

NoID    == 0
NoFile  == -1
Puts    == Owners \X (1 .. MaxPuts)
Lengths == Sizes \ {0}   \* no course is empty

VARIABLES
  files,     \* files[id] is the length of <id>.bin, or NoFile
  console,   \* console[c]: how far the upload of c's course has come
  put,       \* put[c, k]: the goroutine that serves c's k-th PUT
  guest      \* guest[g]: what guest g was told of a course and then fetched

transfer == <<files, console, put, guest>>
allVars  == <<phase, nextID, byID, saved, disk, issued, verdict,
              files, console, put, guest>>

ConsoleSteps == {"idle", "upload", "waiting", "uploaded", "done",
                 "cancelled"}
PutStages    == {"none", "body", "open", "write", "size", "ok", "failed"}
GuestSteps   == {"idle", "told", "fetched", "elsewhere"}

NoPut   == [stage |-> "none", body |-> 0]
NoGuest == [step |-> "idle", id |-> NoID, size |-> 0, ready |-> FALSE,
            got |-> 0]

TransferInit ==
  /\ Init
  /\ files = [id \in ID |-> NoFile]
  /\ console = [c \in Owners |->
                  [step |-> "idle", id |-> NoID, length |-> 0, puts |-> 0]]
  /\ put = [p \in Puts |-> NoPut]
  /\ guest = [g \in Guests |-> NoGuest]

LongerOf(m, n) == IF m > n THEN m ELSE n

\* The put a console is waiting for, and whether p is still waited for.
Current(c) == <<c, console[c].puts>>
Awaited(p) == console[p[1]].step = "waiting" /\ Current(p[1]) = p
Target(p)  == console[p[1]].id
Active(p)  == put[p].stage \in {"body", "open", "write", "size"}

-----------------------------------------------------------------------------
(* The console and the RMC methods it calls.                               *)

\* 24: a data_id and the URL to PUT to.  The console declares the true size.
PreparePost(c, length) ==
  /\ console[c].step = "idle"
  /\ Alloc(c, length)
  /\ console' = [console EXCEPT ![c].step = "upload", ![c].id = nextID,
                                ![c].length = length]
  /\ UNCHANGED <<files, put, guest>>

SendPut(c) ==
  /\ phase = "serving"
  /\ console[c].step = "upload"
  /\ console[c].puts < MaxPuts
  /\ console' = [console EXCEPT ![c].step = "waiting", ![c].puts = @ + 1]
  /\ put' = [put EXCEPT ![<<c, console[c].puts + 1>>] =
               [stage |-> "body", body |-> 0]]
  /\ UNCHANGED <<vars, files, guest>>

GiveUp(c) ==
  /\ Impatient
  /\ console[c].step = "waiting"
  /\ console' = [console EXCEPT ![c].step = "upload"]
  /\ UNCHANGED <<vars, files, put, guest>>

PutAnswered(c) ==
  /\ console[c].step = "waiting"
  /\ \/ /\ put[Current(c)].stage = "ok"
        /\ console' = [console EXCEPT ![c].step = "uploaded"]
     \/ /\ put[Current(c)].stage = "failed"
        /\ console' = [console EXCEPT ![c].step = "upload"]
  /\ UNCHANGED <<vars, files, put, guest>>

\* The flow at smm2_storage.go:11-16: a console completes its own course after
\* a PUT of it was answered, as often as it likes, and may cancel it whenever
\* no PUT is pending.  The handler asks for none of this.
InOrder(c, id, success) ==
  /\ id = console[c].id
  /\ console[c].step \in
       IF success THEN {"uploaded", "done"}
                  ELSE {"upload", "uploaded", "done", "cancelled"}

\* 26.  The handler takes any data_id from anybody at any time, and answers an
\* unknown one with success too; consoles keep the order of the flow except
\* for the data_ids in Unordered.
CompletePost(c, id, success) ==
  /\ RMCServed
  /\ InOrder(c, id, success) \/ id \in Unordered
  /\ \/ success /\ CompleteOK(id)
     \/ ~success /\ CompleteCancelled(id)
     \/ ~Known(id) /\ UNCHANGED vars
  /\ console' = IF InOrder(c, id, success)
                THEN [console EXCEPT
                        ![c].step = IF success THEN "done" ELSE "cancelled"]
                ELSE console
  /\ UNCHANGED <<files, put, guest>>

\* 25: the blob's URL and size of a course of the catalog, ready or not.  The
\* code reads the size after it has released the mutex; what it reads is what
\* a lookup at that moment, or just before the course was dropped, would have
\* read.  Any other data_id is answered with the measured body of 25, or with
\* NotFound (DataStore has both): the guest gets nothing from this store.
PrepareGet(g, id) ==
  /\ RMCServed
  /\ guest[g].step = "idle"
  /\ guest' = [guest EXCEPT ![g] =
                 IF Known(id)
                 THEN [step |-> "told", id |-> id, size |-> byID[id].size,
                       ready |-> byID[id].ready, got |-> 0]
                 ELSE [step |-> "elsewhere", id |-> id, size |-> 0,
                       ready |-> FALSE, got |-> 0]]
  /\ UNCHANGED <<vars, files, console, put>>

-----------------------------------------------------------------------------
(* The object server: PUT /object/<id>.                                    *)

\* Mutant: the limit of readAllLimited is one byte short.
ReadBodyShort(p) ==
  /\ put[p].stage = "body"
  /\ \E n \in Sizes :
       /\ n < MaxBody /\ n <= console[p[1]].length
       /\ Awaited(p) /\ console[p[1]].length < MaxBody =>
            n = console[p[1]].length
       /\ put' = [put EXCEPT ![p] = [stage |-> "open", body |-> n]]
  /\ UNCHANGED <<vars, files, console, guest>>

\* readAllLimited reports neither a connection that breaks nor a body that
\* is too long to its caller: what has arrived so far passes for the body.
ReadBody(p) ==
  /\ put[p].stage = "body"
  /\ \E n \in Sizes :
       /\ n <= MaxBody /\ n <= console[p[1]].length
       /\ Awaited(p) /\ console[p[1]].length <= MaxBody =>
            n = console[p[1]].length
       /\ put' = [put EXCEPT ![p] = [stage |-> "open", body |-> n]]
  /\ UNCHANGED <<vars, files, console, guest>>

\* Mutant: a file that cannot be created goes unnoticed.
OpenBlobUnchecked(p) ==
  /\ put[p].stage = "open"
  /\ \/ /\ files' = [files EXCEPT ![Target(p)] = 0]
        /\ put' = [put EXCEPT ![p].stage = "write"]
     \/ /\ BlobFaults
        /\ put' = [put EXCEPT ![p].stage = "size"]
        /\ UNCHANGED files
  /\ UNCHANGED <<vars, console, guest>>

\* os.WriteFile, first half: the file is created or truncated.
OpenBlob(p) ==
  /\ put[p].stage = "open"
  /\ \/ /\ files' = [files EXCEPT ![Target(p)] = 0]
        /\ put' = [put EXCEPT ![p].stage = "write"]
     \/ /\ BlobFaults
        /\ put' = [put EXCEPT ![p].stage = "failed"]
        /\ UNCHANGED files
  /\ UNCHANGED <<vars, console, guest>>

\* Mutant: a failed write goes unnoticed.
WriteBlobUnchecked(p) ==
  /\ put[p].stage = "write"
  /\ \E n \in Sizes :
       /\ n = put[p].body \/ (BlobFaults /\ n < put[p].body)
       /\ files' = [files EXCEPT ![Target(p)] = LongerOf(@, n)]
       /\ put' = [put EXCEPT ![p].stage = "size"]
  /\ UNCHANGED <<vars, console, guest>>

\* Second half: the body goes over whatever the file holds by now.
WriteBlob(p) ==
  /\ put[p].stage = "write"
  /\ \/ /\ files' = [files EXCEPT ![Target(p)] = LongerOf(@, put[p].body)]
        /\ put' = [put EXCEPT ![p].stage = "size"]
     \/ \E n \in Sizes :
          /\ BlobFaults /\ n < put[p].body
          /\ files' = [files EXCEPT ![Target(p)] = LongerOf(@, n)]
          /\ put' = [put EXCEPT ![p].stage = "failed"]
  /\ UNCHANGED <<vars, console, guest>>

\* Mutant: the size is measured when the body has been consumed.
RecordSizeDrained(p) ==
  /\ put[p].stage = "size"
  /\ \/ SetSize(Target(p), 0)
     \/ ~Known(Target(p)) /\ UNCHANGED vars
  /\ put' = [put EXCEPT ![p].stage = "ok"]
  /\ UNCHANGED <<files, console, guest>>

RecordSize(p) ==
  /\ put[p].stage = "size"
  /\ \/ SetSize(Target(p), put[p].body)
     \/ ~Known(Target(p)) /\ UNCHANGED vars
  /\ put' = [put EXCEPT ![p].stage = "ok"]
  /\ UNCHANGED <<files, console, guest>>

\* Mutant: a missing file is served all the same.
FetchBlobUnchecked(g) ==
  /\ phase = "serving"
  /\ guest[g].step = "told"
  /\ guest' = [guest EXCEPT ![g].step = "fetched", ![g].got = files[guest[g].id]]
  /\ UNCHANGED <<vars, files, console, put>>

\* GET /object/<id>; without a file the answer is 404 and the guest gives up.
FetchBlob(g) ==
  /\ phase = "serving"
  /\ guest[g].step = "told"
  /\ guest' = IF files[guest[g].id] = NoFile
              THEN [guest EXCEPT ![g] = NoGuest]
              ELSE [guest EXCEPT ![g].step = "fetched",
                                 ![g].got = files[guest[g].id]]
  /\ UNCHANGED <<vars, files, console, put>>

\* The guest is done with the course and may ask for another.
Forget(g) ==
  /\ guest[g].step \in {"fetched", "elsewhere"}
  /\ guest' = [guest EXCEPT ![g] = NoGuest]
  /\ UNCHANGED <<vars, files, console, put>>

-----------------------------------------------------------------------------
\* Requests in progress die with the process; their consoles see an error.
ServerCrash ==
  /\ Crash
  /\ put' = [p \in Puts |-> NoPut]
  /\ console' = [c \in Owners |->
                   IF console[c].step = "waiting"
                   THEN [console[c] EXCEPT !.step = "upload"]
                   ELSE console[c]]
  /\ UNCHANGED <<files, guest>>

TransferNext ==
  \/ Load /\ UNCHANGED transfer
  \/ \E c \in Owners :
       \/ \E length \in Lengths : PreparePost(c, length)
       \/ SendPut(c)
       \/ GiveUp(c)
       \/ PutAnswered(c)
       \/ \E id \in ID, success \in BOOLEAN : CompletePost(c, id, success)
  \/ \E p \in Puts : ReadBody(p) \/ OpenBlob(p) \/ WriteBlob(p) \/ RecordSize(p)
  \/ \E g \in Guests :
       \/ \E id \in ID : PrepareGet(g, id)
       \/ FetchBlob(g)
       \/ Forget(g)
  \/ ServerCrash

TransferSpec == TransferInit /\ [][TransferNext]_allVars

-----------------------------------------------------------------------------
\* Files and downloads are as long as courses are, and PUTs and consoles well
\* formed (smm2_storage.go:193-231).
TransferTypeOK ==
  /\ files \in [ID -> Sizes \union {0, NoFile}]
  /\ console \in [Owners -> [step : ConsoleSteps, id : ID \union {NoID},
                             length : Sizes \union {0}, puts : 0 .. MaxPuts]]
  /\ put \in [Puts -> [stage : PutStages, body : Sizes \union {0}]]
  /\ guest \in [Guests -> [step : GuestSteps, id : ID \union {NoID},
                           size : Sizes \union {0}, ready : BOOLEAN,
                           got : Sizes \union {0}]]

\* A course that complete_post made ready has its whole blob in the object
\* store: completion comes after the upload (smm2_storage.go:11-16), and
\* neither a crash, a failed write nor another request takes the blob apart.
\* A course above the limit of readAllLimited is excepted: it is cut.  This
\* takes consoles that keep the order of the flow (Unordered is empty) and
\* wait for the answer to a PUT, so that no two PUTs of a course overlap.
ReadyBlobWhole ==
  \A c \in Owners :
    LET id == console[c].id
    IN /\ id # NoID /\ Known(id) /\ byID[id].ready
       /\ console[c].length <= MaxBody
       => files[id] = console[c].length

\* Behind a course that is ready there is a file that GET can serve, for every
\* data_id that is completed in the order of the flow (smm2_storage.go:11-16),
\* once or again: however other data_ids are completed, when consoles give up
\* and retry, when saves, reads and writes fail, when the catalog is lost and
\* the data_id is issued again (smm2_storage.go:190-231).  Out of order the
\* handler publishes a course without a file: it does not look for one.
ReadyHasBlob ==
  \A id \in ID \ Unordered : Known(id) /\ byID[id].ready => files[id] # NoFile

\* The size the catalog gives for a ready course is the length of its blob
\* once no PUT for it is in progress: setSize "records the byte size once a
\* blob PUT completes" (smm2_storage.go:156).  For consoles as in
\* ReadyBlobWhole.
SizeIsBlobLength ==
  \A id \in ID :
    /\ Known(id) /\ byID[id].ready
    /\ \A p \in Puts : Target(p) = id => ~Active(p)
    => byID[id].size = files[id]

\* A guest that was told of a ready course downloads exactly the size it was
\* told: prepare_get's answer and the later GET agree although they read the
\* catalog and the file at different times.  For consoles as in
\* ReadyBlobWhole, which send no PUT of a course that is ready.
FetchedAsTold ==
  \A g \in Guests :
    guest[g].step = "fetched" /\ guest[g].ready => guest[g].got = guest[g].size
=============================================================================
