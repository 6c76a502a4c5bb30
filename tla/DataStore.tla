----------------------------- MODULE DataStore -----------------------------
(***************************************************************************)
(* The dispatch of DataStore and Utility requests (smm2DataStoreHandler,   *)
(* smm2_datastore.go:55-115; replayHandler, init_replay.go:31-45): a       *)
(* method is answered by a handler of its own, by an empty envelope of its *)
(* form, by the body measured for it, or by a single zero.  It is to show  *)
(* nobody but the accounts of this service.                                *)
(*                                                                         *)
(* Which bodies were measured is a matter of the build, chosen at the      *)
(* start; the public one has none.  Those of get_users, of                 *)
(* sync_user_profile and of the methods with an empty envelope show        *)
(* players; who may be in the others nobody knows, and they show none      *)
(* here.  What 24, 25, 26, 66 and 132 do is the subject of CourseTransfer  *)
(* and UploadDescriptors.                                                  *)
(***************************************************************************)
EXTENDS UserProfiles

CONSTANTS
  Methods,   \* the method numbers a console may send
  Asks,      \* the lists of PIDs that get_users is called with
  UserLists, \* the lists of users that were measured
  Builds     \* the measured answer of get_users and profile that a build may have

\* The answers may be cut off anywhere.
ASSUME DataStoreAssumption ==
  /\ Asks \subseteq Seq(PIDs)
  /\ UserLists \subseteq Seq({MeasuredUser, BareUser})
  /\ \A build \in Builds :
       /\ build.profile \in {MeasuredProfile, BareUser}
       /\ \E users \in UserLists : \E n \in 0 .. 2 * Len(users) + 2, begun \in BOOLEAN :
            build.users = CutOff(GetUsersBlob(users), n, begun)

dataStoreVars == <<pseudoCache, userInfoTemplate, resultSuccessTpl, job, name,
                   renames, capturedResponses>>

Captured(proto, method) == <<proto, method>> \in DOMAIN capturedResponses

-----------------------------------------------------------------------------
(* smm2EmptyBuilders: the forms of the empty envelopes.                    *)

List == "list"
Bool == "bool"

smm2EmptyBuilders ==
  LET list   == {53, 54, 55, 75, 76, 79, 84, 86, 95, 162}
      result == {72, 73, 74, 80, 81, 94}
      two    == {70, 85, 160}
      ranks  == {58, 71, 83}
  IN [m \in list \union result \union two \union ranks |->
        CASE m \in list   -> <<List>>
          [] m \in result -> <<List, Bool>>
          [] m \in two    -> <<List, List>>
          [] m \in ranks  -> <<List, List, Bool>>]

\* The bodies of a build: every method was measured.
MeasuredBodies(build) ==
  [key \in {DataStoreProtocol, Utility} \X Methods |->
     CASE key = <<DataStoreProtocol, 48>> -> PlayersIn(build.users)
       [] key = <<DataStoreProtocol, 49>> -> <<build.profile>>
       [] key \in {DataStoreProtocol} \X DOMAIN smm2EmptyBuilders -> <<MeasuredUser>>
       [] OTHER -> <<>>]

\* Nothing but the measured body, if there is one, answers the method.
Structural(proto, method) ==
  proto = DataStoreProtocol =>
    /\ method \notin {8, 24, 25, 26, 132} \union DOMAIN smm2EmptyBuilders
    /\ method = 48 => userInfoTemplate = NoTemplate
    /\ method \in {49, 66} => ~Captured(proto, method)

-----------------------------------------------------------------------------
(* One action per way through the dispatch.                                *)

World == UNCHANGED <<userInfoTemplate, resultSuccessTpl, capturedResponses>>

Accept(r, newJob) ==
  /\ job[r].step = "idle"
  /\ job' = [job EXCEPT ![r] = newJob]
  /\ UNCHANGED <<pseudoCache, name, renames>> /\ World

Answered(r, method, answer) ==
  Accept(r, [NoJob EXCEPT !.step = "answered", !.method = method, !.answer = answer])

Serve48Or49(r, method, pid, asked, pids) ==
  Accept(r, [NoJob EXCEPT
    !.step = "lookup", !.method = method, !.pid = pid, !.asked = asked,
    !.todo = pids, !.sure = DOMAIN pseudoCache \intersect Range(pids),
    !.answer = [NoAnswer EXCEPT !.kind = "profiles", !.announced = Len(pids)]])

GetUsers(r, pid, asked) ==
  /\ userInfoTemplate # NoTemplate
  /\ Serve48Or49(r, 48, pid, asked, parseGetUsersPIDs(pid, asked))

SyncUserProfile(r, pid) ==
  /\ Captured(DataStoreProtocol, 49)
  /\ Serve48Or49(r, 49, pid, <<>>, <<pid>>)

EmptyEnvelope(r, method) ==
  /\ method \in DOMAIN smm2EmptyBuilders
  /\ Answered(r, method, [NoAnswer EXCEPT !.kind = "empty", !.form = smm2EmptyBuilders[method]])

\* 0x73.8
NotFound(r) == Answered(r, 8, [NoAnswer EXCEPT !.kind = "error"])

\* 24, 26, 132, and 66 where its descriptor was measured.
OwnHandler(r, method) ==
  /\ \/ method \in {24, 26, 132}
     \/ method = 66 /\ Captured(DataStoreProtocol, 66)
  /\ Answered(r, method, [NoAnswer EXCEPT !.kind = "handler"])

\* The body measured for the method, as it is.
Replayed(r, proto, method) ==
  Answered(r, method, [NoAnswer EXCEPT !.kind = "measured", !.proto = proto,
                                       !.users = capturedResponses[<<proto, method>>]])

\* 25: of a course that is not in the catalog the measured answer, which the
\* console asks for at boot, or an error.
PrepareGetObject(r, method) ==
  /\ method = 25
  /\ \/ Answered(r, method, [NoAnswer EXCEPT !.kind = "handler"])
     \/ Captured(DataStoreProtocol, 25) /\ Replayed(r, DataStoreProtocol, 25)
     \/ /\ ~Captured(DataStoreProtocol, 25)
        /\ Answered(r, method, [NoAnswer EXCEPT !.kind = "error"])

Replay(r, proto, method) ==
  Structural(proto, method) /\ Captured(proto, method) /\ Replayed(r, proto, method)

\* U32(0)
EmptyList(r, proto, method) ==
  /\ Structural(proto, method) /\ ~Captured(proto, method)
  /\ Answered(r, method, [NoAnswer EXCEPT !.kind = "empty", !.form = <<List>>, !.proto = proto])

\* The response goes out.
Respond(r) ==
  /\ job[r].step = "answered"
  /\ job' = [job EXCEPT ![r] = NoJob]
  /\ UNCHANGED <<pseudoCache, name, renames>> /\ World

\* A build has the measured bodies of all methods, or of none.
DataStoreInit ==
  /\ ProfileInit
  /\ \/ /\ capturedResponses = <<>>
        /\ userInfoTemplate = NoTemplate
        /\ resultSuccessTpl = NoResult
     \/ \E build \in Builds :
          /\ capturedResponses = MeasuredBodies(build)
          /\ userInfoTemplate = carveUserTemplates(build.users.whole).user
          /\ resultSuccessTpl = carveUserTemplates(build.users.whole).result

DataStoreNext ==
  \/ \E r \in Requests :
       \/ \E pid \in PIDs :
            SyncUserProfile(r, pid) \/ \E asked \in Asks : GetUsers(r, pid, asked)
       \/ \E method \in Methods :
            \/ EmptyEnvelope(r, method) \/ OwnHandler(r, method) \/ PrepareGetObject(r, method)
            \/ \E proto \in {DataStoreProtocol, Utility} :
                 Replay(r, proto, method) \/ EmptyList(r, proto, method)
       \/ NotFound(r) \/ Respond(r)
       \/ (Lookup(r) \/ Answer(r) \/ Store(r)) /\ UNCHANGED <<name, renames>> /\ World
  \/ \E pid \in PIDs : Rename(pid) /\ World

DataStoreSpec == DataStoreInit /\ [][DataStoreNext]_dataStoreVars

-----------------------------------------------------------------------------
\* No empty name is cached (smm2_profile.go:56), templates are elements of their
\* lists, and a request that looks up names has one to look up (195-213).
DataStoreTypeOK ==
  /\ DOMAIN pseudoCache \subseteq PIDs
  /\ \A pid \in DOMAIN pseudoCache : pseudoCache[pid] # NoName
  /\ userInfoTemplate \in {MeasuredUser, BareUser, NoTemplate}
  /\ resultSuccessTpl \in {Result, NoResult}
  /\ name \in [PIDs -> 0 .. 1 + MaxRenames]
  /\ \A r \in Requests :
       /\ job[r].step \in {"idle", "lookup", "ask", "store", "answered"}
       /\ Range(job[r].todo) \subseteq PIDs
       /\ job[r].step \in {"lookup", "ask", "store"} <=> job[r].todo # <<>>

\* An account under its own PID, code and name.
ShowsItself(method, user) ==
  /\ user.pid \in PIDs
  /\ method = 48 => user.code = makerCode(user.pid)
  /\ \/ user.name = Fallback(user.pid)
     \/ \E v \in 1 .. 1 + MaxRenames : user.name = Name(user.pid, v)

\* Whoever an answer shows, in profiles or in a measured body that is replayed,
\* is an account under its own PID, code and name (smm2_profile.go:3-13,
\* smm2_datastore.go:9-11).  "So no measured player is ever served"
\* (smm2_profile.go:175-177) is true with this exception: where the answer of
\* get_users breaks off inside its first UserInfo no template is carved, 48 is
\* replayed, and what is left of that user is shown.
OnlyOwnIdentities ==
  \A r \in Requests : \A i \in DOMAIN job[r].answer.users :
    LET user == job[r].answer.users[i]
    IN \/ ShowsItself(job[r].method, user)
       \/ user = BareUser
       \/ job[r].method = 48 /\ user = CutUser

\* The profiles are those of the PIDs asked for, in that order, or the
\* caller's own, in a build whose template is not too short to have a PID; of
\* users and results there are as many as the answer announces, in a build
\* whose measured body has a result (smm2_profile.go:175-213).
AnsweredAsAsked ==
  \A r \in Requests :
    LET answer == job[r].answer
    IN job[r].step = "answered" /\ answer.kind = "profiles" =>
         /\ TemplateOf(job[r].method) # BareUser =>
              [i \in DOMAIN answer.users |-> answer.users[i].pid] =
                IF Len(job[r].asked) \in 1 .. MaxAsked THEN job[r].asked ELSE <<job[r].pid>>
         /\ Len(answer.users) = answer.announced
         /\ job[r].method = 48 /\ resultSuccessTpl # NoResult =>
              answer.results = [i \in 1 .. answer.announced |-> Result]

\* A player whose name was known when a request came is not shown under a
\* number in its answer, whatever lookups fail: "a resolved pseudo is the
\* normal path" (smm2_profile.go:64-66).
OnceNamed ==
  \A r \in Requests : \A i \in DOMAIN job[r].answer.users :
    LET user == job[r].answer.users[i]
    IN user.pid \in job[r].sure => user.name # Fallback(user.pid)
=============================================================================
