-------------------------- MODULE DataStoreProofs --------------------------
(***************************************************************************)
(* Theorems about DataStore, for any number of requests and accounts, any  *)
(* lists of PIDs and any cut of the measured answer.                       *)
(***************************************************************************)
EXTENDS DataStore, FiniteSetTheorems, SequenceTheorems, TLAPS

-----------------------------------------------------------------------------
(* Templates: wherever the measured answer is cut, what is carved out of   *)
(* it is an element of the right list or nothing.                          *)

MeasuredUsers == {MeasuredUser, BareUser}

LEMMA BlobElements ==
  ASSUME NEW us \in Seq(MeasuredUsers), NEW n \in Nat, n = Len(us)
  PROVE  /\ GetUsersBlob(us) \in Seq(Nat \union MeasuredUsers \union {Result})
         /\ Len(GetUsersBlob(us)) = 2 * n + 2
         /\ GetUsersBlob(us)[1] = n
         /\ \A i \in 1 .. n : GetUsersBlob(us)[i + 1] \in MeasuredUsers
         /\ n >= 1 => GetUsersBlob(us)[n + 3] = Result
<1> DEFINE E == Nat \union MeasuredUsers \union {Result}
           results == [i \in DOMAIN us |-> Result]
           head == <<n>> \o us
           both == head \o <<n>>
<1>0. us \in Seq(E) /\ DOMAIN us = 1 .. n /\ \A i \in 1 .. n : us[i] \in MeasuredUsers
  <2>1. DOMAIN us = 1 .. n /\ \A i \in 1 .. n : us[i] \in MeasuredUsers
    BY LenProperties, ElementOfSeq
  <2> QED
    BY <2>1
<1>1. /\ <<n>> \in Seq(E) /\ Len(<<n>>) = 1 /\ <<n>>[1] = n
      /\ us \in Seq(E) /\ Len(us) = n
      /\ results \in Seq(E) /\ Len(results) = n
  <2>1. Result \in E /\ n \in E
    OBVIOUS
  <2> HIDE DEF E
  <2> QED
    BY <1>0, <2>1, LenProperties
<1>2. GetUsersBlob(us) = both \o results
  BY DEF GetUsersBlob
<1> HIDE DEF E
<1>3. /\ head \in Seq(E) /\ Len(head) = n + 1
      /\ head[1] = n /\ \A i \in 1 .. n : head[i + 1] = us[i]
  <2>1. /\ head \in Seq(E) /\ Len(head) = Len(<<n>>) + Len(us)
        /\ \A i \in 1 .. Len(<<n>>) + Len(us) :
             head[i] = IF i <= Len(<<n>>) THEN <<n>>[i] ELSE us[i - Len(<<n>>)]
    BY <1>1, ConcatProperties
  <2> HIDE DEF head
  <2>2. Len(head) = n + 1 /\ \A i \in 1 .. n + 1 : head[i] = IF i <= 1 THEN n ELSE us[i - 1]
    BY <1>1, <2>1
  <2>3. ASSUME NEW i \in 1 .. n PROVE head[i + 1] = us[i]
    <3>1. i + 1 \in 1 .. n + 1 /\ ~(i + 1 <= 1) /\ (i + 1) - 1 = i
      OBVIOUS
    <3> QED
      BY <2>2, <3>1
  <2> QED
    BY <2>1, <2>2, <2>3
<1> HIDE DEF head
<1>4. /\ both \in Seq(E) /\ Len(both) = n + 2
      /\ both[1] = n /\ \A i \in 1 .. n : both[i + 1] = us[i]
  <2>1. /\ both \in Seq(E) /\ Len(both) = Len(head) + Len(<<n>>)
        /\ \A i \in 1 .. Len(head) + Len(<<n>>) :
             both[i] = IF i <= Len(head) THEN head[i] ELSE <<n>>[i - Len(head)]
    BY <1>1, <1>3, ConcatProperties
  <2> HIDE DEF both
  <2>2. Len(both) = n + 2 /\ \A i \in 1 .. n + 1 : both[i] = head[i]
    BY <1>1, <1>3, <2>1
  <2> QED
    BY <1>3, <2>1, <2>2
<1> HIDE DEF both
<1>6. n >= 1 => results[1] = Result
  BY <1>0
<1> DEFINE all == both \o results
<1> HIDE DEF results
<1>5. /\ all \in Seq(E) /\ Len(all) = (n + 2) + n
      /\ \A i \in 1 .. (n + 2) + n : all[i] = IF i <= n + 2 THEN both[i]
                                                          ELSE results[i - (n + 2)]
  <2>1. /\ all \in Seq(E) /\ Len(all) = Len(both) + Len(results)
        /\ \A i \in 1 .. Len(both) + Len(results) :
             all[i] = IF i <= Len(both) THEN both[i] ELSE results[i - Len(both)]
    BY <1>1, <1>4, ConcatProperties
  <2> QED
    BY <1>1, <1>4, <2>1
<1> HIDE DEF all
<1>7. /\ all[1] = n
      /\ \A i \in 1 .. n : all[i + 1] \in MeasuredUsers
      /\ n >= 1 => all[n + 3] = Result
  <2>1. all[1] = n
    BY <1>4, <1>5
  <2>2. \A i \in 1 .. n : all[i + 1] \in MeasuredUsers
    <3> SUFFICES ASSUME NEW i \in 1 .. n PROVE all[i + 1] \in MeasuredUsers
      OBVIOUS
    <3>1. i + 1 \in 1 .. (n + 2) + n /\ i + 1 <= n + 2
      OBVIOUS
    <3>2. all[i + 1] = us[i]
      BY <1>4, <1>5, <3>1
    <3> QED
      BY <1>0, <3>2
  <2>3. n >= 1 => n + 3 \in 1 .. (n + 2) + n /\ ~(n + 3 <= n + 2) /\ (n + 3) - (n + 2) = 1
    OBVIOUS
  <2>4. n >= 1 => all[n + 3] = Result
    BY <1>5, <1>6, <2>3
  <2> QED
    BY <2>1, <2>2, <2>4
<1> QED
  BY <1>2, <1>5, <1>7 DEF E, all, results

\* A whole user that is there is carved; without one the answer shows at most
\* what is left of the first.
LEMMA Carved ==
  ASSUME NEW build \in Builds
  PROVE  LET carved == carveUserTemplates(build.users.whole)
             shown  == PlayersIn(build.users)
         IN /\ carved.user \in MeasuredUsers \union {NoTemplate}
            /\ carved.result \in {Result, NoResult}
            /\ shown \in Seq(MeasuredUsers \union {CutUser})
            /\ carved.user = NoTemplate => \A i \in 1 .. Len(shown) : shown[i] = CutUser
<1> DEFINE blob == build.users.whole
           carved == carveUserTemplates(blob)
           shown == PlayersIn(build.users)
<1>1. PICK us \in UserLists : \E n \in 0 .. 2 * Len(us) + 2, begun \in BOOLEAN :
        build.users = CutOff(GetUsersBlob(us), n, begun)
  BY DataStoreAssumption
<1>2. PICK u \in Nat : us \in Seq(MeasuredUsers) /\ u = Len(us)
  BY DataStoreAssumption, LenProperties DEF MeasuredUsers
<1>3. PICK n \in 0 .. 2 * u + 2 : blob = SubSeq(GetUsersBlob(us), 1, n)
  BY <1>1, <1>2 DEF CutOff
<1> DEFINE E == Nat \union MeasuredUsers \union {Result}
           full == GetUsersBlob(us)
<1>4. /\ full \in Seq(E) /\ Len(full) = 2 * u + 2 /\ full[1] = u
      /\ \A i \in 1 .. u : full[i + 1] \in MeasuredUsers
      /\ u >= 1 => full[u + 3] = Result
  BY <1>2, BlobElements
<1> HIDE DEF full, E
<1>5. Len(blob) = n /\ blob \in Seq(E) /\ \A i \in 1 .. n : blob[i] = full[i]
  BY <1>3, <1>4, SubSeqProperties DEF full
<1> DEFINE w == WholeUsers(blob)
           rest == IF blob # <<>> /\ w < blob[1] /\ build.users.begun
                   THEN <<CutUser>> ELSE <<>>
<1>6. shown = SubSeq(blob, 2, 1 + w) \o rest
  BY DEF PlayersIn
<1>7. /\ carved.user = IF w >= 1 THEN blob[2] ELSE NoTemplate
      /\ carved.result = IF blob # <<>> /\ w = blob[1] /\ ResultAt(blob) <= Len(blob)
                         THEN blob[ResultAt(blob)] ELSE NoResult
  BY DEF carveUserTemplates
<1> HIDE DEF blob, carved, shown
<1>8. blob = <<>> <=> n = 0
  BY <1>5, EmptySeq, LenProperties
<1>9. /\ w = IF n = 0 THEN 0 ELSE IF u <= n - 1 THEN u ELSE n - 1
      /\ n # 0 => blob[1] = u
  <2>1. CASE n = 0
    BY <1>8, <2>1 DEF WholeUsers
  <2>2. CASE n # 0
    <3> DEFINE m == IF u <= n - 1 THEN u ELSE n - 1
    <3>1. blob[1] = u
      BY <1>4, <1>5, <2>2
    <3>2. {i \in 1 .. u : 1 + i <= Len(blob)} = 1 .. m /\ m \in Nat
      BY <1>5, <2>2
    <3>3. w = Cardinality({i \in 1 .. u : 1 + i <= Len(blob)})
      BY <1>8, <2>2, <3>1 DEF WholeUsers
    <3> HIDE DEF m, w
    <3>4. Cardinality(1 .. m) = m
      BY <3>2, FS_Interval
    <3> QED
      BY <2>2, <3>1, <3>2, <3>3, <3>4 DEF m
  <2> QED
    BY <2>1, <2>2
<1>10. ResultAt(blob) = w + 3
  BY <1>9 DEF ResultAt
<1> HIDE DEF w
<1>11. /\ w \in Nat /\ w <= u /\ (w + 1 <= n \/ w = 0)
       /\ \A i \in 2 .. w + 1 : blob[i] \in MeasuredUsers
  <2>1. w \in Nat /\ w <= u /\ (w = 0 \/ w + 1 <= n)
    BY <1>9
  <2>2. ASSUME NEW i \in 2 .. w + 1 PROVE blob[i] \in MeasuredUsers
    <3>1. i \in 1 .. n /\ i - 1 \in 1 .. u /\ (i - 1) + 1 = i
      BY <2>1
    <3> QED
      BY <1>4, <1>5, <3>1
  <2> QED
    BY <2>1, <2>2
<1>12. carved.user \in MeasuredUsers \union {NoTemplate}
  BY <1>7, <1>9, <1>11
<1>13. carved.result \in {Result, NoResult}
  <2> SUFFICES ASSUME n # 0, w = u, w + 3 <= n PROVE blob[w + 3] = Result
    BY <1>5, <1>7, <1>8, <1>9, <1>10
  <2>1. u >= 1 /\ u + 3 \in 1 .. n
    OBVIOUS
  <2> QED
    BY <1>4, <1>5, <2>1
<1>14. /\ rest \in Seq(MeasuredUsers \union {CutUser})
       /\ \A i \in 1 .. Len(rest) : rest[i] = CutUser
  <2>1. CASE rest = <<>>
    BY <2>1, EmptySeq
  <2>2. CASE rest = <<CutUser>>
    <3> DEFINE c == CutUser
    <3>1. c \in MeasuredUsers \union {CutUser}
      OBVIOUS
    <3> HIDE DEF c
    <3>2. <<c>> \in Seq(MeasuredUsers \union {CutUser}) /\ Len(<<c>>) = 1 /\ <<c>>[1] = c
      BY <3>1
    <3> HIDE DEF rest
    <3>3. rest = <<c>>
      BY <2>2 DEF c
    <3> QED
      BY <3>2, <3>3 DEF c
  <2> QED
    BY <2>1, <2>2
<1> DEFINE us2 == SubSeq(blob, 2, 1 + w)
<1>15. us2 \in Seq(MeasuredUsers \union {CutUser}) /\ (w = 0 => us2 = <<>>)
  <2>1. \A i \in 2 .. 1 + w : blob[i] \in MeasuredUsers \union {CutUser}
    BY <1>9, <1>11
  <2>2. us2 = [i \in 1 .. (1 + w) - 1 |-> blob[i + 1]]
    <3>1. us2 = [i \in 1 .. ((1 + w) - 2) + 1 |-> blob[i + (2 - 1)]]
      BY <1>9 DEF SubSeq
    <3> QED
      BY <1>9, <3>1
  <2> QED
    BY <1>9, <2>1, <2>2
<1>16. shown \in Seq(MeasuredUsers \union {CutUser})
  BY <1>6, <1>14, <1>15, ConcatProperties
<1>17. carved.user = NoTemplate => \A i \in 1 .. Len(shown) : shown[i] = CutUser
  <2> SUFFICES ASSUME carved.user = NoTemplate
               PROVE  \A i \in 1 .. Len(shown) : shown[i] = CutUser
    OBVIOUS
  <2>1. NoTemplate \notin MeasuredUsers
    BY DEF NoTemplate, MeasuredUsers, MeasuredUser, BareUser, Player
  <2>2. w = 0
    BY <1>7, <1>9, <1>11, <2>1
  <2>3. shown = rest
    BY <1>6, <1>14, <1>15, <2>2, ConcatEmptySeq
  <2> QED
    BY <1>14, <2>3
<1> QED
  BY <1>12, <1>13, <1>16, <1>17 DEF blob, carved, shown

-----------------------------------------------------------------------------
(* The invariant.  What a request shows is settled profile by profile, so  *)
(* the invariant follows it while it runs: what is written and what is     *)
(* still to be written make up the PIDs asked for, and whoever was known   *)
(* when the request came is never looked up for it, because no name leaves *)
(* the cache.                                                              *)

Versions == 1 .. 1 + MaxRenames
Pseudos  == {NoName} \union (PIDs \X Versions) \union {Fallback(pid) : pid \in PIDs}
Codes    == {makerCode(pid) : pid \in PIDs}
Users    == [pid : PIDs, code : Codes \union {NoCode, <<"measured">>}, name : Pseudos]
Players  == Users \union {MeasuredUser, MeasuredProfile, BareUser, CutUser}

Kinds     == {"none", "profiles", "empty", "error", "handler", "measured"}
Protocols == {0, DataStoreProtocol, Utility}
Forms     == {<<>>, <<List>>} \union
               {smm2EmptyBuilders[m] : m \in DOMAIN smm2EmptyBuilders}

AnswerType ==
  [kind : Kinds, proto : Protocols, form : Forms, users : Seq(Players), announced : Nat,
   results : Seq({Result, NoResult})]

Steps   == {"idle", "lookup", "ask", "store", "answered"}
Served  == Methods \union {0, 8, 48, 49}
Callers == PIDs \union {0}
Founds  == {NoName} \union (PIDs \X Versions)

JobType ==
  [step : Steps, method : Served, pid : Callers, asked : Seq(PIDs), todo : Seq(PIDs),
   found : Founds, sure : SUBSET PIDs, answer : AnswerType]

\* What was measured: the profiles that are patched, and the bodies that may be
\* replayed, which show nobody but a user that breaks off.
BuildType ==
  /\ userInfoTemplate \in MeasuredUsers \union {NoTemplate}
  /\ resultSuccessTpl \in {Result, NoResult}
  /\ \A key \in DOMAIN capturedResponses :
       /\ capturedResponses[key] \in Seq(Players)
       /\ key = <<DataStoreProtocol, 48>> /\ userInfoTemplate = NoTemplate =>
            \A i \in 1 .. Len(capturedResponses[key]) : capturedResponses[key][i] = CutUser
       /\ key = <<DataStoreProtocol, 49>> =>
            capturedResponses[key][1] \in {MeasuredProfile, BareUser}
       /\ /\ key \notin {<<DataStoreProtocol, 48>>, <<DataStoreProtocol, 49>>}
          /\ key \notin {DataStoreProtocol} \X DOMAIN smm2EmptyBuilders
          => capturedResponses[key] = <<>>

Templates == {MeasuredUser, MeasuredProfile, BareUser}

TemplateFor == [method \in {48, 49} |-> TemplateOf(method)]

LEMMA SameTemplates == World => TemplateFor' = TemplateFor
BY DEF World, TemplateFor, TemplateOf

AccountsType ==
  /\ renames \in 0 .. MaxRenames
  /\ name \in [PIDs -> Nat]
  /\ \A pid \in PIDs : name[pid] <= 1 + renames

LEMMA NamesAreSome == \A pid : \A n \in {pid} \X Versions : n # NoName
<1> SUFFICES ASSUME NEW pid, NEW n \in {pid} \X Versions PROVE n # NoName
  OBVIOUS
<1>1. PICK v \in Versions : n = <<pid, v>>
  OBVIOUS
<1>2. <<pid, v>> # <<>>
  OBVIOUS
<1> QED
  BY <1>1, <1>2 DEF NoName

\* The cache holds names that accounts had.
CacheType ==
  /\ DOMAIN pseudoCache \subseteq PIDs
  /\ \A pid \in DOMAIN pseudoCache : pseudoCache[pid] \in {pid} \X Versions

WellShown(j, user) ==
  /\ \/ ShowsItself(j.method, user)
     \/ user = BareUser
     \/ j.method = 48 /\ user = CutUser
  /\ user.pid \in j.sure => user.name # Fallback(user.pid)

\* The answer so far and the PIDs to do make up what was asked for.
Going(j) ==
  LET pids  == parseGetUsersPIDs(j.pid, j.asked)
      users == j.answer.users
  IN /\ j.method \in {48, 49}
     /\ TemplateFor[j.method] \in Templates
     /\ j.answer.announced = Len(pids)
     /\ pids \in Seq(PIDs)
     /\ Len(users) + Len(j.todo) = Len(pids)
     /\ TemplateFor[j.method] # BareUser => \A i \in 1 .. Len(users) : users[i].pid = pids[i]
     /\ \A i \in 1 .. Len(j.todo) : j.todo[i] = pids[Len(users) + i]
     /\ j.step = "answered" /\ j.method = 48 /\ resultSuccessTpl # NoResult =>
          j.answer.results = [i \in 1 .. j.answer.announced |-> resultSuccessTpl]

JobInv(j) ==
  /\ j.step \in {"lookup", "ask", "store"} <=> j.todo # <<>>
  /\ j.answer.kind = "profiles" => Going(j)
  /\ j.answer.kind # "profiles" => j.todo = <<>>
  /\ \A i \in 1 .. Len(j.answer.users) : WellShown(j, j.answer.users[i])
  /\ j.sure \subseteq DOMAIN pseudoCache
  /\ j.step \in {"ask", "store"} => Head(j.todo) \notin j.sure
  /\ j.step = "store" => j.found \in {NoName} \union ({Head(j.todo)} \X Versions)

DataStoreInv ==
  /\ BuildType /\ AccountsType /\ CacheType
  /\ job \in [Requests -> JobType]
  /\ \A r \in Requests : JobInv(job[r])

LEMMA NoAnswerFacts ==
  /\ NoAnswer \in AnswerType
  /\ NoAnswer.kind = "none" /\ NoAnswer.proto = 0 /\ NoAnswer.form = <<>>
  /\ NoAnswer.users = <<>> /\ NoAnswer.announced = 0 /\ NoAnswer.results = <<>>
BY EmptySeq DEF NoAnswer, AnswerType, Kinds, Protocols, Forms

LEMMA NoJobFacts ==
  /\ NoJob \in JobType
  /\ NoJob.step = "idle" /\ NoJob.method = 0 /\ NoJob.todo = <<>>
  /\ NoJob.found = NoName /\ NoJob.sure = {} /\ NoJob.answer = NoAnswer
BY NoAnswerFacts, EmptySeq DEF NoJob, JobType, Steps, Served, Callers, Founds

LEMMA PatchedFacts ==
  ASSUME NEW method, TemplateOf(method) \in Templates,
         NEW pid \in PIDs, NEW pseudo \in Pseudos
  PROVE  LET user == Patched(method, pid, pseudo)
         IN /\ user \in Players
            /\ TemplateOf(method) = BareUser => user = BareUser
            /\ TemplateOf(method) # BareUser =>
                 /\ user.pid = pid /\ user.name = pseudo
                 /\ method = 48 => user.code = makerCode(pid)
<1> DEFINE tmpl == TemplateOf(method)
           user == Patched(method, pid, pseudo)
<1>1. user = IF tmpl = BareUser THEN tmpl
             ELSE IF method = 48
             THEN [tmpl EXCEPT !.pid = pid, !.code = makerCode(pid), !.name = pseudo]
             ELSE [tmpl EXCEPT !.pid = pid, !.name = pseudo]
  BY DEF Patched, patchUserInfo, patchSyncProfile
<1>2. PICK code : tmpl = BareUser \/ tmpl = Player("measured", code, <<"measured">>)
  BY DEF Templates, MeasuredUser, MeasuredProfile
<1> HIDE DEF tmpl, user
<1>3. CASE tmpl = BareUser
  BY <1>1, <1>3 DEF Players, tmpl, user
<1>4. CASE tmpl # BareUser /\ method = 48
  <2>1. user = [pid |-> pid, code |-> makerCode(pid), name |-> pseudo]
    BY <1>1, <1>2, <1>4 DEF Player
  <2>2. makerCode(pid) \in Codes
    BY DEF Codes
  <2> QED
    BY <1>4, <2>1, <2>2 DEF Players, Users, tmpl, user
<1>5. CASE tmpl # BareUser /\ method # 48
  <2>1. tmpl = MeasuredUser \/ tmpl = MeasuredProfile
    BY <1>5 DEF Templates, tmpl
  <2> QED
    <3>1. CASE tmpl = MeasuredUser
      <4>1. user = [pid |-> pid, code |-> <<"measured">>, name |-> pseudo]
        BY <1>1, <1>5, <3>1 DEF MeasuredUser, Player
      <4> QED
        BY <1>5, <4>1 DEF Players, Users, tmpl, user
    <3>2. CASE tmpl = MeasuredProfile
      <4>1. user = [pid |-> pid, code |-> NoCode, name |-> pseudo]
        BY <1>1, <1>5, <3>2 DEF MeasuredProfile, Player
      <4> QED
        BY <1>5, <4>1 DEF Players, Users, tmpl, user
    <3> QED
      BY <2>1, <3>1, <3>2
<1> QED
  BY <1>3, <1>4, <1>5 DEF tmpl, user

\* 25, 48 and 49 have no empty envelope.
LEMMA NoEnvelope == \A m \in {25, 48, 49} : m \notin DOMAIN smm2EmptyBuilders
BY DEF smm2EmptyBuilders

LEMMA BodiesShow ==
  ASSUME NEW build \in Builds, capturedResponses = MeasuredBodies(build),
         userInfoTemplate = carveUserTemplates(build.users.whole).user
  PROVE  \A key \in DOMAIN capturedResponses :
           /\ capturedResponses[key] \in Seq(Players)
           /\ key = <<DataStoreProtocol, 48>> /\ userInfoTemplate = NoTemplate =>
                \A i \in 1 .. Len(capturedResponses[key]) : capturedResponses[key][i] = CutUser
           /\ key = <<DataStoreProtocol, 49>> =>
                capturedResponses[key][1] \in {MeasuredProfile, BareUser}
           /\ /\ key \notin {<<DataStoreProtocol, 48>>, <<DataStoreProtocol, 49>>}
              /\ key \notin {DataStoreProtocol} \X DOMAIN smm2EmptyBuilders
              => capturedResponses[key] = <<>>
<1> DEFINE cut == build.users
           users == <<DataStoreProtocol, 48>>
           sync == <<DataStoreProtocol, 49>>
           content == {DataStoreProtocol} \X DOMAIN smm2EmptyBuilders
<1>1. \A key \in DOMAIN capturedResponses : capturedResponses[key] =
        IF key = users THEN PlayersIn(cut)
        ELSE IF key = sync THEN <<build.profile>>
        ELSE IF key \in content THEN <<MeasuredUser>> ELSE <<>>
  <2> DEFINE B == {DataStoreProtocol, Utility} \X Methods
  <2>1. capturedResponses = [key \in B |->
          CASE key = users -> PlayersIn(cut)
            [] key = sync -> <<build.profile>>
            [] key \in content -> <<MeasuredUser>>
            [] OTHER -> <<>>]
    BY DEF MeasuredBodies
  <2>2. users # sync /\ users \notin content /\ sync \notin content
    BY NoEnvelope
  <2> HIDE DEF B, users, sync, content, cut
  <2>3. ASSUME NEW key \in B
        PROVE  capturedResponses[key] =
                 IF key = users THEN PlayersIn(cut)
                 ELSE IF key = sync THEN <<build.profile>>
                 ELSE IF key \in content THEN <<MeasuredUser>> ELSE <<>>
    <3>1. CASE key = users
      BY <2>1, <2>2, <3>1
    <3>2. CASE key = sync
      BY <2>1, <2>2, <3>2
    <3>3. CASE key # users /\ key # sync /\ key \in content
      BY <2>1, <3>3
    <3>4. CASE key # users /\ key # sync /\ key \notin content
      BY <2>1, <3>4
    <3> QED
      BY <3>1, <3>2, <3>3, <3>4
  <2> QED
    BY <2>1, <2>3
<1>2. build.profile \in {MeasuredProfile, BareUser}
  BY DataStoreAssumption
<1>3. /\ PlayersIn(cut) \in Seq(MeasuredUsers \union {CutUser})
      /\ userInfoTemplate = NoTemplate =>
           \A i \in 1 .. Len(PlayersIn(cut)) : PlayersIn(cut)[i] = CutUser
  BY Carved
<1>4. PlayersIn(cut) \in Seq(Players)
  <2>1. MeasuredUsers \union {CutUser} \subseteq Players
    BY DEF MeasuredUsers, Players
  <2> QED
    BY <1>3, <2>1
<1>5. <<build.profile>> \in Seq(Players) /\ <<MeasuredUser>> \in Seq(Players)
  BY <1>2 DEF Players
<1>6. users # sync
  OBVIOUS
<1>7. <<>> \in Seq(Players)
  BY EmptySeq
<1> HIDE DEF cut, users, sync, content
<1> SUFFICES ASSUME NEW key \in DOMAIN capturedResponses
             PROVE  /\ capturedResponses[key] \in Seq(Players)
                    /\ key = users /\ userInfoTemplate = NoTemplate =>
                         \A i \in 1 .. Len(capturedResponses[key]) :
                           capturedResponses[key][i] = CutUser
                    /\ key = sync => capturedResponses[key][1] \in {MeasuredProfile, BareUser}
                    /\ key \notin {users, sync} /\ key \notin content =>
                         capturedResponses[key] = <<>>
  BY DEF users, sync, content
<1>8. CASE key = users
  BY <1>1, <1>3, <1>4, <1>6, <1>8
<1>9. CASE key = sync
  <2>1. capturedResponses[key] = <<build.profile>>
    BY <1>1, <1>6, <1>9
  <2> QED
    BY <1>2, <1>5, <1>6, <1>9, <2>1
<1>10. CASE key # users /\ key # sync
  BY <1>1, <1>5, <1>7, <1>10
<1> QED
  BY <1>8, <1>9, <1>10

LEMMA DataStoreInitInv == DataStoreInit => DataStoreInv
<1> SUFFICES ASSUME DataStoreInit PROVE DataStoreInv
  OBVIOUS
<1>1. BuildType
  <2>1. CASE /\ capturedResponses = <<>> /\ userInfoTemplate = NoTemplate
             /\ resultSuccessTpl = NoResult
    BY <2>1 DEF BuildType
  <2>2. CASE \E build \in Builds :
               /\ capturedResponses = MeasuredBodies(build)
               /\ userInfoTemplate = carveUserTemplates(build.users.whole).user
               /\ resultSuccessTpl = carveUserTemplates(build.users.whole).result
    BY <2>2, Carved, BodiesShow DEF BuildType
  <2> QED
    BY <2>1, <2>2 DEF DataStoreInit
<1>2. AccountsType /\ CacheType
  BY ProfileAssumption, EmptySeq DEF DataStoreInit, ProfileInit, AccountsType, CacheType
<1>3. job \in [Requests -> JobType]
  BY NoJobFacts DEF DataStoreInit, ProfileInit
<1>4. \A r \in Requests : job[r] = NoJob
  BY DEF DataStoreInit, ProfileInit
<1>5. JobInv(NoJob)
  BY NoJobFacts, NoAnswerFacts, EmptySeq DEF JobInv
<1> QED
  BY <1>1, <1>2, <1>3, <1>4, <1>5 DEF DataStoreInv

\* A request is not disturbed by what others do.
LEMMA Undisturbed ==
  ASSUME NEW q \in Requests, JobInv(job[q]), job'[q] = job[q], World,
         DOMAIN pseudoCache \subseteq DOMAIN pseudoCache'
  PROVE  JobInv(job[q])'
<1> PICK j : j = job[q]
  OBVIOUS
<1>1. ASSUME Going(j) PROVE Going(job[q])'
  <2>1. TemplateFor' = TemplateFor /\ UNCHANGED resultSuccessTpl
    BY SameTemplates DEF World
  <2>2. job'[q] = j
    OBVIOUS
  <2>3. j.method \in {48, 49} /\ TemplateFor'[j.method] \in Templates
        /\ parseGetUsersPIDs(j.pid, j.asked) \in Seq(PIDs)
    BY <1>1, <2>1 DEF Going
  <2> QED
    BY <1>1, <2>1, <2>2, <2>3 DEF Going
<1>2. JobInv(j) /\ job'[q] = j
  OBVIOUS
<1>3. UNCHANGED userInfoTemplate
  BY DEF World
<1> QED
  BY <1>1, <1>2, <1>3 DEF JobInv

LEMMA OneJob ==
  ASSUME DataStoreInv, NEW r \in Requests, AccountsType', CacheType', World,
         DOMAIN pseudoCache \subseteq DOMAIN pseudoCache',
         NEW j \in JobType, job' = [job EXCEPT ![r] = j], JobInv(job[r])'
  PROVE  DataStoreInv'
<1>1. BuildType'
  BY DEF DataStoreInv, BuildType, World
<1>2. job' \in [Requests -> JobType]
  BY DEF DataStoreInv
<1>3. ASSUME NEW q \in Requests \ {r} PROVE JobInv(job[q])'
  <2>1. job'[q] = job[q] /\ JobInv(job[q])
    BY DEF DataStoreInv
  <2> QED
    BY <2>1, Undisturbed
<1> QED
  BY <1>1, <1>2, <1>3 DEF DataStoreInv

\* An answer without profiles is complete at once.
LEMMA AnsweredStep ==
  ASSUME DataStoreInv, NEW r \in Requests, NEW method \in Methods \union {8},
         NEW answer \in AnswerType, answer.kind # "profiles",
         \A i \in 1 .. Len(answer.users) : method = 48 /\ answer.users[i] = CutUser,
         Answered(r, method, answer)
  PROVE  DataStoreInv'
<1> DEFINE j == [NoJob EXCEPT !.step = "answered", !.method = method, !.answer = answer]
<1>1. j \in JobType
  <2>1. "answered" \in Steps /\ method \in Served
    BY DEF Steps, Served
  <2> QED
    BY <2>1, NoJobFacts DEF JobType
<1>2. /\ j.step = "answered" /\ j.method = method /\ j.answer = answer
      /\ j.todo = <<>> /\ j.sure = {}
  BY NoJobFacts DEF JobType
<1>3. job' = [job EXCEPT ![r] = j] /\ UNCHANGED <<pseudoCache, name, renames>> /\ World
  BY DEF Answered, Accept
<1> HIDE DEF j
<1>4. job'[r] = j
  BY <1>3 DEF DataStoreInv
<1>5. JobInv(job[r])'
  <2>1. \A i \in 1 .. Len(answer.users) : WellShown(j, answer.users[i])
    BY <1>2 DEF WellShown
  <2> QED
    BY <1>2, <1>3, <1>4, <2>1 DEF JobInv, WellShown
<1>6. AccountsType' /\ CacheType'
  BY <1>3 DEF DataStoreInv, AccountsType, CacheType
<1> QED
  BY <1>1, <1>3, <1>5, <1>6, OneJob

\* A request for profiles starts with nobody written.
LEMMA ServeStep ==
  ASSUME DataStoreInv, NEW r \in Requests, NEW method \in {48, 49}, NEW pid \in PIDs,
         NEW asked \in Seq(PIDs), NEW pids, pids = parseGetUsersPIDs(pid, asked),
         TemplateOf(method) \in Templates, Serve48Or49(r, method, pid, asked, pids)
  PROVE  DataStoreInv'
<1> DEFINE ans == [NoAnswer EXCEPT !.kind = "profiles", !.announced = Len(pids)]
           sure == DOMAIN pseudoCache \intersect Range(pids)
           j == [NoJob EXCEPT
                  !.step = "lookup", !.method = method, !.pid = pid, !.asked = asked,
                  !.todo = pids, !.sure = sure, !.answer = ans]
<1>1. pids \in Seq(PIDs) /\ Len(pids) \in Nat /\ Len(pids) >= 1 /\ pids # <<>>
  <2>1. <<pid>> \in Seq(PIDs) /\ Len(<<pid>>) = 1 /\ <<pid>> # <<>>
    OBVIOUS
  <2>2. Len(asked) \in 1 .. MaxAsked => Len(asked) >= 1 /\ asked # <<>>
    BY ProfileAssumption, EmptySeq
  <2> QED
    BY <2>1, <2>2, LenProperties DEF parseGetUsersPIDs
<1>2. ans \in AnswerType
  <2>1. "profiles" \in Kinds
    BY DEF Kinds
  <2> QED
    BY <1>1, <2>1, NoAnswerFacts DEF AnswerType
<1>3. ans.kind = "profiles" /\ ans.announced = Len(pids) /\ ans.users = <<>>
  BY NoAnswerFacts DEF AnswerType
<1> HIDE DEF ans
<1>4. sure \subseteq PIDs /\ sure \subseteq DOMAIN pseudoCache
  BY DEF DataStoreInv, CacheType
<1> HIDE DEF sure
<1>5. j \in JobType
  <2>1. "lookup" \in Steps /\ method \in Served /\ pid \in Callers /\ sure \in SUBSET PIDs
    BY <1>4 DEF Steps, Served, Callers
  <2> HIDE DEF sure
  <2> QED
    BY <1>1, <1>2, <2>1, NoJobFacts DEF JobType
<1>6. /\ j.step = "lookup" /\ j.method = method /\ j.pid = pid /\ j.asked = asked
      /\ j.todo = pids /\ j.sure = sure /\ j.answer = ans
  BY NoJobFacts DEF JobType
<1>7. job' = [job EXCEPT ![r] = j] /\ UNCHANGED <<pseudoCache, name, renames>> /\ World
  BY DEF Serve48Or49, Accept, ans, sure
<1> HIDE DEF j
<1>8. job'[r] = j
  BY <1>7 DEF DataStoreInv
<1>9. JobInv(job[r])'
  <2>1. Going(job[r])'
    <3>1. Len(ans.users) = 0
      BY <1>3
    <3>2. /\ job'[r].answer.announced = Len(pids) /\ Len(job'[r].answer.users) = 0
          /\ job'[r].todo = pids /\ job'[r].step # "answered" /\ job'[r].method = method
          /\ parseGetUsersPIDs(job'[r].pid, job'[r].asked) = pids
      BY <1>3, <1>6, <1>7, <1>8, <3>1 DEF World, TemplateOf
    <3>3. TemplateFor[method] \in Templates
      BY DEF TemplateFor
    <3>4. TemplateFor' = TemplateFor
      BY <1>7, SameTemplates
    <3> HIDE DEF j
    <3>5. Len(job'[r].answer.users) + Len(job'[r].todo) = Len(pids)
      BY <1>1, <3>2
    <3>6. \A i \in 1 .. Len(job'[r].todo) :
            job'[r].todo[i] = pids[Len(job'[r].answer.users) + i]
      BY <1>1, <3>2
    <3>7. \A i \in 1 .. Len(job'[r].answer.users) : FALSE
      BY <3>2
    <3> QED
      BY <1>1, <3>2, <3>3, <3>4, <3>5, <3>6, <3>7 DEF Going
  <2> QED
    BY <1>1, <1>3, <1>4, <1>6, <1>7, <1>8, <2>1, EmptySeq DEF JobInv
<1>10. AccountsType' /\ CacheType'
  BY <1>7 DEF DataStoreInv, AccountsType, CacheType
<1> QED
  BY <1>5, <1>7, <1>9, <1>10, OneJob

\* The profile of the next PID.  Found is its name, or nothing if that was
\* not known when the request came.
LEMMA WriteStep ==
  ASSUME DataStoreInv, NEW r \in Requests, job[r].step \in {"lookup", "store"},
         NEW found \in {NoName} \union ({Head(job[r].todo)} \X Versions),
         Head(job[r].todo) \in job[r].sure => found # NoName,
         Write(r, found), AccountsType', CacheType', World,
         DOMAIN pseudoCache \subseteq DOMAIN pseudoCache'
  PROVE  DataStoreInv'
<1> DEFINE j == job[r]
           pid == Head(j.todo)
           rest == Tail(j.todo)
           pseudo == pseudoOr(pid, found)
           user == Patched(j.method, pid, pseudo)
           results == IF rest = <<>> /\ j.method = 48 /\ resultSuccessTpl # NoResult
                      THEN [i \in 1 .. j.answer.announced |-> resultSuccessTpl]
                      ELSE j.answer.results
           ans == [j.answer EXCEPT !.users = Append(@, user), !.results = results]
           step == IF rest = <<>> THEN "answered" ELSE "lookup"
           k == [j EXCEPT !.todo = rest, !.found = NoName, !.answer = ans, !.step = step]
<1>1. j \in JobType /\ JobInv(j) /\ j.answer \in AnswerType
  BY DEF DataStoreInv, JobType
<1>2. j.todo \in Seq(PIDs) /\ j.todo # <<>> /\ j.answer.kind = "profiles"
  BY <1>1 DEF JobInv, JobType
<1>3. /\ pid \in PIDs /\ rest \in Seq(PIDs) /\ Len(rest) = Len(j.todo) - 1
      /\ pid = j.todo[1] /\ \A i \in 1 .. Len(rest) : rest[i] = j.todo[i + 1]
      /\ Len(j.todo) \in Nat /\ Len(j.todo) >= 1
  BY <1>2, HeadTailProperties, LenProperties, EmptySeq
<1>4. pseudo \in Pseudos
  BY <1>3 DEF pseudoOr, Pseudos, Fallback, Versions
<1>13. Going(j)
  BY <1>1, <1>2 DEF JobInv
<1> DEFINE bare == TemplateOf(j.method) = BareUser
<1>5. /\ user \in Players
      /\ bare => user = BareUser
      /\ ~bare => /\ user.pid = pid /\ user.name = pseudo
                  /\ j.method = 48 => user.code = makerCode(pid)
  BY <1>3, <1>4, <1>13, PatchedFacts DEF Going, TemplateFor
<1>6. WellShown(j, user)
  <2>1. CASE bare
    <3>1. user = BareUser /\ user.pid = "bare"
      BY <1>5, <2>1 DEF BareUser, Player
    <3>2. user.pid \notin j.sure
      BY <1>1, <3>1, ProfileAssumption DEF JobType
    <3> QED
      BY <3>1, <3>2 DEF WellShown
  <2>2. CASE ~bare /\ found = NoName
    <3>1. user.name = Fallback(user.pid) /\ user.pid \notin j.sure
      BY <1>5, <2>2 DEF pseudoOr
    <3> QED
      BY <1>3, <1>5, <2>2, <3>1 DEF WellShown, ShowsItself
  <2>3. CASE ~bare /\ found \in {pid} \X Versions
    <3>1. found # NoName
      BY <2>3 DEF NoName
    <3>2. found # Fallback(pid)
      BY <1>3, <2>3, ProfileAssumption DEF Fallback
    <3>3. PICK v \in Versions : found = <<pid, v>>
      BY <2>3
    <3>4. found = Name(pid, v)
      BY <3>3, ProfileAssumption DEF Name, Versions
    <3>5. user.name = found
      BY <1>5, <2>3, <3>1 DEF pseudoOr
    <3> HIDE DEF user
    <3>6. ShowsItself(j.method, user)
      BY <1>3, <1>5, <2>3, <3>4, <3>5 DEF ShowsItself, Versions
    <3> QED
      BY <1>5, <2>3, <3>2, <3>5, <3>6 DEF WellShown
  <2> QED
    BY <2>1, <2>2, <2>3
<1> HIDE DEF user, pseudo
<1>7. results \in Seq({Result, NoResult})
  <2>1. [i \in 1 .. j.answer.announced |-> resultSuccessTpl] \in Seq({Result, NoResult})
    BY <1>1 DEF AnswerType, DataStoreInv, BuildType
  <2> QED
    BY <1>1, <2>1 DEF AnswerType
<1> HIDE DEF results
<1>8. /\ Append(j.answer.users, user) \in Seq(Players)
      /\ Len(Append(j.answer.users, user)) = Len(j.answer.users) + 1
      /\ \A i \in 1 .. Len(j.answer.users) : Append(j.answer.users, user)[i] = j.answer.users[i]
      /\ Append(j.answer.users, user)[Len(j.answer.users) + 1] = user
      /\ Len(j.answer.users) \in Nat
  BY <1>1, <1>5, AppendProperties, LenProperties DEF AnswerType
<1>9. /\ ans \in AnswerType
      /\ ans.users = Append(j.answer.users, user) /\ ans.results = results
      /\ ans.announced = j.answer.announced /\ ans.kind = j.answer.kind
  BY <1>1, <1>7, <1>8 DEF AnswerType
<1>10. job' = [job EXCEPT ![r] = k]
  BY DEF Write, user, pseudo, results
<1> HIDE DEF ans
<1>11. /\ k \in JobType /\ k.todo = rest /\ k.found = NoName /\ k.step = step
       /\ k.answer = ans /\ k.method = j.method /\ k.pid = j.pid /\ k.asked = j.asked
       /\ k.sure = j.sure
  <2>1. step \in Steps /\ NoName \in Founds
    BY DEF Steps, Founds
  <2> HIDE DEF step
  <2> QED
    BY <1>1, <1>3, <1>9, <2>1 DEF JobType
<1> HIDE DEF k
<1>12. job'[r] = k
  BY <1>10 DEF DataStoreInv
<1>14. Going(job[r])'
  <2> DEFINE pids == parseGetUsersPIDs(j.pid, j.asked)
  <2>1. /\ Len(j.answer.users) + Len(j.todo) = Len(pids) /\ pids \in Seq(PIDs)
        /\ j.answer.announced = Len(pids)
        /\ ~bare => \A i \in 1 .. Len(j.answer.users) : j.answer.users[i].pid = pids[i]
        /\ \A i \in 1 .. Len(j.todo) : j.todo[i] = pids[Len(j.answer.users) + i]
        /\ j.method \in {48, 49} /\ TemplateFor[j.method] \in Templates
        /\ bare <=> TemplateFor[j.method] = BareUser
    BY <1>13 DEF Going, TemplateFor
  <2>2. parseGetUsersPIDs(k.pid, k.asked) = pids
    BY <1>11
  <2> DEFINE us == j.answer.users
             todo == j.todo
             n == Len(us)
             m == Len(todo)
  <2>7. /\ n \in Nat /\ m \in Nat /\ m >= 1 /\ n + m = Len(pids)
        /\ Len(ans.users) = n + 1 /\ Len(rest) = m - 1
        /\ \A i \in 1 .. n : ans.users[i] = us[i]
        /\ ~bare => \A i \in 1 .. n : us[i].pid = pids[i]
        /\ ans.users[n + 1] = user /\ (~bare => user.pid = todo[1])
        /\ \A i \in 1 .. m : todo[i] = pids[n + i]
        /\ \A i \in 1 .. m - 1 : rest[i] = todo[i + 1]
    BY <1>3, <1>5, <1>8, <1>9, <2>1
  <2> HIDE DEF pids, us, todo, n, m, rest
  <2>3. Len(ans.users) + Len(rest) = Len(pids)
    BY <2>7
  <2>4. ~bare => \A i \in 1 .. Len(ans.users) : ans.users[i].pid = pids[i]
    <3> SUFFICES ASSUME ~bare, NEW i \in 1 .. Len(ans.users) PROVE ans.users[i].pid = pids[i]
      OBVIOUS
    <3>1. CASE i = n + 1
      BY <2>7, <3>1
    <3>2. CASE i \in 1 .. n
      BY <2>7, <3>2
    <3> QED
      BY <2>7, <3>1, <3>2
  <2>5. \A i \in 1 .. Len(rest) : rest[i] = pids[Len(ans.users) + i]
    <3> SUFFICES ASSUME NEW i \in 1 .. Len(rest) PROVE rest[i] = pids[Len(ans.users) + i]
      OBVIOUS
    <3>1. rest[i] = todo[i + 1] /\ i + 1 \in 1 .. m /\ n + (i + 1) = (n + 1) + i
      BY <2>7
    <3> QED
      BY <2>7, <3>1
  <2>6. step = "answered" /\ j.method = 48 /\ resultSuccessTpl' # NoResult =>
          ans.results = [i \in 1 .. ans.announced |-> resultSuccessTpl']
    BY <1>9 DEF results, rest, World
  <2>8. /\ job'[r].todo = rest /\ job'[r].answer = ans /\ job'[r].step = step
        /\ job'[r].method = j.method
        /\ parseGetUsersPIDs(job'[r].pid, job'[r].asked) = pids
        /\ ans.announced = Len(pids)
    BY <1>9, <1>11, <1>12, <2>1, <2>2
  <2> HIDE DEF j, step
  <2> QED
    BY <2>1, <2>3, <2>4, <2>5, <2>6, <2>8, SameTemplates DEF Going
<1>15. JobInv(job[r])'
  <2>1. \A i \in 1 .. Len(ans.users) : WellShown(k, ans.users[i])
    <3>1. \A i \in 1 .. Len(j.answer.users) : WellShown(j, j.answer.users[i])
      BY <1>1 DEF JobInv
    <3>2. \A u : WellShown(j, u) => WellShown(k, u)
      BY <1>11 DEF WellShown, ShowsItself
    <3> QED
      BY <1>6, <1>8, <1>9, <3>1, <3>2
  <2>2. k.step \in {"lookup", "ask", "store"} <=> k.todo # <<>>
    BY <1>11
  <2>3. k.sure \subseteq DOMAIN pseudoCache'
    BY <1>1, <1>11 DEF JobInv
  <2>4. k.step \in {"answered", "lookup"} /\ k.answer.kind = "profiles"
    BY <1>2, <1>9, <1>11
  <2>5. WellShown(job'[r], job'[r].answer.users[1]) = WellShown(k, k.answer.users[1])
    BY <1>12
  <2> QED
    BY <1>11, <1>12, <1>14, <2>1, <2>2, <2>3, <2>4 DEF JobInv, WellShown
<1> QED
  BY <1>10, <1>11, <1>15, OneJob

\* A request that is looking a name up, after one of its steps without an answer.
LEMMA LookingUp ==
  ASSUME DataStoreInv, NEW r \in Requests, job[r].todo # <<>>,
         NEW step \in {"ask", "store"},
         NEW found \in Founds,
         step = "store" => found \in {NoName} \union ({Head(job[r].todo)} \X Versions),
         Head(job[r].todo) \notin job[r].sure,
         job' = [job EXCEPT ![r] = [job[r] EXCEPT !.step = step, !.found = found]],
         UNCHANGED <<pseudoCache, name, renames>>, World
  PROVE  DataStoreInv'
<1> DEFINE j == job[r]
           k == [j EXCEPT !.step = step, !.found = found]
<1>1. j \in JobType /\ JobInv(j)
  BY DEF DataStoreInv
<1>3. step \in Steps
  BY DEF Steps
<1>4. /\ k \in JobType /\ k.step = step /\ k.found = found /\ k.todo = j.todo
      /\ k.answer = j.answer /\ k.method = j.method /\ k.pid = j.pid /\ k.asked = j.asked
      /\ k.sure = j.sure
  BY <1>1, <1>3 DEF JobType
<1>5. job' = [job EXCEPT ![r] = k]
  OBVIOUS
<1> HIDE DEF k
<1>6. job'[r] = k
  BY <1>5 DEF DataStoreInv
<1>7. JobInv(job[r])'
  <2>1. Going(j) => Going(job[r])'
    <3>1. /\ job'[r].answer = j.answer /\ job'[r].todo = j.todo /\ job'[r].pid = j.pid
          /\ job'[r].asked = j.asked /\ job'[r].step # "answered"
          /\ job'[r].method = j.method
      BY <1>4, <1>6
    <3> HIDE DEF j
    <3> QED
      BY <3>1, SameTemplates DEF Going, World
  <2>2. \A u : WellShown(j, u) => WellShown(k, u)
    BY <1>4 DEF WellShown
  <2>3. \A i \in 1 .. Len(k.answer.users) : WellShown(k, k.answer.users[i])
    BY <1>1, <1>4, <2>2 DEF JobInv
  <2>4. (k.answer.kind = "profiles" => Going(job[r])')
        /\ (k.answer.kind # "profiles" => k.todo = <<>>)
        /\ (k.step \in {"lookup", "ask", "store"} <=> k.todo # <<>>)
    BY <1>1, <1>4, <2>1 DEF JobInv
  <2>6. /\ k.sure \subseteq DOMAIN pseudoCache
        /\ k.step \in {"ask", "store"} => Head(k.todo) \notin k.sure
        /\ k.step = "store" => k.found \in {NoName} \union ({Head(k.todo)} \X Versions)
    BY <1>1, <1>4 DEF JobInv
  <2> QED
    BY <1>6, <2>3, <2>4, <2>6 DEF JobInv
<1>8. AccountsType' /\ CacheType'
  BY DEF DataStoreInv, AccountsType, CacheType
<1> QED
  BY <1>4, <1>5, <1>7, <1>8, OneJob

LEMMA LookupStep ==
  ASSUME DataStoreInv, NEW r \in Requests, Lookup(r), UNCHANGED <<name, renames>>, World
  PROVE  DataStoreInv'
<1> DEFINE j == job[r]
           pid == Head(j.todo)
<1>1. JobInv(j) /\ j.step = "lookup" /\ j.todo # <<>> /\ UNCHANGED pseudoCache
  BY DEF DataStoreInv, JobInv, Lookup
<1>2. AccountsType' /\ CacheType'
  BY <1>1 DEF DataStoreInv, AccountsType, CacheType
<1>3. CASE pid \in DOMAIN pseudoCache
  <2>1. pseudoCache[pid] \in {pid} \X Versions /\ Write(r, pseudoCache[pid])
    BY <1>3 DEF DataStoreInv, CacheType, Lookup
  <2>2. pseudoCache[pid] # NoName
    BY <2>1, NamesAreSome
  <2> QED
    BY <1>1, <1>2, <2>1, <2>2, WriteStep
<1>4. CASE pid \notin DOMAIN pseudoCache
  <2>1. pid \notin j.sure
    BY <1>1, <1>4 DEF JobInv
  <2>2. job' = [job EXCEPT ![r] = [job[r] EXCEPT !.step = "ask", !.found = j.found]]
    <3>1. job' = [job EXCEPT ![r].step = "ask"]
      BY <1>4 DEF Lookup
    <3>2. [job EXCEPT ![r].step = "ask"]
        = [job EXCEPT ![r] = [job[r] EXCEPT !.step = "ask", !.found = j.found]]
      BY DEF DataStoreInv, JobType
    <3> QED
      BY <3>1, <3>2
  <2>3. j.found \in Founds
    BY DEF DataStoreInv, JobType
  <2> QED
    BY <1>1, <2>1, <2>2, <2>3, LookingUp
<1> QED
  BY <1>3, <1>4

LEMMA AnswerStep ==
  ASSUME DataStoreInv, NEW r \in Requests, Answer(r), UNCHANGED <<name, renames>>, World
  PROVE  DataStoreInv'
<1> DEFINE j == job[r]
           pid == Head(j.todo)
<1>1. /\ JobInv(j) /\ j.step = "ask" /\ j.todo # <<>> /\ pid \notin j.sure
      /\ UNCHANGED pseudoCache
  BY DEF DataStoreInv, JobInv, Answer
<1>2. pid \in PIDs
  BY <1>1, HeadTailProperties, EmptySeq DEF DataStoreInv, JobType
<1>3. PICK found \in {NoName, Name(pid, name[pid])} :
        job' = [job EXCEPT ![r].step = "store", ![r].found = found]
  BY DEF Answer
<1>4. found \in {NoName} \union ({pid} \X Versions)
  <2>1. name[pid] \in Nat /\ name[pid] <= 1 + MaxRenames
    BY <1>2, ProfileAssumption DEF DataStoreInv, AccountsType
  <2>2. name[pid] = 0 \/ name[pid] \in Versions
    BY <2>1, ProfileAssumption DEF Versions
  <2> QED
    BY <1>3, <2>2 DEF Name
<1>5. job' = [job EXCEPT ![r] = [job[r] EXCEPT !.step = "store", !.found = found]]
  BY <1>3 DEF DataStoreInv, JobType
<1>6. found \in Founds
  BY <1>2, <1>4 DEF Founds
<1> QED
  BY <1>1, <1>4, <1>5, <1>6, LookingUp

LEMMA StoreStep ==
  ASSUME DataStoreInv, NEW r \in Requests, Store(r), UNCHANGED <<name, renames>>, World
  PROVE  DataStoreInv'
<1> DEFINE j == job[r]
           pid == Head(j.todo)
<1>1. /\ JobInv(j) /\ j.step = "store" /\ j.todo # <<>> /\ pid \notin j.sure
      /\ j.found \in {NoName} \union ({pid} \X Versions)
      /\ Write(r, j.found)
  BY DEF DataStoreInv, JobInv, Store
<1>2. pid \in PIDs
  BY <1>1, HeadTailProperties, EmptySeq DEF DataStoreInv, JobType
<1>3. AccountsType'
  BY DEF DataStoreInv, AccountsType
<1>4. CacheType' /\ DOMAIN pseudoCache \subseteq DOMAIN pseudoCache'
  <2>1. CASE j.found = NoName
    BY <2>1 DEF Store, DataStoreInv, CacheType
  <2>2. CASE j.found # NoName
    <3>1. CachedAs(pid, j.found) /\ j.found \in {pid} \X Versions
      BY <1>1, <2>2 DEF Store
    <3> HIDE DEF j, pid
    <3> QED
      BY <1>2, <3>1 DEF CachedAs, DataStoreInv, CacheType
  <2> QED
    BY <2>1, <2>2
<1> QED
  BY <1>1, <1>3, <1>4, WriteStep

\* A body that is replayed shows nobody, or a user that breaks off.
LEMMA ReplayShows ==
  ASSUME DataStoreInv, NEW method, NEW proto \in {DataStoreProtocol, Utility},
         Captured(proto, method),
         Structural(proto, method) \/ method = 25
  PROVE  LET shown == capturedResponses[<<proto, method>>]
         IN shown \in Seq(Players) /\ \A i \in 1 .. Len(shown) : method = 48 /\ shown[i] = CutUser
<1> DEFINE key == <<proto, method>>
           shown == capturedResponses[key]
<1>1. key \in DOMAIN capturedResponses
  BY DEF Captured
<1>2. /\ shown \in Seq(Players)
      /\ key = <<DataStoreProtocol, 48>> /\ userInfoTemplate = NoTemplate =>
           \A i \in 1 .. Len(shown) : shown[i] = CutUser
      /\ /\ key \notin {<<DataStoreProtocol, 48>>, <<DataStoreProtocol, 49>>}
         /\ key \notin {DataStoreProtocol} \X DOMAIN smm2EmptyBuilders
         => shown = <<>>
  BY <1>1 DEF DataStoreInv, BuildType
<1>3. proto = DataStoreProtocol =>
        /\ method # 49 /\ method \notin DOMAIN smm2EmptyBuilders
        /\ method = 48 => userInfoTemplate = NoTemplate
  BY NoEnvelope DEF Structural
<1>4. CASE key = <<DataStoreProtocol, 48>>
  BY <1>2, <1>3, <1>4
<1>5. CASE key # <<DataStoreProtocol, 48>>
  <2>1. key # <<DataStoreProtocol, 49>> /\ key \notin {DataStoreProtocol} \X DOMAIN smm2EmptyBuilders
    BY <1>3
  <2>2. shown = <<>> /\ Len(shown) = 0
    BY <1>2, <1>5, <2>1
  <2> QED
    BY <1>2, <2>2
<1> QED
  BY <1>4, <1>5

LEMMA ReplayedStep ==
  ASSUME DataStoreInv, NEW r \in Requests, NEW method \in Methods,
         NEW proto \in {DataStoreProtocol, Utility}, Captured(proto, method),
         Structural(proto, method) \/ method = 25, Replayed(r, proto, method)
  PROVE  DataStoreInv'
<1> DEFINE shown == capturedResponses[<<proto, method>>]
           answer == [NoAnswer EXCEPT !.kind = "measured", !.proto = proto, !.users = shown]
<1>1. shown \in Seq(Players) /\ \A i \in 1 .. Len(shown) : method = 48 /\ shown[i] = CutUser
  BY ReplayShows
<1>2. Answered(r, method, answer)
  BY DEF Replayed
<1> HIDE DEF shown
<1>3. answer \in AnswerType /\ answer.kind = "measured" /\ answer.users = shown
  <2>1. "measured" \in Kinds /\ proto \in Protocols
    BY DEF Kinds, Protocols
  <2> QED
    BY <1>1, <2>1, NoAnswerFacts DEF AnswerType
<1> HIDE DEF answer
<1> QED
  BY <1>1, <1>2, <1>3, AnsweredStep

\* What a request is answered with when there is nothing to look up.
LEMMA DispatchStep ==
  ASSUME DataStoreInv, NEW r \in Requests, NEW method \in Methods,
         NEW proto \in {DataStoreProtocol, Utility},
         \/ EmptyEnvelope(r, method)
         \/ OwnHandler(r, method)
         \/ PrepareGetObject(r, method)
         \/ Replay(r, proto, method)
         \/ EmptyList(r, proto, method)
  PROVE  DataStoreInv'
<1>1. /\ {"empty", "handler", "error"} \subseteq Kinds
      /\ proto \in Protocols /\ <<List>> \in Forms
  BY DEF Kinds, Protocols, Forms
<1>2. CASE EmptyEnvelope(r, method)
  <2> DEFINE form == smm2EmptyBuilders[method]
             answer == [NoAnswer EXCEPT !.kind = "empty", !.form = form]
  <2>1. form \in Forms
    BY <1>2 DEF EmptyEnvelope, Forms
  <2> HIDE DEF form
  <2>2. answer \in AnswerType /\ answer.kind = "empty" /\ answer.users = <<>>
    BY <1>1, <2>1, NoAnswerFacts DEF AnswerType
  <2>3. Answered(r, method, answer)
    BY <1>2 DEF EmptyEnvelope, form
  <2> HIDE DEF answer
  <2> QED
    BY <2>2, <2>3, AnsweredStep
<1>3. CASE OwnHandler(r, method)
  <2> DEFINE answer == [NoAnswer EXCEPT !.kind = "handler"]
  <2>1. answer \in AnswerType /\ answer.kind = "handler" /\ answer.users = <<>>
    BY <1>1, NoAnswerFacts DEF AnswerType
  <2>2. Answered(r, method, answer)
    BY <1>3 DEF OwnHandler
  <2> HIDE DEF answer
  <2> QED
    BY <2>1, <2>2, AnsweredStep
<1>4. CASE Replay(r, proto, method)
  BY <1>4, ReplayedStep DEF Replay
<1>6. CASE PrepareGetObject(r, method)
  <2>1. ASSUME NEW kind \in {"handler", "error"},
               Answered(r, method, [NoAnswer EXCEPT !.kind = kind])
        PROVE  DataStoreInv'
    <3> DEFINE answer == [NoAnswer EXCEPT !.kind = kind]
    <3>1. answer \in AnswerType /\ answer.kind = kind /\ answer.users = <<>>
      BY <1>1, NoAnswerFacts DEF AnswerType
    <3>2. Answered(r, method, answer)
      BY <2>1
    <3> HIDE DEF answer
    <3> QED
      BY <3>1, <3>2, AnsweredStep
  <2>2. CASE Captured(DataStoreProtocol, 25) /\ Replayed(r, DataStoreProtocol, 25)
    BY <1>6, <2>2, ReplayedStep DEF PrepareGetObject
  <2> QED
    BY <1>6, <2>1, <2>2 DEF PrepareGetObject
<1>5. CASE EmptyList(r, proto, method)
  <2> DEFINE answer == [NoAnswer EXCEPT !.kind = "empty", !.form = <<List>>, !.proto = proto]
  <2>1. answer \in AnswerType /\ answer.kind = "empty" /\ answer.users = <<>>
    BY <1>1, NoAnswerFacts DEF AnswerType
  <2>2. Answered(r, method, answer)
    BY <1>5 DEF EmptyList
  <2> HIDE DEF answer
  <2> QED
    BY <2>1, <2>2, AnsweredStep
<1> QED
  BY <1>2, <1>3, <1>4, <1>5, <1>6

LEMMA RespondStep ==
  ASSUME DataStoreInv, NEW r \in Requests, Respond(r)
  PROVE  DataStoreInv'
<1>1. job' = [job EXCEPT ![r] = NoJob] /\ UNCHANGED <<pseudoCache, name, renames>> /\ World
  BY DEF Respond
<1>2. job'[r] = NoJob
  BY <1>1 DEF DataStoreInv
<1>3. JobInv(job[r])'
  BY <1>2, NoJobFacts, NoAnswerFacts, EmptySeq DEF JobInv
<1>4. AccountsType' /\ CacheType'
  BY <1>1 DEF DataStoreInv, AccountsType, CacheType
<1> QED
  BY <1>1, <1>3, <1>4, NoJobFacts, OneJob

LEMMA SameJobs ==
  ASSUME DataStoreInv, UNCHANGED <<pseudoCache, job>>, World, AccountsType'
  PROVE  DataStoreInv'
<1>1. \A r \in Requests : JobInv(job[r])'
  BY Undisturbed DEF DataStoreInv
<1> QED
  BY <1>1 DEF DataStoreInv, BuildType, CacheType, World

LEMMA RenameStep ==
  ASSUME DataStoreInv, NEW pid \in PIDs, Rename(pid), World
  PROVE  DataStoreInv'
<1>1. AccountsType'
  BY ProfileAssumption DEF Rename, DataStoreInv, AccountsType
<1> QED
  BY <1>1, SameJobs DEF Rename

LEMMA DataStoreStep == DataStoreInv /\ [DataStoreNext]_dataStoreVars => DataStoreInv'
<1> SUFFICES ASSUME DataStoreInv, [DataStoreNext]_dataStoreVars PROVE DataStoreInv'
  OBVIOUS
<1>1. ASSUME NEW r \in Requests, NEW pid \in PIDs, SyncUserProfile(r, pid)
      PROVE  DataStoreInv'
  <2>1. <<>> \in Seq(PIDs) /\ <<pid>> = parseGetUsersPIDs(pid, <<>>)
    BY EmptySeq DEF parseGetUsersPIDs
  <2>2. TemplateOf(49) \in Templates
    BY <1>1 DEF SyncUserProfile, Captured, TemplateOf, DataStoreInv, BuildType, Templates
  <2> QED
    BY <1>1, <2>1, <2>2, ServeStep DEF SyncUserProfile
<1>2. ASSUME NEW r \in Requests, NEW pid \in PIDs, NEW asked \in Asks,
             GetUsers(r, pid, asked)
      PROVE  DataStoreInv'
  <2>1. TemplateOf(48) \in Templates
    BY <1>2 DEF GetUsers, TemplateOf, DataStoreInv, BuildType, MeasuredUsers, Templates
  <2> QED
    BY <1>2, <2>1, ServeStep, DataStoreAssumption DEF GetUsers
<1>3. ASSUME NEW r \in Requests, NEW method \in Methods,
             \/ EmptyEnvelope(r, method) \/ OwnHandler(r, method) \/ PrepareGetObject(r, method)
             \/ \E proto \in {DataStoreProtocol, Utility} :
                  Replay(r, proto, method) \/ EmptyList(r, proto, method)
      PROVE  DataStoreInv'
  BY <1>3, DispatchStep
<1>4. ASSUME NEW r \in Requests, NotFound(r) PROVE DataStoreInv'
  <2> DEFINE answer == [NoAnswer EXCEPT !.kind = "error"]
  <2>1. answer \in AnswerType /\ answer.kind = "error" /\ answer.users = <<>>
    BY NoAnswerFacts DEF AnswerType, Kinds
  <2>2. Answered(r, 8, answer)
    BY <1>4 DEF NotFound
  <2> HIDE DEF answer
  <2>3. \A i \in 1 .. Len(answer.users) : 8 = 48 /\ answer.users[i] = CutUser
    BY <2>1
  <2>4. 8 \in Methods \union {8} /\ answer.kind # "profiles"
    BY <2>1
  <2> QED
    BY <2>1, <2>2, <2>3, <2>4, AnsweredStep
<1>5. ASSUME NEW r \in Requests, Respond(r) PROVE DataStoreInv'
  BY <1>5, RespondStep
<1>6. ASSUME NEW r \in Requests, Lookup(r) \/ Answer(r) \/ Store(r),
             UNCHANGED <<name, renames>>, World
      PROVE  DataStoreInv'
  BY <1>6, LookupStep, AnswerStep, StoreStep
<1>7. ASSUME NEW pid \in PIDs, Rename(pid), World PROVE DataStoreInv'
  BY <1>7, RenameStep
<1>8. CASE UNCHANGED dataStoreVars
  <2>1. AccountsType'
    BY <1>8 DEF dataStoreVars, DataStoreInv, AccountsType
  <2> QED
    BY <1>8, <2>1, SameJobs DEF dataStoreVars, World
<1> QED
  BY <1>1, <1>2, <1>3, <1>4, <1>5, <1>6, <1>7, <1>8 DEF DataStoreNext

LEMMA DataStoreInvariant == DataStoreSpec => []DataStoreInv
BY DataStoreInitInv, DataStoreStep, PTL DEF DataStoreSpec

-----------------------------------------------------------------------------
\* No empty name is ever cached, the templates are elements of their lists,
\* and a request that looks up names has one to look up.
THEOREM DataStoreTypeCorrect == DataStoreSpec => []DataStoreTypeOK
<1>1. DataStoreInv => DataStoreTypeOK
  <2> SUFFICES ASSUME DataStoreInv PROVE DataStoreTypeOK
    OBVIOUS
  <2>1. name \in [PIDs -> 0 .. 1 + MaxRenames]
    BY ProfileAssumption DEF DataStoreInv, AccountsType
  <2>2. \A pid \in DOMAIN pseudoCache : pseudoCache[pid] # NoName
    BY NamesAreSome DEF DataStoreInv, CacheType
  <2>3. ASSUME NEW r \in Requests
        PROVE  /\ job[r].step \in Steps
               /\ Range(job[r].todo) \subseteq PIDs
               /\ job[r].step \in {"lookup", "ask", "store"} <=> job[r].todo # <<>>
    <3>1. job[r].step \in Steps /\ job[r].todo \in Seq(PIDs) /\ JobInv(job[r])
      BY DEF DataStoreInv, JobType
    <3>2. Range(job[r].todo) \subseteq PIDs
      BY <3>1, LenProperties, ElementOfSeq DEF Range
    <3> QED
      BY <3>1, <3>2 DEF JobInv
  <2> QED
    BY <2>1, <2>2, <2>3
       DEF DataStoreInv, BuildType, MeasuredUsers, CacheType, DataStoreTypeOK, Steps
<1> QED
  BY <1>1, DataStoreInvariant, PTL

\* In every build, wherever its answer of get_users is cut and whatever is asked,
\* whoever an answer shows is an account under its own PID, code and name, or
\* what is left of the first measured user where that answer breaks off.
THEOREM NobodyMeasured == DataStoreSpec => []OnlyOwnIdentities
<1>1. DataStoreInv => OnlyOwnIdentities
  <2> SUFFICES ASSUME DataStoreInv, NEW r \in Requests, NEW i \in DOMAIN job[r].answer.users
               PROVE  WellShown(job[r], job[r].answer.users[i])
    BY DEF OnlyOwnIdentities, WellShown
  <2>1. JobInv(job[r]) /\ job[r].answer.users \in Seq(Players)
    BY DEF DataStoreInv, JobType, AnswerType
  <2>2. DOMAIN job[r].answer.users = 1 .. Len(job[r].answer.users)
    BY <2>1, LenProperties
  <2> QED
    BY <2>1, <2>2 DEF JobInv
<1> QED
  BY <1>1, DataStoreInvariant, PTL

\* The profiles answered are those asked for, in the order asked, where the
\* template has a PID to replace.
THEOREM AskedIsAnswered == DataStoreSpec => []AnsweredAsAsked
<1>1. DataStoreInv => AnsweredAsAsked
  <2> SUFFICES ASSUME DataStoreInv, NEW r \in Requests, job[r].step = "answered",
                      job[r].answer.kind = "profiles"
               PROVE  LET answer == job[r].answer
                      IN /\ TemplateOf(job[r].method) # BareUser =>
                              [i \in DOMAIN answer.users |-> answer.users[i].pid] =
                                IF Len(job[r].asked) \in 1 .. MaxAsked THEN job[r].asked
                                                                       ELSE <<job[r].pid>>
                         /\ Len(answer.users) = answer.announced
                         /\ job[r].method = 48 /\ resultSuccessTpl # NoResult =>
                              answer.results = [i \in 1 .. answer.announced |-> Result]
    BY DEF AnsweredAsAsked
  <2> DEFINE users == job[r].answer.users
             pids  == parseGetUsersPIDs(job[r].pid, job[r].asked)
  <2>1. JobInv(job[r]) /\ users \in Seq(Players) /\ job[r].todo = <<>>
    BY DEF DataStoreInv, JobType, AnswerType, JobInv
  <2>2. Going(job[r])
    BY <2>1 DEF JobInv
  <2>3. /\ Len(users) = Len(pids) /\ pids \in Seq(PIDs) /\ job[r].answer.announced = Len(pids)
        /\ TemplateOf(job[r].method) # BareUser => \A i \in 1 .. Len(users) : users[i].pid = pids[i]
        /\ job[r].method = 48 /\ resultSuccessTpl # NoResult =>
             job[r].answer.results = [i \in 1 .. job[r].answer.announced |-> resultSuccessTpl]
    <3>1. Len(job[r].todo) = 0 /\ Len(users) \in Nat
      BY <2>1, LenProperties
    <3>2. job[r].method \in {48, 49} => TemplateFor[job[r].method] = TemplateOf(job[r].method)
      BY DEF TemplateFor
    <3> QED
      BY <2>2, <3>1, <3>2, LenProperties DEF Going
  <2>4. resultSuccessTpl # NoResult => resultSuccessTpl = Result
    BY DEF DataStoreInv, BuildType
  <2>5. TemplateOf(job[r].method) # BareUser => [i \in DOMAIN users |-> users[i].pid] = pids
    <3>1. DOMAIN users = 1 .. Len(users) /\ pids = [i \in 1 .. Len(pids) |-> pids[i]]
      BY <2>1, <2>3, LenProperties
    <3> HIDE DEF users, pids
    <3> QED
      BY <2>3, <3>1
  <2>6. pids = IF Len(job[r].asked) \in 1 .. MaxAsked THEN job[r].asked ELSE <<job[r].pid>>
    BY DEF parseGetUsersPIDs
  <2> QED
    BY <2>3, <2>4, <2>5, <2>6
<1> QED
  BY <1>1, DataStoreInvariant, PTL

\* Whoever was known when a request came is shown under a name, even if his
\* account is renamed or the service fails while the request runs.
THEOREM KnownIsNamed == DataStoreSpec => []OnceNamed
<1>1. DataStoreInv => OnceNamed
  <2> SUFFICES ASSUME DataStoreInv, NEW r \in Requests, NEW i \in DOMAIN job[r].answer.users
               PROVE  WellShown(job[r], job[r].answer.users[i])
    BY DEF OnceNamed, WellShown
  <2>1. JobInv(job[r]) /\ job[r].answer.users \in Seq(Players)
    BY DEF DataStoreInv, JobType, AnswerType
  <2>2. DOMAIN job[r].answer.users = 1 .. Len(job[r].answer.users)
    BY <2>1, LenProperties
  <2> QED
    BY <2>1, <2>2 DEF JobInv
<1> QED
  BY <1>1, DataStoreInvariant, PTL
=============================================================================
