---------------------------- MODULE UserProfiles ----------------------------
(***************************************************************************)
(* The profiles of players (smm2_profile.go): how the name of a PID is     *)
(* looked up and cached, how the measured answer of get_users is carved    *)
(* into templates, and how a profile is made of one.                       *)
(*                                                                         *)
(* A lookup reads the cache under its lock, asks the account service       *)
(* without it and takes it again to store the answer, so that lookups of   *)
(* several requests overlap.                                               *)
(***************************************************************************)
EXTENDS Naturals, Sequences, SequencesExt, FiniteSets

CONSTANTS
  Requests,    \* goroutines that serve RMC requests
  PIDs,        \* PIDs of accounts, and of none
  MaxAsked,    \* how many PIDs get_users takes; 256 in the code
  MaxRenames   \* bound: renamings by the account service

ASSUME ProfileAssumption ==
  /\ MaxAsked \in Nat \ {0} /\ MaxRenames \in Nat
  /\ PIDs \intersect {"Nextendo", "measured", "bare", "cut", "none"} = {}   \* numbers

VARIABLES
  pseudoCache,       \* pseudoCache[pid]: a name
  capturedResponses, \* the measured bodies by their keys (replayKey): of each the
                     \* players it shows
  userInfoTemplate,  \* one UserInfo of the measured answer of get_users
  resultSuccessTpl,  \* one result of it
  job,               \* job[r]: request r
  name,              \* external: name[pid]: the version of the account's name, or
                     \* 0 while the account service knows none
  renames            \* number of renamings

DataStoreProtocol == 115   \* 0x73
Utility           == 110   \* 0x6E

\* A name is known by its account and the number of renamings before it, so
\* that no two are alike.
NoName        == <<>>                     \* ""
Name(pid, v)  == IF v = 0 THEN NoName ELSE <<pid, v>>
Fallback(pid) == <<"Nextendo", pid>>      \* of the PID's last six digits

pseudoOr(pid, found) == IF found = NoName THEN Fallback(pid) ELSE found

-----------------------------------------------------------------------------
(* What a UserInfo or a profile shows of a player.  Its header alone, less  *)
(* than 6 bytes, shows nobody; one that the measured body breaks off shows *)
(* what is left of it.  A profile has no code.                             *)

NoCode == <<>>
Player(pid, code, pseudo) == [pid |-> pid, code |-> code, name |-> pseudo]

MeasuredUser    == Player("measured", <<"measured">>, <<"measured">>)
MeasuredProfile == Player("measured", NoCode, <<"measured">>)
BareUser        == Player("bare", NoCode, NoName)
CutUser         == Player("cut", NoCode, NoName)

NoTemplate == Player("none", NoCode, NoName)
NoResult   == [result |-> "none"]
Result     == [result |-> "success"]

-----------------------------------------------------------------------------
(* Templates.  The measured answer of get_users is a list of users and one *)
(* of results, both after their lengths; it may be cut anywhere.  For the  *)
(* carving, cut inside of an element is as good as cut before it.          *)

GetUsersBlob(users) ==
  <<Len(users)>> \o users \o <<Len(users)>> \o [i \in DOMAIN users |-> Result]

\* The first n elements of it, and if begun a part of the next.
CutOff(blob, n, begun) == [whole |-> SubSeq(blob, 1, n), begun |-> begun]

\* How many of the users announced are there.
WholeUsers(blob) ==
  IF blob = <<>> THEN 0
  ELSE Cardinality({i \in 1 .. blob[1] : 1 + i <= Len(blob)})

\* Mutant: the loop stops at the user it has taken.
ResultAtFirst(blob) == 1 + 1 + 1

\* The result template is found behind the users and the length of the second
\* list, if the blob reaches that far.
ResultAt(blob) == 1 + WholeUsers(blob) + 2

\* Mutant: the user is kept only once the result is found.
carveUserTemplatesLate(blob) ==
  LET there == /\ blob # <<>> /\ WholeUsers(blob) = blob[1]
               /\ ResultAt(blob) <= Len(blob)
  IN [user   |-> IF there /\ WholeUsers(blob) >= 1 THEN blob[2] ELSE NoTemplate,
      result |-> IF there THEN blob[ResultAt(blob)] ELSE NoResult]

carveUserTemplates(blob) ==
  [user   |-> IF WholeUsers(blob) >= 1 THEN blob[2] ELSE NoTemplate,
   result |-> IF /\ blob # <<>> /\ WholeUsers(blob) = blob[1]
                 /\ ResultAt(blob) <= Len(blob)
              THEN blob[ResultAt(blob)] ELSE NoResult]

\* The users that a cut answer shows.
PlayersIn(cut) ==
  LET n == WholeUsers(cut.whole)
  IN SubSeq(cut.whole, 2, 1 + n) \o
     IF cut.whole # <<>> /\ n < cut.whole[1] /\ cut.begun THEN <<CutUser>> ELSE <<>>

\* It depends on the PID alone.
makerCode(pid) == <<"code", pid>>

\* A template that is too short stays as it is.
patchUserInfo(tmpl, pid, pseudo) ==
  IF tmpl = BareUser THEN tmpl
  ELSE [tmpl EXCEPT !.pid = pid, !.code = makerCode(pid), !.name = pseudo]

patchSyncProfile(tmpl, pid, pseudo) ==
  IF tmpl = BareUser THEN tmpl ELSE [tmpl EXCEPT !.pid = pid, !.name = pseudo]

TemplateOf(method) ==
  IF method = 48 THEN userInfoTemplate ELSE capturedResponses[<<DataStoreProtocol, 49>>][1]

Patched(method, pid, pseudo) ==
  IF method = 48 THEN patchUserInfo(TemplateOf(method), pid, pseudo)
                 ELSE patchSyncProfile(TemplateOf(method), pid, pseudo)

\* Mutant: nobody is asked for if the list is empty.
parseGetUsersPIDsAny(pid, asked) ==
  IF Len(asked) <= MaxAsked THEN asked ELSE <<pid>>

\* An empty or implausible list stands for the caller himself.
parseGetUsersPIDs(pid, asked) ==
  IF Len(asked) \in 1 .. MaxAsked THEN asked ELSE <<pid>>

-----------------------------------------------------------------------------
(* Requests.                                                               *)

NoAnswer == [kind |-> "none", proto |-> 0, form |-> <<>>,
             users |-> <<>>, announced |-> 0, results |-> <<>>]

NoJob == [step |-> "idle", method |-> 0, pid |-> 0, asked |-> <<>>, todo |-> <<>>,
          found |-> NoName, sure |-> {}, answer |-> NoAnswer]

ProfileInit ==
  /\ pseudoCache = <<>>
  /\ job = [r \in Requests |-> NoJob]
  /\ name \in [PIDs -> {0, 1}]
  /\ renames = 0

\* The profile of the next PID is written; behind the last one of get_users
\* come the results.
Write(r, found) ==
  LET j    == job[r]
      pid  == Head(j.todo)
      rest == Tail(j.todo)
      answer ==
        [j.answer EXCEPT
          !.users = Append(@, Patched(j.method, pid, pseudoOr(pid, found))),
          !.results = IF rest = <<>> /\ j.method = 48 /\ resultSuccessTpl # NoResult
                      THEN [i \in 1 .. j.answer.announced |-> resultSuccessTpl] ELSE @]
  IN job' = [job EXCEPT ![r] =
       [j EXCEPT !.todo = rest, !.found = NoName, !.answer = answer,
                 !.step = IF rest = <<>> THEN "answered" ELSE "lookup"]]

\* resolvePseudo for the next PID, up to the request.
Lookup(r) ==
  LET pid == Head(job[r].todo)
  IN /\ job[r].step = "lookup"
     /\ IF pid \in DOMAIN pseudoCache
        THEN Write(r, pseudoCache[pid])
        ELSE job' = [job EXCEPT ![r].step = "ask"]
     /\ UNCHANGED pseudoCache

\* GET /api/names: the name, or no usable answer.
Answer(r) ==
  /\ job[r].step = "ask"
  /\ \E found \in {NoName, Name(Head(job[r].todo), name[Head(job[r].todo)])} :
       job' = [job EXCEPT ![r].step = "store", ![r].found = found]
  /\ UNCHANGED pseudoCache

CachedAs(pid, found) ==
  pseudoCache' = [p \in DOMAIN pseudoCache \union {pid} |->
                    IF p = pid THEN found ELSE pseudoCache[p]]

\* Mutant: a lookup that found nothing is remembered as well.
StoreAlways(r) ==
  /\ job[r].step = "store"
  /\ CachedAs(Head(job[r].todo), job[r].found)
  /\ Write(r, job[r].found)

Store(r) ==
  /\ job[r].step = "store"
  /\ IF job[r].found = NoName THEN UNCHANGED pseudoCache
                              ELSE CachedAs(Head(job[r].todo), job[r].found)
  /\ Write(r, job[r].found)

\* External: an account is made, or its name changed.
Rename(pid) ==
  /\ renames < MaxRenames
  /\ renames' = renames + 1
  /\ name' = [name EXCEPT ![pid] = @ + 1]
  /\ UNCHANGED <<pseudoCache, job>>
=============================================================================
