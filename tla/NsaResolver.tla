---------------------------- MODULE NsaResolver ----------------------------
(***************************************************************************)
(* resolveNSAtoPID in gates.go: the goroutine of a login asks the shared   *)
(* account service which account owns a console's NSA id.  A positive      *)
(* answer is cached for good, a failure for nsaNegTTL in a bounded table,  *)
(* and at most nsaMaxInflight requests are outstanding at a time.          *)
(*                                                                         *)
(* A section under nsaCacheMu is one step, and so is the attempt to put a  *)
(* token into the channel nsaInflight.  Between the lookup, the request    *)
(* and the recording of its answer other goroutines run, and the account   *)
(* service links and unlinks consoles.                                     *)
(***************************************************************************)
EXTENDS Naturals, FiniteSets

CONSTANTS
  Callers,         \* login goroutines that may run at the same time
  NSAs,            \* NSA ids of consoles
  PIDs,            \* PIDs of accounts
  nsaMaxInflight,  \* capacity of the channel nsaInflight; 16 in the code
  nsaNegCacheMax   \* when the table of failures is emptied; 4096 in the code

\* Accounts have no PID 0: the code takes it for a malformed answer.
NoPID == 0

ASSUME ResolverAssumption ==
  /\ IsFiniteSet(Callers)
  /\ nsaMaxInflight \in Nat \ {0}
  /\ nsaNegCacheMax \in Nat \ {0}
  /\ NoPID \notin PIDs

Failures  == {"nsaUnknown", "nsaUnreachable"}
nsaStatus == {"nsaOK"} \union Failures

\* An entry of nsaNegCache; it is fresh until it is nsaNegTTL old.
nsaNegEntry == [status : Failures, fresh : BOOLEAN]
NoEntry     == [absent |-> TRUE]

VARIABLES
  nsaCache,     \* nsaCache[nsa] is the PID cached for nsa, or NoPID
  nsaNegCache,  \* nsaNegCache[nsa] is the last failure kept for nsa, or NoEntry
  nsaInflight,  \* number of tokens in the channel
  call,         \* call[c]: the call of resolveNSAtoPID that c runs
  link,         \* account service: link[nsa] is the owner of nsa, or NoPID
  everLinked    \* history: the pairs <<nsa, pid>> that were ever linked

vars == <<nsaCache, nsaNegCache, nsaInflight, call, link, everLinked>>

Stages == {"lookup", "acquire", "ask", "record", "release", "returned"}

\* status and pid are what the call will return, or has returned.  sure is
\* history: the NSA id was resolved already when the call began.
Call   == [stage : Stages, nsa : NSAs, status : nsaStatus,
           pid : PIDs \union {NoPID}, sure : BOOLEAN]
NoCall == [stage |-> "idle"]

Init ==
  /\ nsaCache = [nsa \in NSAs |-> NoPID]
  /\ nsaNegCache = [nsa \in NSAs |-> NoEntry]
  /\ nsaInflight = 0
  /\ call = [c \in Callers |-> NoCall]
  /\ link = [nsa \in NSAs |-> NoPID]
  /\ everLinked = {}

At(c, stage) == call[c].stage = stage

\* The NSA ids that nsaNegCache holds an entry for.
Remembered == {nsa \in NSAs : nsaNegCache[nsa] # NoEntry}

-----------------------------------------------------------------------------
Resolve(c, nsa) ==
  /\ At(c, "idle")
  /\ call' = [call EXCEPT ![c] =
                [stage |-> "lookup", nsa |-> nsa, status |-> "nsaUnreachable",
                 pid |-> NoPID, sure |-> nsaCache[nsa] # NoPID]]
  /\ UNCHANGED <<nsaCache, nsaNegCache, nsaInflight, link, everLinked>>

Returned(c, status, pid) ==
  [call EXCEPT ![c].stage = "returned", ![c].status = status, ![c].pid = pid]

\* Mutant: the remembered failure is consulted before the cached success.
LookupFailureFirst(c) ==
  LET pid == nsaCache[call[c].nsa]
      neg == nsaNegCache[call[c].nsa]
      failedLately == neg # NoEntry /\ neg.fresh
  IN /\ At(c, "lookup")
     /\ \/ /\ failedLately
           /\ call' = Returned(c, neg.status, NoPID)
        \/ /\ pid # NoPID /\ ~failedLately
           /\ call' = Returned(c, "nsaOK", pid)
        \/ /\ pid = NoPID /\ ~failedLately
           /\ call' = [call EXCEPT ![c].stage = "acquire"]
     /\ UNCHANGED <<nsaCache, nsaNegCache, nsaInflight, link, everLinked>>

\* Both tables are consulted in one section under the mutex.
Lookup(c) ==
  LET pid == nsaCache[call[c].nsa]
      neg == nsaNegCache[call[c].nsa]
      failedLately == neg # NoEntry /\ neg.fresh
  IN /\ At(c, "lookup")
     /\ \/ /\ pid # NoPID
           /\ call' = Returned(c, "nsaOK", pid)
        \/ /\ pid = NoPID /\ failedLately
           /\ call' = Returned(c, neg.status, NoPID)
        \/ /\ pid = NoPID /\ ~failedLately
           /\ call' = [call EXCEPT ![c].stage = "acquire"]
     /\ UNCHANGED <<nsaCache, nsaNegCache, nsaInflight, link, everLinked>>

\* Mutant: requests are counted but not limited.
AcquireUnlimited(c) ==
  /\ At(c, "acquire")
  /\ nsaInflight' = nsaInflight + 1
  /\ call' = [call EXCEPT ![c].stage = "ask"]
  /\ UNCHANGED <<nsaCache, nsaNegCache, link, everLinked>>

\* Mutant: the select has no default, so a full channel blocks the call.
AcquireBlocking(c) ==
  /\ At(c, "acquire")
  /\ nsaInflight < nsaMaxInflight
  /\ nsaInflight' = nsaInflight + 1
  /\ call' = [call EXCEPT ![c].stage = "ask"]
  /\ UNCHANGED <<nsaCache, nsaNegCache, link, everLinked>>

\* The select with a default: take a slot, or fail at once.
Acquire(c) ==
  /\ At(c, "acquire")
  /\ \/ /\ nsaInflight < nsaMaxInflight
        /\ nsaInflight' = nsaInflight + 1
        /\ call' = [call EXCEPT ![c].stage = "ask"]
     \/ /\ nsaInflight = nsaMaxInflight
        /\ call' = Returned(c, "nsaUnreachable", NoPID)
        /\ UNCHANGED nsaInflight
  /\ UNCHANGED <<nsaCache, nsaNegCache, link, everLinked>>

\* Mutant: any answer that can be read passes for a PID.
AnswerUnchecked(c) ==
  /\ At(c, "ask")
  /\ \/ call' = [call EXCEPT ![c].stage = "record", ![c].status = "nsaOK",
                              ![c].pid = link[call[c].nsa]]
     \/ call' = [call EXCEPT ![c].stage = "record"]
  /\ UNCHANGED <<nsaCache, nsaNegCache, nsaInflight, link, everLinked>>

\* The service answers the request, or the request fails: no connection, a
\* timeout (3 s), a status other than 200 and 404, or an unreadable answer.
Answer(c) ==
  LET pid == link[call[c].nsa]
      Answered(status, answer) ==
        call' = [call EXCEPT ![c].stage = "record", ![c].status = status,
                             ![c].pid = answer]
  IN /\ At(c, "ask")
     /\ \/ pid # NoPID /\ Answered("nsaOK", pid)
        \/ pid = NoPID /\ Answered("nsaUnknown", NoPID)
        \/ Answered("nsaUnreachable", NoPID)
     /\ UNCHANGED <<nsaCache, nsaNegCache, nsaInflight, link, everLinked>>

RememberSuccess(nsa, pid) ==
  /\ nsaCache' = [nsaCache EXCEPT ![nsa] = pid]
  /\ nsaNegCache' = [nsaNegCache EXCEPT ![nsa] = NoEntry]

\* Mutant: the table is emptied one entry too late.
rememberNSAFailureLate(nsa, status) ==
  LET kept == IF Cardinality(Remembered) > nsaNegCacheMax
              THEN [n \in NSAs |-> NoEntry]
              ELSE nsaNegCache
  IN /\ nsaNegCache' = [kept EXCEPT ![nsa] = [status |-> status, fresh |-> TRUE]]
     /\ UNCHANGED nsaCache

\* A full table is emptied before the entry goes in.
rememberNSAFailure(nsa, status) ==
  LET kept == IF Cardinality(Remembered) >= nsaNegCacheMax
              THEN [n \in NSAs |-> NoEntry]
              ELSE nsaNegCache
  IN /\ nsaNegCache' = [kept EXCEPT ![nsa] = [status |-> status, fresh |-> TRUE]]
     /\ UNCHANGED nsaCache

\* Mutant: a call that failed returns without giving back its slot.
RecordLeaking(c) ==
  /\ At(c, "record")
  /\ \/ /\ call[c].status = "nsaOK"
        /\ RememberSuccess(call[c].nsa, call[c].pid)
        /\ call' = [call EXCEPT ![c].stage = "release"]
     \/ /\ call[c].status # "nsaOK"
        /\ rememberNSAFailure(call[c].nsa, call[c].status)
        /\ call' = [call EXCEPT ![c].stage = "returned"]
  /\ UNCHANGED <<nsaInflight, link, everLinked>>

Record(c) ==
  /\ At(c, "record")
  /\ \/ /\ call[c].status = "nsaOK"
        /\ RememberSuccess(call[c].nsa, call[c].pid)
     \/ /\ call[c].status # "nsaOK"
        /\ rememberNSAFailure(call[c].nsa, call[c].status)
  /\ call' = [call EXCEPT ![c].stage = "release"]
  /\ UNCHANGED <<nsaInflight, link, everLinked>>

\* The deferred receive from the channel, on every way out of the request.
Release(c) ==
  /\ At(c, "release")
  /\ nsaInflight' = nsaInflight - 1
  /\ call' = [call EXCEPT ![c].stage = "returned"]
  /\ UNCHANGED <<nsaCache, nsaNegCache, link, everLinked>>

\* The caller has used the result.
Leave(c) ==
  /\ At(c, "returned")
  /\ call' = [call EXCEPT ![c] = NoCall]
  /\ UNCHANGED <<nsaCache, nsaNegCache, nsaInflight, link, everLinked>>

-----------------------------------------------------------------------------
(* Time, and the account service.                                          *)

\* nsaNegTTL passes after a failure was recorded.
Expire(nsa) ==
  /\ nsaNegCache[nsa] # NoEntry
  /\ nsaNegCache[nsa].fresh
  /\ nsaNegCache' = [nsaNegCache EXCEPT ![nsa].fresh = FALSE]
  /\ UNCHANGED <<nsaCache, nsaInflight, call, link, everLinked>>

Link(nsa, pid) ==
  /\ link' = [link EXCEPT ![nsa] = pid]
  /\ everLinked' = everLinked \union {<<nsa, pid>>}
  /\ UNCHANGED <<nsaCache, nsaNegCache, nsaInflight, call>>

Unlink(nsa) ==
  /\ link[nsa] # NoPID
  /\ link' = [link EXCEPT ![nsa] = NoPID]
  /\ UNCHANGED <<nsaCache, nsaNegCache, nsaInflight, call, everLinked>>

-----------------------------------------------------------------------------
\* One step of the call that c runs.
Step(c) ==
  \/ Lookup(c)
  \/ Acquire(c)
  \/ Answer(c)
  \/ Record(c)
  \/ Release(c)

World ==
  \/ \E nsa \in NSAs : Expire(nsa) \/ Unlink(nsa)
  \/ \E nsa \in NSAs, pid \in PIDs : Link(nsa, pid)

Next ==
  \/ \E c \in Callers : Step(c) \/ Leave(c) \/ \E nsa \in NSAs : Resolve(c, nsa)
  \/ World

Spec == Init /\ [][Next]_vars

\* A goroutine that can run does run: it waits for no other one, and the
\* timeout of gateClient ends a request the service does not answer.
FairSpec == Spec /\ \A c \in Callers : WF_vars(Step(c))

-----------------------------------------------------------------------------
\* The calls that hold a slot of the channel.
Holders == {c \in Callers : call[c].stage \in {"ask", "record", "release"}}

\* The caches map consoles to accounts and to failures, calls are well formed, and
\* the channel holds no more than its capacity (gates.go:59-91).
TypeOK ==
  /\ nsaCache \in [NSAs -> PIDs \union {NoPID}]
  /\ nsaNegCache \in [NSAs -> nsaNegEntry \union {NoEntry}]
  /\ nsaInflight \in 0 .. nsaMaxInflight
  /\ call \in [Callers -> Call \union {NoCall}]
  /\ link \in [NSAs -> PIDs \union {NoPID}]
  /\ everLinked \subseteq NSAs \X PIDs

\* The channel holds one token for each call that is between its acquire and
\* its return, on every path through resolveNSAtoPID (gates.go:109-141): no
\* path leaks a slot or gives back one it did not take, so the shared service
\* never has more than nsaMaxInflight requests of this server.
SlotsAccounted ==
  /\ nsaInflight = Cardinality(Holders)
  /\ Cardinality(Holders) <= nsaMaxInflight

\* "La table est bornee" (gates.go:144): whatever the order in which calls
\* record failures and successes, it never exceeds nsaNegCacheMax entries.
NegCacheBounded == Cardinality(Remembered) <= nsaNegCacheMax

\* Fail-closed (gates.go:6): a PID is returned, or cached, for a console only
\* if the account service did link the console to that account.
OnlyLinked ==
  /\ \A nsa \in NSAs :
       nsaCache[nsa] # NoPID => <<nsa, nsaCache[nsa]>> \in everLinked
  /\ \A c \in Callers :
       At(c, "returned") /\ call[c].status = "nsaOK" =>
         <<call[c].nsa, call[c].pid>> \in everLinked

\* A call that begins when the console is resolved succeeds: a failure that
\* an older request records late does not lock a resolved console out.
OnceResolved ==
  \A c \in Callers :
    At(c, "returned") /\ call[c].sure => call[c].status = "nsaOK"

\* Every call returns: no full channel, no service that stays silent and no
\* other call leaves the login behind it without a verdict
\* (gates.go:108-124).
CallAnswered ==
  \A c \in Callers : call[c] # NoCall /\ ~At(c, "returned") ~> At(c, "returned")
=============================================================================
