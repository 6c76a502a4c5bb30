------------------------- MODULE NsaResolverProofs -------------------------
(***************************************************************************)
(* Theorems about NsaResolver, for any number of login goroutines,         *)
(* consoles and accounts and for any capacity of the two bounds.           *)
(***************************************************************************)
EXTENDS NsaResolver, FiniteSetTheorems, TLAPS

-----------------------------------------------------------------------------
(* Type correctness and the accounting of slots hold together: the counter *)
(* stays in range because Release takes one token of the caller's own.     *)

SlotInv ==
  /\ TypeOK
  /\ nsaInflight = Cardinality(Holders)

\* The words of a call's stage and the record NoCall are all different.
LEMMA CallFacts ==
  /\ NoCall \notin Call
  /\ NoEntry \notin nsaNegEntry
  /\ NoCall.stage = "idle"
  /\ \A k \in Call : k.stage \in Stages
BY DEF NoCall, Call, Stages, NoEntry, nsaNegEntry

\* Whoever stands at a stage of the resolver has a call.
LEMMA HasCall ==
  ASSUME TypeOK, NEW c \in Callers, ~At(c, "idle")
  PROVE  call[c] \in Call
BY CallFacts DEF TypeOK, At

LEMMA HoldersFinite == IsFiniteSet(Holders)
<1>1. Holders \in SUBSET Callers
  BY DEF Holders
<1> QED
  BY <1>1, ResolverAssumption, FS_Subset

LEMMA SlotInit == Init => SlotInv
<1> SUFFICES ASSUME Init PROVE SlotInv
  OBVIOUS
<1>1. Holders = {}
  BY DEF Init, Holders, NoCall
<1>2. TypeOK
  BY ResolverAssumption DEF Init, TypeOK
<1> QED
  BY <1>1, <1>2, FS_EmptySet DEF Init, SlotInv

\* A step of one call changes that call only.
LEMMA OneCallType ==
  ASSUME TypeOK, NEW c \in Callers, NEW k \in Call,
         call' = [call EXCEPT ![c] = k]
  PROVE  call' \in [Callers -> Call \union {NoCall}]
BY DEF TypeOK

\* A call that is not at a stage between acquire and return, and does not
\* come to one, leaves the holders as they are.
LEMMA HoldersKept ==
  ASSUME TypeOK, NEW c \in Callers, NEW k \in Call,
         call' = [call EXCEPT ![c] = k],
         k.stage \in {"ask", "record", "release"} <=> c \in Holders
  PROVE  Holders' = Holders
BY DEF TypeOK, Holders

LEMMA ResolveStep ==
  ASSUME SlotInv, NEW c \in Callers, NEW nsa \in NSAs, Resolve(c, nsa)
  PROVE  SlotInv'
<1> USE DEF SlotInv
<1> DEFINE k == [stage |-> "lookup", nsa |-> nsa, status |-> "nsaUnreachable",
                 pid |-> NoPID, sure |-> nsaCache[nsa] # NoPID]
<1>1. k \in Call
  BY DEF Call, Stages, nsaStatus, Failures
<1>2. call' = [call EXCEPT ![c] = k]
  BY DEF Resolve
<1>3. c \notin Holders
  BY DEF Resolve, At, Holders
<1>4. Holders' = Holders
  BY <1>1, <1>2, <1>3, HoldersKept
<1>5. call' \in [Callers -> Call \union {NoCall}]
  BY <1>1, <1>2, OneCallType
<1> QED
  BY <1>4, <1>5 DEF Resolve, TypeOK

LEMMA LookupStep ==
  ASSUME SlotInv, NEW c \in Callers, Lookup(c)
  PROVE  SlotInv'
<1> USE DEF SlotInv
<1>1. call[c] \in Call /\ c \notin Holders
  BY HasCall DEF Lookup, At, Holders
<1>2. PICK k \in Call :
        call' = [call EXCEPT ![c] = k] /\ k.stage \in {"acquire", "returned"}
  <2>1. CASE call' = Returned(c, "nsaOK", nsaCache[call[c].nsa])
    <3> DEFINE r == [call[c] EXCEPT !.stage = "returned", !.status = "nsaOK",
                                    !.pid = nsaCache[call[c].nsa]]
    <3>1. r \in Call /\ r.stage = "returned"
      BY <1>1 DEF Call, Stages, nsaStatus, TypeOK
    <3>2. call' = [call EXCEPT ![c] = r]
      BY <2>1, <1>1 DEF Returned, TypeOK
    <3> QED
      BY <3>1, <3>2
  <2>2. CASE /\ nsaNegCache[call[c].nsa] # NoEntry
             /\ call' = Returned(c, nsaNegCache[call[c].nsa].status, NoPID)
    <3> DEFINE r == [call[c] EXCEPT !.stage = "returned",
                       !.status = nsaNegCache[call[c].nsa].status, !.pid = NoPID]
    <3>1. nsaNegCache[call[c].nsa] \in nsaNegEntry
      BY <1>1, <2>2 DEF Call, TypeOK
    <3>2. r \in Call /\ r.stage = "returned"
      BY <1>1, <3>1 DEF Call, Stages, nsaStatus, nsaNegEntry
    <3>3. call' = [call EXCEPT ![c] = r]
      BY <2>2, <1>1 DEF Returned, TypeOK
    <3> QED
      BY <3>2, <3>3
  <2>3. CASE call' = [call EXCEPT ![c].stage = "acquire"]
    <3> DEFINE r == [call[c] EXCEPT !.stage = "acquire"]
    <3>1. r \in Call /\ r.stage = "acquire"
      BY <1>1 DEF Call, Stages
    <3>2. call' = [call EXCEPT ![c] = r]
      BY <2>3, <1>1 DEF TypeOK
    <3> QED
      BY <3>1, <3>2
  <2> QED
    BY <2>1, <2>2, <2>3 DEF Lookup
<1>3. Holders' = Holders
  BY <1>1, <1>2, HoldersKept
<1>4. call' \in [Callers -> Call \union {NoCall}]
  BY <1>2, OneCallType
<1> QED
  BY <1>3, <1>4 DEF Lookup, TypeOK

LEMMA AcquireStep ==
  ASSUME SlotInv, NEW c \in Callers, Acquire(c)
  PROVE  SlotInv'
<1> USE DEF SlotInv
<1>1. call[c] \in Call /\ c \notin Holders
  BY HasCall DEF Acquire, At, Holders
<1>2. CASE nsaInflight < nsaMaxInflight /\ nsaInflight' = nsaInflight + 1
           /\ call' = [call EXCEPT ![c].stage = "ask"]
  <2> DEFINE r == [call[c] EXCEPT !.stage = "ask"]
  <2>1. r \in Call
    BY <1>1 DEF Call, Stages
  <2>2. call' = [call EXCEPT ![c] = r]
    BY <1>1, <1>2 DEF TypeOK
  <2>3. Holders' = Holders \union {c}
    BY <1>1, <1>2 DEF Holders, TypeOK
  <2>4. Cardinality(Holders') = Cardinality(Holders) + 1
    BY <2>3, <1>1, HoldersFinite, FS_AddElement
  <2>5. nsaInflight' \in 0 .. nsaMaxInflight
    BY <1>2, ResolverAssumption DEF TypeOK
  <2>6. call' \in [Callers -> Call \union {NoCall}]
    BY <2>1, <2>2, OneCallType
  <2> QED
    BY <1>2, <2>4, <2>5, <2>6 DEF Acquire, TypeOK
<1>3. CASE call' = Returned(c, "nsaUnreachable", NoPID) /\ UNCHANGED nsaInflight
  <2> DEFINE r == [call[c] EXCEPT !.stage = "returned",
                     !.status = "nsaUnreachable", !.pid = NoPID]
  <2>1. r \in Call /\ r.stage = "returned"
    BY <1>1 DEF Call, Stages, nsaStatus, Failures
  <2>2. call' = [call EXCEPT ![c] = r]
    BY <1>1, <1>3 DEF Returned, TypeOK
  <2>3. Holders' = Holders
    BY <1>1, <2>1, <2>2, HoldersKept
  <2>4. call' \in [Callers -> Call \union {NoCall}]
    BY <2>1, <2>2, OneCallType
  <2> QED
    BY <1>3, <2>3, <2>4 DEF Acquire, TypeOK
<1> QED
  BY <1>2, <1>3 DEF Acquire

LEMMA AnswerStep ==
  ASSUME SlotInv, NEW c \in Callers, Answer(c)
  PROVE  SlotInv'
<1> USE DEF SlotInv
<1>1. call[c] \in Call /\ c \in Holders
  BY HasCall DEF Answer, At, Holders
<1>2. PICK status \in nsaStatus, pid \in PIDs \union {NoPID} :
        call' = [call EXCEPT ![c].stage = "record", ![c].status = status,
                             ![c].pid = pid]
  BY <1>1 DEF Answer, nsaStatus, Failures, Call, TypeOK
<1> DEFINE r == [call[c] EXCEPT !.stage = "record", !.status = status,
                                !.pid = pid]
<1>3. r \in Call /\ r.stage = "record"
  BY <1>1 DEF Call, Stages
<1>4. call' = [call EXCEPT ![c] = r]
  BY <1>1, <1>2 DEF TypeOK
<1>5. Holders' = Holders
  BY <1>1, <1>3, <1>4, HoldersKept
<1>6. call' \in [Callers -> Call \union {NoCall}]
  BY <1>3, <1>4, OneCallType
<1> QED
  BY <1>5, <1>6 DEF Answer, TypeOK

\* Recording an answer leaves two well-formed tables.
LEMMA RecordTables ==
  ASSUME TypeOK, NEW c \in Callers, Record(c)
  PROVE  /\ nsaCache' \in [NSAs -> PIDs \union {NoPID}]
         /\ nsaNegCache' \in [NSAs -> nsaNegEntry \union {NoEntry}]
<1>1. call[c] \in Call
  BY HasCall DEF Record, At
<1>2. CASE call[c].status = "nsaOK" /\ RememberSuccess(call[c].nsa, call[c].pid)
  BY <1>1, <1>2 DEF RememberSuccess, Call, TypeOK
<1>3. CASE /\ call[c].status # "nsaOK"
           /\ rememberNSAFailure(call[c].nsa, call[c].status)
  <2>1. [status |-> call[c].status, fresh |-> TRUE] \in nsaNegEntry
    BY <1>1, <1>3 DEF Call, nsaStatus, nsaNegEntry
  <2>2. [n \in NSAs |-> NoEntry] \in [NSAs -> nsaNegEntry \union {NoEntry}]
    OBVIOUS
  <2> QED
    BY <1>3, <2>1, <2>2 DEF rememberNSAFailure, TypeOK
<1> QED
  BY <1>2, <1>3 DEF Record

LEMMA RecordStep ==
  ASSUME SlotInv, NEW c \in Callers, Record(c)
  PROVE  SlotInv'
<1> USE DEF SlotInv
<1>1. call[c] \in Call /\ c \in Holders
  BY HasCall DEF Record, At, Holders
<1> DEFINE r == [call[c] EXCEPT !.stage = "release"]
<1>2. r \in Call /\ r.stage = "release"
  BY <1>1 DEF Call, Stages
<1>3. call' = [call EXCEPT ![c] = r]
  BY <1>1 DEF Record, TypeOK
<1>4. Holders' = Holders
  BY <1>1, <1>2, <1>3, HoldersKept
<1>5. call' \in [Callers -> Call \union {NoCall}]
  BY <1>2, <1>3, OneCallType
<1> QED
  BY <1>4, <1>5, RecordTables DEF Record, TypeOK

LEMMA ReleaseStep ==
  ASSUME SlotInv, NEW c \in Callers, Release(c)
  PROVE  SlotInv'
<1> USE DEF SlotInv
<1>1. call[c] \in Call /\ c \in Holders
  BY HasCall DEF Release, At, Holders
<1> DEFINE r == [call[c] EXCEPT !.stage = "returned"]
<1>2. r \in Call
  BY <1>1 DEF Call, Stages
<1>3. call' = [call EXCEPT ![c] = r]
  BY <1>1 DEF Release, TypeOK
<1>4. Holders' = Holders \ {c}
  BY <1>1 DEF Release, Holders, TypeOK
<1>5. Cardinality(Holders') = Cardinality(Holders) - 1
  BY <1>1, <1>4, HoldersFinite, FS_RemoveElement
<1>6. Cardinality(Holders) # 0
  BY <1>1, HoldersFinite, FS_EmptySet
<1>7. nsaInflight' \in 0 .. nsaMaxInflight
  BY <1>6, ResolverAssumption DEF Release, TypeOK
<1>8. call' \in [Callers -> Call \union {NoCall}]
  BY <1>2, <1>3, OneCallType
<1> QED
  BY <1>5, <1>7, <1>8 DEF Release, TypeOK

LEMMA LeaveStep ==
  ASSUME SlotInv, NEW c \in Callers, Leave(c)
  PROVE  SlotInv'
<1> USE DEF SlotInv
<1>1. Holders' = Holders
  BY DEF Leave, At, Holders, NoCall, TypeOK
<1>2. call' \in [Callers -> Call \union {NoCall}]
  BY DEF Leave, TypeOK
<1> QED
  BY <1>1, <1>2 DEF Leave, TypeOK

LEMMA WorldStep == SlotInv /\ World => SlotInv'
<1> SUFFICES ASSUME SlotInv, World PROVE SlotInv'
  OBVIOUS
<1> USE DEF SlotInv, TypeOK
<1>1. ASSUME NEW nsa \in NSAs, Expire(nsa) PROVE SlotInv'
  <2>1. nsaNegCache'[nsa] \in nsaNegEntry
    BY <1>1 DEF Expire, nsaNegEntry
  <2>2. nsaNegCache' \in [NSAs -> nsaNegEntry \union {NoEntry}]
    BY <1>1, <2>1 DEF Expire
  <2> QED
    BY <1>1, <2>2 DEF Expire, Holders
<1>2. ASSUME NEW nsa \in NSAs, Unlink(nsa) PROVE SlotInv'
  BY <1>2 DEF Unlink, Holders
<1>3. ASSUME NEW nsa \in NSAs, NEW pid \in PIDs, Link(nsa, pid) PROVE SlotInv'
  BY <1>3 DEF Link, Holders
<1> QED
  BY <1>1, <1>2, <1>3 DEF World

LEMMA SlotStep == SlotInv /\ [Next]_vars => SlotInv'
<1> SUFFICES ASSUME SlotInv, [Next]_vars PROVE SlotInv'
  OBVIOUS
<1>1. ASSUME NEW c \in Callers, Step(c) PROVE SlotInv'
  BY <1>1, LookupStep, AcquireStep, AnswerStep, RecordStep, ReleaseStep DEF Step
<1>2. ASSUME NEW c \in Callers, NEW nsa \in NSAs, Resolve(c, nsa) PROVE SlotInv'
  BY <1>2, ResolveStep
<1>3. ASSUME NEW c \in Callers, Leave(c) PROVE SlotInv'
  BY <1>3, LeaveStep
<1>4. CASE World
  BY <1>4, WorldStep
<1>5. CASE UNCHANGED vars
  BY <1>5 DEF vars, SlotInv, TypeOK, Holders
<1> QED
  BY <1>1, <1>2, <1>3, <1>4, <1>5 DEF Next

LEMMA SlotInvariant == Spec => []SlotInv
BY SlotInit, SlotStep, PTL DEF Spec

\* The resolver's state is always well formed, the token count of the
\* channel (gates.go:80) between 0 and its capacity included.
THEOREM TypeCorrect == Spec => []TypeOK
<1>1. SlotInv => TypeOK
  BY DEF SlotInv
<1> QED
  BY <1>1, SlotInvariant, PTL

\* No path of resolveNSAtoPID (gates.go:109-141) leaks a slot, and the account
\* service never has more than nsaMaxInflight requests of this server.
THEOREM SlotsNeverLeak == Spec => []SlotsAccounted
<1>1. SlotInv => SlotsAccounted
  BY DEF SlotInv, SlotsAccounted, TypeOK
<1> QED
  BY <1>1, SlotInvariant, PTL

-----------------------------------------------------------------------------
(* The table of failures is bounded.  An entry goes into a table that is   *)
(* empty or below the bound; nothing else adds one.  That the table is     *)
(* finite, even when there are infinitely many consoles, is part of the    *)
(* invariant.                                                              *)

NegInv == IsFiniteSet(Remembered) /\ NegCacheBounded

LEMMA NegInit == Init => NegInv
<1> SUFFICES ASSUME Init PROVE NegInv
  OBVIOUS
<1>1. Remembered = {}
  BY DEF Init, Remembered
<1> QED
  BY <1>1, FS_EmptySet, ResolverAssumption DEF NegInv, NegCacheBounded

\* A table that loses entries, or changes none for another, stays bounded.
LEMMA FewerRemembered ==
  ASSUME NegInv, Remembered' \subseteq Remembered
  PROVE  NegInv'
<1>1. IsFiniteSet(Remembered') /\ Cardinality(Remembered') <= Cardinality(Remembered)
  BY FS_Subset DEF NegInv
<1>2. Cardinality(Remembered') \in Nat /\ Cardinality(Remembered) \in Nat
  BY <1>1, FS_CardinalityType DEF NegInv
<1> QED
  BY <1>1, <1>2, ResolverAssumption DEF NegInv, NegCacheBounded

LEMMA FailureStep ==
  ASSUME TypeOK, NegInv, NEW nsa \in NSAs, NEW status \in Failures,
         rememberNSAFailure(nsa, status)
  PROVE  NegInv'
<1> USE ResolverAssumption
<1>1. CASE Cardinality(Remembered) >= nsaNegCacheMax
  <2>1. Remembered' \subseteq {nsa}
    BY <1>1 DEF rememberNSAFailure, Remembered
  <2>2. IsFiniteSet({nsa}) /\ Cardinality({nsa}) = 1
    BY FS_Singleton
  <2>3. IsFiniteSet(Remembered') /\ Cardinality(Remembered') <= 1
    BY <2>1, <2>2, FS_Subset
  <2>4. Cardinality(Remembered') \in Nat
    BY <2>3, FS_CardinalityType
  <2> QED
    BY <2>3, <2>4 DEF NegInv, NegCacheBounded
<1>2. CASE ~(Cardinality(Remembered) >= nsaNegCacheMax)
  <2>1. Remembered' \subseteq Remembered \union {nsa}
    BY <1>2 DEF rememberNSAFailure, Remembered, TypeOK
  <2>2. /\ IsFiniteSet(Remembered \union {nsa})
        /\ \/ Cardinality(Remembered \union {nsa}) = Cardinality(Remembered)
           \/ Cardinality(Remembered \union {nsa}) = Cardinality(Remembered) + 1
    BY FS_AddElement DEF NegInv
  <2>3. Cardinality(Remembered) \in Nat
    BY FS_CardinalityType DEF NegInv
  <2>4. /\ IsFiniteSet(Remembered')
        /\ Cardinality(Remembered') <= Cardinality(Remembered \union {nsa})
    BY <2>1, <2>2, FS_Subset
  <2>5. Cardinality(Remembered') \in Nat
    BY <2>4, FS_CardinalityType
  <2> QED
    BY <1>2, <2>2, <2>3, <2>4, <2>5 DEF NegInv, NegCacheBounded
<1> QED
  BY <1>1, <1>2

LEMMA NegStep == TypeOK /\ NegInv /\ [Next]_vars => NegInv'
<1> SUFFICES ASSUME TypeOK, NegInv, [Next]_vars PROVE NegInv'
  OBVIOUS
<1>1. CASE UNCHANGED nsaNegCache
  BY <1>1, FewerRemembered DEF Remembered
<1>2. ASSUME NEW c \in Callers, Record(c) PROVE NegInv'
  <2>1. call[c] \in Call
    BY <1>2, HasCall DEF Record, At
  <2>2. CASE RememberSuccess(call[c].nsa, call[c].pid)
    <3>1. Remembered' \subseteq Remembered
      BY <2>2 DEF RememberSuccess, Remembered, TypeOK
    <3> QED
      BY <3>1, FewerRemembered
  <2>3. CASE /\ call[c].status # "nsaOK"
             /\ rememberNSAFailure(call[c].nsa, call[c].status)
    <3>1. call[c].status \in Failures /\ call[c].nsa \in NSAs
      BY <2>1, <2>3 DEF Call, nsaStatus
    <3> QED
      BY <2>3, <3>1, FailureStep
  <2> QED
    BY <1>2, <2>2, <2>3 DEF Record
<1>3. ASSUME NEW nsa \in NSAs, Expire(nsa) PROVE NegInv'
  <2>1. Remembered' \subseteq Remembered
    BY <1>3 DEF Expire, Remembered, TypeOK
  <2> QED
    BY <2>1, FewerRemembered
<1> QED
  BY <1>1, <1>2, <1>3 DEF Next, Step, World, Resolve, Lookup, Acquire, Answer,
     Release, Leave, Link, Unlink, vars

\* The table of failures never exceeds nsaNegCacheMax entries (gates.go:144),
\* however many consoles there are and however calls overlap.
THEOREM FailuresBounded == Spec => []NegCacheBounded
<1>1. NegInv => NegCacheBounded
  BY DEF NegInv
<1> QED
  BY <1>1, TypeCorrect, NegInit, NegStep, PTL DEF Spec

-----------------------------------------------------------------------------
(* The resolver is fail-closed: the PIDs in the cache and those of calls   *)
(* that have been answered come from the account service.                  *)

\* A success that is on its way through call k.
Succeeding(k) ==
  k.stage \in {"record", "release", "returned"} /\ k.status = "nsaOK"

LinkInv ==
  /\ \A nsa \in NSAs :
       link[nsa] # NoPID => <<nsa, link[nsa]>> \in everLinked
  /\ \A nsa \in NSAs :
       nsaCache[nsa] # NoPID => <<nsa, nsaCache[nsa]>> \in everLinked
  /\ \A c \in Callers :
       Succeeding(call[c]) => <<call[c].nsa, call[c].pid>> \in everLinked

LEMMA LinkInit == Init => LinkInv
BY DEF Init, LinkInv, Succeeding, NoCall

LEMMA LinkStep == TypeOK /\ LinkInv /\ [Next]_vars => LinkInv'
<1> SUFFICES ASSUME TypeOK, LinkInv, [Next]_vars PROVE LinkInv'
  OBVIOUS
<1> USE DEF LinkInv, Succeeding, TypeOK
<1>1. ASSUME NEW c \in Callers, NEW nsa \in NSAs, Resolve(c, nsa) PROVE LinkInv'
  BY <1>1 DEF Resolve
<1>2. ASSUME NEW c \in Callers, Lookup(c) PROVE LinkInv'
  <2>1. call[c] \in Call
    BY <1>2, HasCall DEF Lookup, At
  <2>2. CASE /\ nsaNegCache[call[c].nsa] # NoEntry
             /\ call' = Returned(c, nsaNegCache[call[c].nsa].status, NoPID)
    <3>1. nsaNegCache[call[c].nsa].status # "nsaOK"
      BY <2>1, <2>2 DEF Call, nsaNegEntry, Failures
    <3> QED
      BY <1>2, <2>1, <2>2, <3>1 DEF Lookup, Returned, Call
  <2>3. CASE /\ nsaCache[call[c].nsa] # NoPID
             /\ call' = Returned(c, "nsaOK", nsaCache[call[c].nsa])
    BY <1>2, <2>1, <2>3 DEF Lookup, Returned, Call
  <2>4. CASE call' = [call EXCEPT ![c].stage = "acquire"]
    BY <1>2, <2>1, <2>4 DEF Lookup, Call
  <2> QED
    BY <1>2, <2>2, <2>3, <2>4 DEF Lookup
<1>3. ASSUME NEW c \in Callers, Acquire(c) PROVE LinkInv'
  BY <1>3, HasCall DEF Acquire, Returned, Call, At
<1>4. ASSUME NEW c \in Callers, Answer(c) PROVE LinkInv'
  BY <1>4, HasCall DEF Answer, Call, At
<1>5. ASSUME NEW c \in Callers, Record(c) PROVE LinkInv'
  <2>1. call[c] \in Call /\ At(c, "record")
    BY <1>5, HasCall DEF Record, At
  <2>2. \A nsa \in NSAs :
          nsaCache'[nsa] # NoPID => <<nsa, nsaCache'[nsa]>> \in everLinked
    BY <1>5, <2>1 DEF Record, RememberSuccess, rememberNSAFailure, Call, At
  <2> QED
    BY <1>5, <2>1, <2>2 DEF Record, At
<1>6. ASSUME NEW c \in Callers, Release(c) PROVE LinkInv'
  BY <1>6, HasCall DEF Release, At
<1>7. ASSUME NEW c \in Callers, Leave(c) PROVE LinkInv'
  BY <1>7 DEF Leave, NoCall
<1>8. CASE World
  BY <1>8 DEF World, Expire, Unlink, Link
<1>9. CASE UNCHANGED vars
  BY <1>9 DEF vars
<1> QED
  BY <1>1, <1>2, <1>3, <1>4, <1>5, <1>6, <1>7, <1>8, <1>9 DEF Next, Step

\* A PID is cached or returned for a console only if the account service did
\* link the console to that account (gates.go:6).
THEOREM FailClosed == Spec => []OnlyLinked
<1>1. LinkInv => OnlyLinked
  BY DEF LinkInv, OnlyLinked, Succeeding, At
<1> QED
  BY <1>1, TypeCorrect, LinkInit, LinkStep, PTL DEF Spec

-----------------------------------------------------------------------------
(* A call that begins when its console is resolved finds it in the cache:  *)
(* nothing is ever taken out of nsaCache, and it is consulted first.       *)

SureInv ==
  \A c \in Callers :
    ~At(c, "idle") /\ call[c].sure =>
      /\ nsaCache[call[c].nsa] # NoPID
      /\ \/ At(c, "lookup")
         \/ At(c, "returned") /\ call[c].status = "nsaOK"

LEMMA SureInit == Init => SureInv
BY DEF Init, SureInv, At, NoCall

LEMMA SureStep == TypeOK /\ LinkInv /\ SureInv /\ [Next]_vars => SureInv'
<1> SUFFICES ASSUME TypeOK, LinkInv, SureInv, [Next]_vars PROVE SureInv'
  OBVIOUS
<1> USE DEF SureInv, At, TypeOK
<1>1. ASSUME NEW c \in Callers, NEW nsa \in NSAs, Resolve(c, nsa) PROVE SureInv'
  BY <1>1 DEF Resolve
<1>2. ASSUME NEW c \in Callers, Lookup(c) PROVE SureInv'
  BY <1>2, HasCall DEF Lookup, Returned, Call
<1>3. ASSUME NEW c \in Callers, Acquire(c) PROVE SureInv'
  BY <1>3, HasCall DEF Acquire, Returned, Call
<1>4. ASSUME NEW c \in Callers, Answer(c) PROVE SureInv'
  BY <1>4, HasCall DEF Answer, Call
<1>5. ASSUME NEW c \in Callers, Record(c) PROVE SureInv'
  <2>1. call[c] \in Call
    BY <1>5, HasCall DEF Record
  <2>2. call[c].status = "nsaOK" => call[c].pid # NoPID
    BY <1>5, ResolverAssumption DEF Record, LinkInv, Succeeding
  <2>3. \A nsa \in NSAs : nsaCache[nsa] # NoPID => nsaCache'[nsa] # NoPID
    BY <1>5, <2>1, <2>2 DEF Record, RememberSuccess, rememberNSAFailure, Call
  <2>4. call' = [call EXCEPT ![c].stage = "release"] /\ ~call[c].sure
    BY <1>5 DEF Record
  <2> QED
    BY <2>1, <2>3, <2>4, CallFacts DEF Call
<1>6. ASSUME NEW c \in Callers, Release(c) PROVE SureInv'
  BY <1>6, HasCall DEF Release
<1>7. ASSUME NEW c \in Callers, Leave(c) PROVE SureInv'
  BY <1>7 DEF Leave, NoCall
<1>8. CASE World
  BY <1>8 DEF World, Expire, Unlink, Link
<1>9. CASE UNCHANGED vars
  BY <1>9 DEF vars
<1> QED
  BY <1>1, <1>2, <1>3, <1>4, <1>5, <1>6, <1>7, <1>8, <1>9 DEF Next, Step

\* A failure that an older request records late locks no resolved console
\* out (gates.go:98-101): a call begun once the console is cached succeeds.
THEOREM NeverForgotten == Spec => []OnceResolved
<1>1. SureInv => OnceResolved
  BY DEF SureInv, OnceResolved, At
<1> QED
  BY <1>1, TypeCorrect, LinkInit, LinkStep, SureInit, SureStep, PTL DEF Spec
=============================================================================
