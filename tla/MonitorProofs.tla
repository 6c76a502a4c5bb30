---------------------------- MODULE MonitorProofs ----------------------------
(***************************************************************************)
(* Theorems about Monitor, for any number of handlers, polls, accounts and *)
(* methods and every size of the ring.                                     *)
(***************************************************************************)
EXTENDS Monitor, FiniteSetTheorems, SequenceTheorems, WellFoundedInduction, TLAPS

-----------------------------------------------------------------------------
(* Sums.  SumFunction adds up the values of a function over the subsets of *)
(* its domain, taking one element away at a time.  That there is such a    *)
(* function of the subsets, and what it does when one value grows, is      *)
(* shown by looking at a least subset for which it would fail.             *)

Picked(t) == CHOOSE x \in t : TRUE

\* g maps the subsets of S to the sums of f over them.
Sums(f, S, g) ==
  g = [t \in SUBSET S |-> IF t = {} THEN 0 ELSE f[Picked(t)] + g[t \ {Picked(t)}]]

LEMMA PickedIn == ASSUME NEW t, t # {} PROVE Picked(t) \in t
BY DEF Picked

\* Among some subsets of a finite set there is one that contains no other.
LEMMA MinimalSubset ==
  ASSUME NEW S, IsFiniteSet(S), NEW T \in SUBSET SUBSET S, T # {}
  PROVE  \E t \in T : \A u \in T : u \subseteq t => u = t
<1>1. IsWellFoundedOn(StrictSubsetOrdering(S), FiniteSubsetsOf(S))
  BY FS_StrictSubsetOrderingWellFounded
<1>2. FiniteSubsetsOf(S) = SUBSET S
  BY FS_Subset DEF FiniteSubsetsOf
<1>3. \E t \in T : \A u \in T : ~ (<<u, t>> \in StrictSubsetOrdering(S))
  BY <1>1, <1>2, WFMin
<1> QED
  BY <1>3 DEF StrictSubsetOrdering

LEMMA SumsAgree ==
  ASSUME NEW S, IsFiniteSet(S), NEW T, NEW f, NEW g, NEW h,
         Sums(f, S, g), Sums(f, T, h)
  PROVE  \A t \in SUBSET (S \intersect T) : g[t] = h[t]
<1> DEFINE Bad == {t \in SUBSET (S \intersect T) : g[t] # h[t]}
<1> SUFFICES ASSUME Bad # {} PROVE FALSE
  OBVIOUS
<1>1. Bad \in SUBSET SUBSET S
  OBVIOUS
<1> HIDE DEF Bad
<1>2. PICK t \in Bad : \A u \in Bad : u \subseteq t => u = t
  BY <1>1, MinimalSubset
<1> USE DEF Bad
<1>3. t # {}
  BY <1>2 DEF Sums
<1> DEFINE u == t \ {Picked(t)}
<1>4. u \in SUBSET (S \intersect T) /\ u \subseteq t /\ u # t
  BY <1>2, <1>3, PickedIn
<1>5. g[u] = h[u]
  BY <1>2, <1>4
<1>6. g[t] = f[Picked(t)] + g[u] /\ h[t] = f[Picked(t)] + h[u]
  BY <1>2, <1>3 DEF Sums
<1> QED
  BY <1>2, <1>5, <1>6

LEMMA SumIs ==
  ASSUME NEW f, NEW g, IsFiniteSet(DOMAIN f), Sums(f, DOMAIN f, g)
  PROVE  SumFunction(f) = g[DOMAIN f]
<1> DEFINE S == DOMAIN f
           it == CHOOSE it : Sums(f, S, it)
<1>1. SumFunction(f) = it[S]
  BY DEF SumFunction, SumFunctionOnSet, FoldFunctionOnSet, MapThenFoldSet, Sums, Picked
<1>2. Sums(f, S, it)
  OBVIOUS
<1> QED
  BY <1>1, <1>2, SumsAgree

\* Every natural-valued function has its sums, and they are natural numbers.
LEMMA SumsExist ==
  ASSUME NEW S, IsFiniteSet(S), NEW f, \A x \in S : f[x] \in Nat
  PROVE  \E g \in [SUBSET S -> Nat] : Sums(f, S, g)
<1> DEFINE Has(t) == \E g \in [SUBSET t -> Nat] : Sums(f, t, g)
           Bad == {t \in SUBSET S : ~Has(t)}
<1> SUFFICES ASSUME Bad # {} PROVE FALSE
  OBVIOUS
<1>1. Bad \in SUBSET SUBSET S
  OBVIOUS
<1> HIDE DEF Bad
<1>2. PICK t \in Bad : \A u \in Bad : u \subseteq t => u = t
  BY <1>1, MinimalSubset
<1>3. t \in SUBSET S /\ ~Has(t) /\ \A u \in SUBSET t : u # t => Has(u)
  BY <1>2 DEF Bad
<1> HIDE DEF Has
<1> DEFINE sums(u) == CHOOSE g : g \in [SUBSET u -> Nat] /\ Sums(f, u, g)
<1>4. \A u \in SUBSET t : u # t => sums(u) \in [SUBSET u -> Nat] /\ Sums(f, u, sums(u))
  BY <1>3 DEF Has
<1> HIDE DEF sums
<1> DEFINE rest == t \ {Picked(t)}
           value == IF t = {} THEN 0 ELSE f[Picked(t)] + sums(rest)[rest]
           g == [u \in SUBSET t |-> IF u = t THEN value ELSE sums(u)[u]]
<1>5. value \in Nat
  <2>1. CASE t = {}
    BY <2>1
  <2>2. CASE t # {}
    <3>1. Picked(t) \in S /\ rest \in SUBSET t /\ rest # t
      BY <1>3, <2>2, PickedIn
    <3>2. sums(rest)[rest] \in Nat
      BY <1>4, <3>1
    <3> QED
      BY <2>2, <3>1, <3>2
  <2> QED
    BY <2>1, <2>2
<1> HIDE DEF value
<1>6. g \in [SUBSET t -> Nat]
  BY <1>4, <1>5
<1>7. \A u \in SUBSET t : g[u] = IF u = {} THEN 0 ELSE f[Picked(u)] + g[u \ {Picked(u)}]
  <2> SUFFICES ASSUME NEW u \in SUBSET t
               PROVE  g[u] = IF u = {} THEN 0 ELSE f[Picked(u)] + g[u \ {Picked(u)}]
    OBVIOUS
  <2>1. CASE u = t
    <3>1. t # {} => rest \in SUBSET t /\ rest # t
      BY PickedIn
    <3>2. t # {} => g[rest] = sums(rest)[rest]
      BY <3>1
    <3> QED
      BY <2>1, <3>2 DEF value
  <2>2. CASE u # t /\ u = {}
    BY <1>4, <2>2 DEF Sums
  <2>3. CASE u # t /\ u # {}
    <3> DEFINE v == u \ {Picked(u)}
    <3>1. v \in SUBSET u /\ v # t /\ v \in SUBSET t
      BY <2>3, PickedIn
    <3>2. sums(u)[u] = f[Picked(u)] + sums(u)[v]
      BY <1>4, <2>3, <3>1 DEF Sums
    <3>3. sums(u)[v] = sums(v)[v]
      <4>1. Sums(f, u, sums(u)) /\ Sums(f, v, sums(v)) /\ v \in SUBSET (u \intersect v)
        BY <1>4, <2>3, <3>1
      <4>2. IsFiniteSet(u)
        BY <1>3, FS_Subset
      <4> HIDE DEF v
      <4> QED
        BY <4>1, <4>2, SumsAgree
    <3>4. g[u] = sums(u)[u] /\ g[v] = sums(v)[v]
      BY <2>3, <3>1
    <3> QED
      BY <2>3, <3>2, <3>3, <3>4
  <2> QED
    BY <2>1, <2>2, <2>3
<1>8. Sums(f, t, g)
  BY <1>6, <1>7 DEF Sums
<1> QED
  BY <1>3, <1>6, <1>8 DEF Has

LEMMA SumType ==
  ASSUME NEW S, IsFiniteSet(S), NEW f \in [S -> Nat]
  PROVE  SumFunction(f) \in Nat
<1>1. PICK g \in [SUBSET S -> Nat] : Sums(f, S, g)
  BY SumsExist
<1>2. SumFunction(f) = g[S]
  BY <1>1, SumIs
<1> QED
  BY <1>2

LEMMA SumOfZeros ==
  ASSUME NEW S, IsFiniteSet(S)
  PROVE  SumFunction([x \in S |-> 0]) = 0
<1> DEFINE f == [x \in S |-> 0]
           g == [t \in SUBSET S |-> 0]
<1>1. \A t \in SUBSET S : t # {} => Picked(t) \in S /\ t \ {Picked(t)} \in SUBSET S
  BY PickedIn
<1>2. Sums(f, S, g)
  BY <1>1 DEF Sums
<1> QED
  BY <1>2, SumIs

\* When one value grows by one, so does the sum.
LEMMA SumIncrement ==
  ASSUME NEW S, IsFiniteSet(S), NEW f \in [S -> Nat], NEW d \in S
  PROVE  SumFunction([f EXCEPT ![d] = @ + 1]) = SumFunction(f) + 1
<1> DEFINE h == [f EXCEPT ![d] = @ + 1]
<1>1. PICK g \in [SUBSET S -> Nat] : Sums(f, S, g)
  BY SumsExist
<1>2. SumFunction(f) = g[S]
  BY <1>1, SumIs
<1> DEFINE k == [t \in SUBSET S |-> IF d \in t THEN g[t] + 1 ELSE g[t]]
<1>3. \A t \in SUBSET S :
        k[t] = IF t = {} THEN 0 ELSE h[Picked(t)] + k[t \ {Picked(t)}]
  <2> SUFFICES ASSUME NEW t \in SUBSET S, t # {}
               PROVE  k[t] = h[Picked(t)] + k[t \ {Picked(t)}]
    BY <1>1 DEF Sums
  <2> DEFINE x == Picked(t)
             u == t \ {x}
  <2>1. x \in t /\ x \in S /\ u \in SUBSET S
    BY PickedIn
  <2>2. g[t] = f[x] + g[u]
    BY <1>1 DEF Sums
  <2>3. f[x] \in Nat /\ g[u] \in Nat
    BY <2>1
  <2>4. h[x] = IF x = d THEN f[x] + 1 ELSE f[x]
    BY <2>1
  <2>5. /\ k[t] = IF d \in t THEN g[t] + 1 ELSE g[t]
        /\ k[u] = IF d \in u THEN g[u] + 1 ELSE g[u]
    BY <2>1
  <2> HIDE DEF x, h, k
  <2>6. d \in u <=> d \in t /\ x # d
    OBVIOUS
  <2> QED
    BY <2>1, <2>2, <2>3, <2>4, <2>5, <2>6 DEF x
<1>4. Sums(h, S, k)
  BY <1>3 DEF Sums
<1>5. DOMAIN h = S /\ k[S] = g[S] + 1
  OBVIOUS
<1> HIDE DEF h, k
<1>6. SumFunction(h) = k[S]
  BY <1>4, <1>5, SumIs
<1> QED
  BY <1>2, <1>5, <1>6 DEF h

\* No value exceeds the sum.
LEMMA SumBounds ==
  ASSUME NEW S, IsFiniteSet(S), NEW f \in [S -> Nat], NEW d \in S
  PROVE  f[d] <= SumFunction(f)
<1>1. PICK g \in [SUBSET S -> Nat] : Sums(f, S, g)
  BY SumsExist
<1> DEFINE Bad == {t \in SUBSET S : d \in t /\ ~(f[d] <= g[t])}
<1>2. Bad = {}
  <2> SUFFICES ASSUME Bad # {} PROVE FALSE
    OBVIOUS
  <2>1. Bad \in SUBSET SUBSET S
    OBVIOUS
  <2> HIDE DEF Bad
  <2>2. PICK t \in Bad : \A u \in Bad : u \subseteq t => u = t
    BY <2>1, MinimalSubset
  <2> USE DEF Bad
  <2> DEFINE x == Picked(t)
             u == t \ {x}
  <2>3. x \in t /\ x \in S /\ u \in SUBSET S /\ u # t
    BY <2>2, PickedIn
  <2>4. g[t] = f[x] + g[u] /\ f[x] \in Nat /\ g[u] \in Nat /\ f[d] \in Nat
    BY <1>1, <2>2, <2>3 DEF Sums
  <2> HIDE DEF x
  <2>5. x # d => f[d] <= g[u]
    BY <2>2, <2>3
  <2> QED
    BY <2>2, <2>4, <2>5
<1>3. SumFunction(f) = g[S]
  BY <1>1, SumIs
<1> QED
  BY <1>2, <1>3

-----------------------------------------------------------------------------
(* The counts.  The three counts of requests are taken one after the other *)
(* by each handler, so they differ by the handlers that are between two of *)
(* them; the difference is exact, which is what bounds every counter by    *)
(* the number of requests.                                                 *)

Noting == [at : {"counted", "met"}, pid : PIDs, method : Methods]

CountsType ==
  /\ rmcTotal \in 0 .. MaxCalls
  /\ calls \in [PIDs -> Nat]
  /\ methodCount \in [Methods -> Nat]
  /\ handler \in [Handlers -> Noting \union {Idle}]
  /\ online \subseteq PIDs

CountsInv == CountsType /\ CountsAgree

LEMMA StageFacts ==
  /\ Idle.at = "idle"
  /\ \A r \in Noting : r.at \in {"counted", "met"} /\ r.pid \in PIDs /\ r.method \in Methods
  /\ \A pid \in PIDs, m \in Methods : [at |-> "counted", pid |-> pid, method |-> m] \in Noting
  /\ \A r \in Noting : [r EXCEPT !.at = "met"] \in Noting /\ [r EXCEPT !.at = "met"].at = "met"
BY DEF Idle, Noting

\* When one handler goes on, it is the only one that enters or leaves the
\* stages looked at.
LEMMA BegunMoves ==
  ASSUME CountsType, NEW h \in Handlers, NEW r, handler' = [handler EXCEPT ![h] = r],
         NEW stages
  PROVE  /\ Begun(stages) \in Nat /\ Begun(stages)' \in Nat
         /\ CASE handler[h].at \in stages /\ r.at \notin stages ->
                   Begun(stages) = Begun(stages)' + 1
              [] handler[h].at \notin stages /\ r.at \in stages ->
                   Begun(stages)' = Begun(stages) + 1
              [] OTHER -> Begun(stages)' = Begun(stages)
<1> DEFINE H == {g \in Handlers : handler[g].at \in stages}
           K == {g \in Handlers : handler'[g].at \in stages}
<1>1. /\ handler'[h] = r
      /\ \A g \in Handlers \ {h} : handler'[g] = handler[g]
  BY DEF CountsType
<1>2. IsFiniteSet(H) /\ IsFiniteSet(K)
  BY FS_Subset, MonitorAssumption
<1>3. Cardinality(H) \in Nat /\ Cardinality(K) \in Nat
  BY <1>2, FS_CardinalityType
<1>4. Begun(stages) = Cardinality(H) /\ Begun(stages)' = Cardinality(K)
  BY DEF Begun
<1>5. CASE handler[h].at \in stages /\ r.at \notin stages
  <2>1. H = K \union {h} /\ h \notin K
    BY <1>1, <1>5
  <2> HIDE DEF H, K
  <2>2. Cardinality(H) = Cardinality(K) + 1
    BY <1>2, <2>1, FS_AddElement
  <2> QED
    BY <1>3, <1>4, <1>5, <2>2
<1>6. CASE handler[h].at \notin stages /\ r.at \in stages
  <2>1. K = H \union {h} /\ h \notin H
    BY <1>1, <1>6
  <2> HIDE DEF H, K
  <2>2. Cardinality(K) = Cardinality(H) + 1
    BY <1>2, <2>1, FS_AddElement
  <2> QED
    BY <1>3, <1>4, <1>6, <2>2
<1>7. CASE handler[h].at \in stages <=> r.at \in stages
  <2>1. K = H
    BY <1>1, <1>7
  <2> QED
    BY <1>3, <1>4, <1>7, <2>1
<1> QED
  BY <1>5, <1>6, <1>7

LEMMA CountsInit == Init => CountsInv
<1> SUFFICES ASSUME Init PROVE CountsInv
  OBVIOUS
<1>1. CountsType
  BY MonitorAssumption DEF Init, CountsType
<1>2. SumFunction(calls) = 0 /\ SumFunction(methodCount) = 0
  BY SumOfZeros, MonitorAssumption DEF Init
<1>3. Begun({"counted"}) = 0 /\ Begun({"counted", "met"}) = 0
  <2>1. /\ {h \in Handlers : handler[h].at \in {"counted"}} = {}
        /\ {h \in Handlers : handler[h].at \in {"counted", "met"}} = {}
    BY StageFacts DEF Init
  <2> QED
    BY <2>1, FS_EmptySet DEF Begun
<1>4. Cardinality(Players) = 0
  <2>1. Players = {}
    BY DEF Init, Players
  <2> QED
    BY <2>1, FS_EmptySet
<1> QED
  BY <1>1, <1>2, <1>3, <1>4 DEF CountsInv, CountsAgree, Init

LEMMA SumsAreNat ==
  ASSUME CountsType
  PROVE  SumFunction(calls) \in Nat /\ SumFunction(methodCount) \in Nat
BY SumType, MonitorAssumption DEF CountsType

LEMMA CountCallStep ==
  ASSUME CountsInv, NEW h \in Handlers, NEW pid \in PIDs, NEW m \in Methods,
         CountCall(h, pid, m)
  PROVE  CountsInv'
<1> DEFINE r == [at |-> "counted", pid |-> pid, method |-> m]
<1>1. CountsType /\ CountsAgree
  BY DEF CountsInv
<1>2. handler' = [handler EXCEPT ![h] = r] /\ handler[h].at = "idle"
  BY DEF CountCall
<1>3. r \in Noting /\ r.at = "counted"
  BY StageFacts
<1>4. CountsType'
  BY <1>1, <1>2, <1>3, MonitorAssumption DEF CountCall, CountsType
<1> HIDE DEF r
<1>5. /\ Begun({"counted"})' = Begun({"counted"}) + 1
      /\ Begun({"counted", "met"})' = Begun({"counted", "met"}) + 1
      /\ Begun({"counted"}) \in Nat /\ Begun({"counted", "met"}) \in Nat
  BY <1>1, <1>2, <1>3, BegunMoves
<1>6. Players' = Players
  BY DEF CountCall, Players
<1> QED
  BY <1>1, <1>4, <1>5, <1>6, SumsAreNat DEF CountsInv, CountsAgree, CountCall

LEMMA NotePlayerStep ==
  ASSUME CountsInv, NEW h \in Handlers, NotePlayer(h)
  PROVE  CountsInv'
<1> DEFINE r == [handler[h] EXCEPT !.at = "met"]
           pid == handler[h].pid
<1>1. CountsType /\ CountsAgree
  BY DEF CountsInv
<1>2. handler[h] \in Noting /\ handler[h].at = "counted"
  BY <1>1, StageFacts DEF NotePlayer, CountsType
<1>3. handler' = [handler EXCEPT ![h] = r] /\ r \in Noting /\ r.at = "met" /\ pid \in PIDs
  BY <1>1, <1>2, StageFacts DEF NotePlayer, CountsType
<1> HIDE DEF r, pid
<1>4. calls' = [calls EXCEPT ![pid] = @ + 1]
  BY DEF NotePlayer, pid
<1>5. CountsType'
  BY <1>1, <1>3, <1>4 DEF NotePlayer, CountsType
<1>6. SumFunction(calls)' = SumFunction(calls) + 1
  BY <1>1, <1>3, <1>4, SumIncrement, MonitorAssumption DEF CountsType
<1>7. /\ Begun({"counted"}) = Begun({"counted"})' + 1
      /\ Begun({"counted"})' \in Nat
      /\ Begun({"counted", "met"})' = Begun({"counted", "met"})
  BY <1>1, <1>2, <1>3, BegunMoves
<1>8. sessionsSeen' = Cardinality(Players)'
  <2>1. Players' = Players \union {pid}
    BY <1>1, <1>3, <1>4 DEF Players, CountsType
  <2>2. IsFiniteSet(Players) /\ (calls[pid] = 0 <=> pid \notin Players)
    BY <1>1, <1>3, FS_Subset, MonitorAssumption DEF Players, CountsType
  <2>3. Cardinality(Players)' = IF pid \in Players THEN Cardinality(Players)
                                                   ELSE Cardinality(Players) + 1
    BY <2>1, <2>2, FS_AddElement
  <2> QED
    BY <1>1, <2>2, <2>3 DEF NotePlayer, CountsAgree, pid
<1> QED
  BY <1>1, <1>5, <1>6, <1>7, <1>8, SumsAreNat DEF CountsInv, CountsAgree, NotePlayer

LEMMA NoteEventStep ==
  ASSUME CountsInv, NEW h \in Handlers, NoteEvent(h)
  PROVE  CountsInv'
<1>1. CountsType /\ CountsAgree
  BY DEF CountsInv
<1>2. handler[h] \in Noting /\ handler[h].at = "met" /\ handler[h].method \in Methods
  BY <1>1, StageFacts DEF NoteEvent, CountsType
<1>3. handler' = [handler EXCEPT ![h] = Idle] /\ Idle.at = "idle"
  BY StageFacts DEF NoteEvent
<1>4. CountsType'
  BY <1>1, <1>2, <1>3 DEF NoteEvent, CountsType
<1>5. SumFunction(methodCount)' = SumFunction(methodCount) + 1
  BY <1>1, <1>2, SumIncrement, MonitorAssumption DEF CountsType, NoteEvent
<1>6. /\ Begun({"counted"})' = Begun({"counted"})
      /\ Begun({"counted", "met"}) = Begun({"counted", "met"})' + 1
      /\ Begun({"counted", "met"})' \in Nat
  BY <1>1, <1>2, <1>3, BegunMoves
<1>7. Players' = Players
  BY DEF NoteEvent, Players
<1> QED
  BY <1>1, <1>4, <1>5, <1>6, <1>7, SumsAreNat DEF CountsInv, CountsAgree, NoteEvent

LEMMA CountsStep == CountsInv /\ [Next]_vars => CountsInv'
<1> SUFFICES ASSUME CountsInv, [Next]_vars PROVE CountsInv'
  OBVIOUS
<1>1. ASSUME UNCHANGED <<counters, handler>>, online' \subseteq PIDs PROVE CountsInv'
  BY <1>1 DEF counters, CountsInv, CountsType, CountsAgree, Begun, Players
<1>2. ASSUME NEW p \in Pollers, buildStats(p) PROVE CountsInv'
  BY <1>1, <1>2 DEF buildStats, ReadConnections, ReadPlayers, ComparePeak, Compare, RaisePeak,
                    ReadEvents, ReadTotals, CountsInv, CountsType
<1>3. ASSUME NEW pid \in PIDs, Come(pid) \/ Go(pid) PROVE CountsInv'
  BY <1>1, <1>3 DEF Come, Go, CountsInv, CountsType
<1>4. CASE UNCHANGED vars
  BY <1>1, <1>4 DEF vars, counters, CountsInv, CountsType
<1> QED
  BY <1>2, <1>3, <1>4, CountCallStep, NotePlayerStep, NoteEventStep DEF Next, noteRMC

LEMMA CountsInvariant == Spec => []CountsInv
BY CountsInit, CountsStep, PTL DEF Spec

\* However handlers overlap, no request and no session goes uncounted or is
\* counted twice.
THEOREM NothingLost == Spec => []CountsAgree
<1>1. CountsInv => CountsAgree
  BY DEF CountsInv
<1> QED
  BY <1>1, CountsInvariant, PTL

-----------------------------------------------------------------------------
(* The polls.  A poll reads the counters at different times.  Its answer   *)
(* is consistent all the same because what it has read so far is bounded   *)
(* by counters that only grow, and those are read last.                    *)

LEMMA CountsBounds ==
  ASSUME CountsInv
  PROVE  /\ calls \in [PIDs -> 0 .. MaxCalls]
         /\ methodCount \in [Methods -> 0 .. MaxCalls]
         /\ SumFunction(methodCount) \in 0 .. rmcTotal
         /\ Cardinality(Players) = sessionsSeen
         /\ sessionsSeen \in 0 .. Cardinality(PIDs)
<1>1. CountsType /\ CountsAgree
  BY DEF CountsInv
<1>2. Begun({"counted"}) \in Nat /\ Begun({"counted", "met"}) \in Nat
  <2>1. /\ IsFiniteSet({h \in Handlers : handler[h].at \in {"counted"}})
        /\ IsFiniteSet({h \in Handlers : handler[h].at \in {"counted", "met"}})
    BY FS_Subset, MonitorAssumption
  <2> QED
    BY <2>1, FS_CardinalityType DEF Begun
<1>3. SumFunction(calls) <= rmcTotal /\ SumFunction(methodCount) <= rmcTotal
  BY <1>1, <1>2, SumsAreNat DEF CountsAgree
<1>4. rmcTotal \in Nat /\ rmcTotal <= MaxCalls /\ MaxCalls \in Nat
  BY <1>1, MonitorAssumption DEF CountsType
<1>5. \A pid \in PIDs : calls[pid] \in Nat /\ calls[pid] <= SumFunction(calls)
  BY <1>1, SumBounds, MonitorAssumption DEF CountsType
<1>6. \A m \in Methods : methodCount[m] \in Nat /\ methodCount[m] <= SumFunction(methodCount)
  BY <1>1, SumBounds, MonitorAssumption DEF CountsType
<1>7. calls \in [PIDs -> 0 .. MaxCalls] /\ methodCount \in [Methods -> 0 .. MaxCalls]
  BY <1>1, <1>3, <1>4, <1>5, <1>6, SumsAreNat DEF CountsType
<1>8. Cardinality(Players) \in 0 .. Cardinality(PIDs)
  <2>1. Players \subseteq PIDs
    BY DEF Players
  <2>2. IsFiniteSet(Players) /\ Cardinality(Players) <= Cardinality(PIDs)
    BY <2>1, FS_Subset, MonitorAssumption
  <2> QED
    BY <2>2, FS_CardinalityType, MonitorAssumption
<1> QED
  BY <1>1, <1>3, <1>4, <1>7, <1>8, SumsAreNat DEF CountsAgree

\* The two totals that an answer gives last are never counted back.
LEMMA TotalsGrow ==
  ASSUME CountsInv, [Next]_vars
  PROVE  rmcTotal <= rmcTotal' /\ sessionsSeen <= sessionsSeen'
<1>1. rmcTotal \in Nat /\ sessionsSeen \in Nat
  BY CountsBounds, MonitorAssumption DEF CountsInv, CountsType
<1>2. ASSUME NEW h \in Handlers, noteRMC(h)
      PROVE  rmcTotal <= rmcTotal' /\ sessionsSeen <= sessionsSeen'
  BY <1>1, <1>2 DEF noteRMC, CountCall, NotePlayer, NoteEvent
<1>3. ASSUME UNCHANGED counters
      PROVE  rmcTotal <= rmcTotal' /\ sessionsSeen <= sessionsSeen'
  BY <1>1, <1>3 DEF counters
<1>4. ASSUME NEW p \in Pollers, buildStats(p) PROVE UNCHANGED counters
  BY <1>4 DEF buildStats, ReadConnections, ReadPlayers, ComparePeak, Compare, RaisePeak,
              ReadEvents, ReadTotals
<1>5. ASSUME NEW pid \in PIDs, Come(pid) \/ Go(pid) PROVE UNCHANGED counters
  BY <1>5 DEF Come, Go
<1>6. CASE UNCHANGED vars
  BY <1>3, <1>6 DEF vars, counters
<1> QED
  BY <1>2, <1>3, <1>4, <1>5, <1>6 DEF Next

Answers ==
  [at : {"idle", "conns", "meta", "peak", "events", "totals"},
   players : SUBSET PIDs, known : 0 .. Cardinality(PIDs),
   methods : 0 .. MaxCalls, sessions : 0 .. Cardinality(PIDs),
   total : 0 .. MaxCalls, peak : 0 .. Cardinality(PIDs)]

PollType ==
  /\ poll \in [Pollers -> Answers]
  /\ peakConnected \in 0 .. Cardinality(PIDs)
  /\ overtaken \subseteq Pollers

\* What a poll has read of the players and of the events is covered by the
\* counters now, and by the counters of the answer once it is given.
Covered(r) ==
  /\ r.at \in {"meta", "peak", "events", "totals"} => r.known <= sessionsSeen
  /\ r.at = "totals" => r.methods <= rmcTotal
  /\ r.at = "idle" => r.methods <= r.total /\ r.known <= r.sessions

PollInv == PollType /\ \A p \in Pollers : Covered(poll[p])

LEMMA PollTypeStep == PollType /\ CountsInv /\ [Next]_vars => PollType'
<1> SUFFICES ASSUME PollType, CountsInv, [Next]_vars PROVE PollType'
  OBVIOUS
<1>1. Cardinality(PIDs) \in Nat /\ MaxCalls \in Nat
  BY FS_CardinalityType, MonitorAssumption
<1>2. \A s \in SUBSET PIDs : Cardinality(s) \in 0 .. Cardinality(PIDs)
  BY FS_Subset, FS_CardinalityType, MonitorAssumption
<1>3. /\ Cardinality(Players) \in 0 .. Cardinality(PIDs)
      /\ sessionsSeen \in 0 .. Cardinality(PIDs)
      /\ SumFunction(methodCount) \in 0 .. MaxCalls
      /\ rmcTotal \in 0 .. MaxCalls
      /\ online \subseteq PIDs
  BY <1>1, CountsBounds DEF CountsInv, CountsType
<1>4. ASSUME NEW p \in Pollers, ReadConnections(p) PROVE PollType'
  <2> DEFINE r == [NoAnswer EXCEPT !.at = "conns", !.players = online]
  <2>1. NoAnswer \in Answers
    BY <1>1 DEF NoAnswer, Answers
  <2>2. r \in Answers
    BY <1>3, <2>1 DEF Answers
  <2> HIDE DEF r
  <2>3. poll' = [poll EXCEPT ![p] = r] /\ UNCHANGED <<peakConnected, overtaken>>
    BY <1>4 DEF ReadConnections, r
  <2> QED
    BY <2>2, <2>3 DEF PollType
<1>5. ASSUME NEW p \in Pollers, ReadPlayers(p) PROVE PollType'
  BY <1>3, <1>5 DEF ReadPlayers, PollType, Answers
<1>6. ASSUME NEW p \in Pollers, ComparePeak(p) PROVE PollType'
  BY <1>6 DEF ComparePeak, Compare, PollType, Answers
<1>7. ASSUME NEW p \in Pollers, RaisePeak(p) PROVE PollType'
  <2>1. Cardinality(poll[p].players) \in 0 .. Cardinality(PIDs)
    BY <1>2 DEF PollType, Answers
  <2> QED
    BY <1>7, <2>1 DEF RaisePeak, PollType, Answers
<1>8. ASSUME NEW p \in Pollers, ReadEvents(p) PROVE PollType'
  BY <1>3, <1>8 DEF ReadEvents, PollType, Answers
<1>9. ASSUME NEW p \in Pollers, ReadTotals(p) PROVE PollType'
  <2> DEFINE r == [poll[p] EXCEPT !.at = "idle", !.sessions = sessionsSeen,
                                  !.total = rmcTotal, !.peak = peakConnected]
  <2>1. r \in Answers
    BY <1>3 DEF PollType, Answers
  <2> HIDE DEF r
  <2>2. poll' = [poll EXCEPT ![p] = r] /\ UNCHANGED <<peakConnected, overtaken>>
    BY <1>9 DEF ReadTotals, PollType, r
  <2> QED
    BY <2>1, <2>2 DEF PollType
<1>10. ASSUME UNCHANGED <<poll, peakConnected, overtaken>> PROVE PollType'
  BY <1>10 DEF PollType
<1>11. ASSUME NEW h \in Handlers, noteRMC(h) PROVE PollType'
  BY <1>10, <1>11 DEF noteRMC, CountCall, NotePlayer, NoteEvent
<1>12. ASSUME NEW pid \in PIDs, Come(pid) \/ Go(pid) PROVE PollType'
  BY <1>10, <1>12 DEF Come, Go
<1> QED
  BY <1>4, <1>5, <1>6, <1>7, <1>8, <1>9, <1>10, <1>11, <1>12 DEF Next, buildStats, vars

LEMMA PollInit == Init => PollInv
<1>1. Cardinality(PIDs) \in Nat /\ MaxCalls \in Nat
  BY FS_CardinalityType, MonitorAssumption
<1> QED
  BY <1>1 DEF Init, PollInv, PollType, Answers, NoAnswer, Covered

LEMMA PollStep == PollInv /\ CountsInv /\ [Next]_vars => PollInv'
<1> SUFFICES ASSUME PollInv, CountsInv, [Next]_vars PROVE PollInv'
  OBVIOUS
<1>1. PollType /\ PollType'
  BY PollTypeStep DEF PollInv
<1> SUFFICES ASSUME NEW q \in Pollers PROVE Covered(poll[q])'
  BY <1>1 DEF PollInv
<1>2. /\ rmcTotal \in Nat /\ rmcTotal' \in Nat /\ rmcTotal <= rmcTotal'
      /\ sessionsSeen \in Nat /\ sessionsSeen' \in Nat /\ sessionsSeen <= sessionsSeen'
  <2>1. CountsInv'
    BY CountsStep
  <2>2. /\ rmcTotal \in Nat /\ rmcTotal' \in Nat
    BY <2>1, MonitorAssumption DEF CountsInv, CountsType
  <2>3. /\ sessionsSeen \in Nat /\ sessionsSeen' \in Nat
    <3>1. sessionsSeen = Cardinality(Players) /\ IsFiniteSet(Players)
      BY FS_Subset, MonitorAssumption DEF Players, CountsInv, CountsAgree
    <3>2. sessionsSeen' = Cardinality(Players') /\ IsFiniteSet(Players')
      BY <2>1, FS_Subset, MonitorAssumption DEF Players, CountsInv, CountsAgree
    <3> QED
      BY <3>1, <3>2, FS_CardinalityType
  <2> QED
    BY <2>2, <2>3, TotalsGrow
<1>3. Covered(poll[q]) /\ poll[q] \in Answers
  BY <1>1 DEF PollInv, PollType
<1>4. poll[q].known \in Nat /\ poll[q].methods \in Nat
  BY <1>3, FS_CardinalityType, MonitorAssumption DEF Answers
<1>5. CASE poll'[q] = poll[q]
  BY <1>2, <1>3, <1>4, <1>5 DEF Covered
<1>6. CASE buildStats(q)
  <2>1. CASE ReadConnections(q)
    BY <1>1, <2>1 DEF ReadConnections, PollType, Covered, NoAnswer
  <2>2. CASE ReadPlayers(q)
    BY <1>1, <1>2, <2>2, CountsBounds DEF ReadPlayers, PollType, Answers, Covered, counters
  <2>3. CASE ComparePeak(q)
    BY <1>1, <1>3, <2>3 DEF ComparePeak, Compare, PollType, Answers, Covered, counters
  <2>4. CASE RaisePeak(q)
    BY <1>1, <1>3, <2>4 DEF RaisePeak, PollType, Answers, Covered, counters
  <2>5. CASE ReadEvents(q)
    BY <1>1, <1>2, <1>3, <2>5, CountsBounds DEF ReadEvents, PollType, Answers, Covered, counters
  <2>6. CASE ReadTotals(q)
    BY <1>1, <1>3, <2>6 DEF ReadTotals, PollType, Answers, Covered
  <2> QED
    BY <1>6, <2>1, <2>2, <2>3, <2>4, <2>5, <2>6 DEF buildStats
<1>7. ASSUME NEW p \in Pollers, buildStats(p), p # q PROVE poll'[q] = poll[q]
  BY <1>1, <1>7 DEF buildStats, ReadConnections, ReadPlayers, ComparePeak, Compare, RaisePeak,
                    ReadEvents, ReadTotals, PollType
<1>8. ASSUME NEW h \in Handlers, noteRMC(h) PROVE poll'[q] = poll[q]
  BY <1>8 DEF noteRMC, CountCall, NotePlayer, NoteEvent
<1>9. ASSUME NEW pid \in PIDs, Come(pid) \/ Go(pid) PROVE poll'[q] = poll[q]
  BY <1>9 DEF Come, Go
<1> QED
  BY <1>5, <1>6, <1>7, <1>8, <1>9 DEF Next, vars

LEMMA PollInvariant == Spec => [](CountsInv /\ PollInv)
BY CountsInit, CountsStep, PollInit, PollStep, PTL DEF Spec

\* Every answer is consistent, whatever runs between its reads.
THEOREM ConsistentAnswers == Spec => []AnswerConsistent
<1>1. PollInv => AnswerConsistent
  BY DEF PollInv, Covered, AnswerConsistent
<1> QED
  BY <1>1, PollInvariant, PTL

-----------------------------------------------------------------------------
(* The peak.  Comparing it and raising it are two steps under no lock, so  *)
(* what a poll has compared may be stale when it raises the peak.  It is   *)
(* not as long as no other poll has assigned the peak in between.          *)

PeakInv ==
  \A p \in Pollers :
    poll[p].at = "peak" /\ p \notin overtaken =>
      Cardinality(poll[p].players) > peakConnected

LEMMA PeakInit == Init => PeakInv
BY DEF Init, PeakInv, NoAnswer

LEMMA PeakStep == PollType /\ PeakInv /\ [Next]_vars => PeakInv'
<1> SUFFICES ASSUME PollType, PeakInv, [Next]_vars PROVE PeakInv'
  OBVIOUS
<1>1. ASSUME NEW p \in Pollers, ComparePeak(p) PROVE PeakInv'
  <2>1. \A q \in Pollers \ {p} : poll'[q] = poll[q] /\ (q \in overtaken' <=> q \in overtaken)
    BY <1>1 DEF ComparePeak, Compare, PollType
  <2>2. /\ poll'[p].players = poll[p].players /\ peakConnected' = peakConnected
        /\ poll'[p].at = "peak" => Cardinality(poll[p].players) > peakConnected
    BY <1>1 DEF ComparePeak, Compare, PollType, Answers
  <2> QED
    BY <2>1, <2>2 DEF PeakInv
<1>2. ASSUME NEW p \in Pollers, RaisePeak(p) PROVE PeakInv'
  <2>1. poll'[p].at = "events" /\ \A q \in Pollers \ {p} : poll'[q] = poll[q]
    BY <1>2 DEF RaisePeak, PollType, Answers
  <2>2. \A q \in Pollers \ {p} : poll[q].at = "peak" => q \in overtaken'
    BY <1>2 DEF RaisePeak
  <2> QED
    BY <2>1, <2>2 DEF PeakInv
<1>3. ASSUME NEW p \in Pollers,
             ReadConnections(p) \/ ReadPlayers(p) \/ ReadEvents(p) \/ ReadTotals(p)
      PROVE  PeakInv'
  <2>1. /\ poll'[p].at # "peak" /\ \A q \in Pollers \ {p} : poll'[q] = poll[q]
        /\ UNCHANGED <<peakConnected, overtaken>>
    <3>1. CASE ReadConnections(p)
      BY <3>1 DEF ReadConnections, PollType, NoAnswer
    <3>2. CASE ReadPlayers(p)
      BY <3>2 DEF ReadPlayers, PollType, Answers
    <3>3. CASE ReadEvents(p)
      BY <3>3 DEF ReadEvents, PollType, Answers
    <3>4. CASE ReadTotals(p)
      BY <3>4 DEF ReadTotals, PollType, Answers
    <3> QED
      BY <1>3, <3>1, <3>2, <3>3, <3>4
  <2> QED
    BY <2>1 DEF PeakInv
<1>4. ASSUME UNCHANGED <<poll, peakConnected, overtaken>> PROVE PeakInv'
  BY <1>4 DEF PeakInv
<1>5. ASSUME NEW h \in Handlers, noteRMC(h)
      PROVE  UNCHANGED <<poll, peakConnected, overtaken>>
  BY <1>5 DEF noteRMC, CountCall, NotePlayer, NoteEvent
<1>6. ASSUME NEW pid \in PIDs, Come(pid) \/ Go(pid)
      PROVE  UNCHANGED <<poll, peakConnected, overtaken>>
  BY <1>6 DEF Come, Go
<1>7. CASE UNCHANGED vars
  BY <1>4, <1>7 DEF vars
<1> QED
  BY <1>1, <1>2, <1>3, <1>4, <1>5, <1>6, <1>7 DEF Next, buildStats

\* Only the assignment of a poll moves the peak.
LEMMA PeakMoves ==
  ASSUME [Next]_vars, peakConnected' # peakConnected
  PROVE  \E p \in Pollers : RaisePeak(p)
<1>1. ASSUME NEW p \in Pollers, buildStats(p) PROVE RaisePeak(p)
  BY <1>1 DEF buildStats, ReadConnections, ReadPlayers, ComparePeak, Compare, ReadEvents,
              ReadTotals
<1>2. \A h \in Handlers : ~noteRMC(h)
  BY DEF noteRMC, CountCall, NotePlayer, NoteEvent
<1>3. \A pid \in PIDs : ~Come(pid) /\ ~Go(pid)
  BY DEF Come, Go
<1>4. ~UNCHANGED vars
  BY DEF vars
<1> QED
  BY <1>1, <1>2, <1>3, <1>4 DEF Next

\* However many polls are under way, the peak is lowered only by one that
\* another poll has overtaken between its comparison and its assignment.
THEOREM PeakFalls == Spec => PeakFallsByRace
<1>1. ASSUME PollType, PeakInv, [Next]_vars, peakConnected' < peakConnected
      PROVE  \E p \in overtaken : RaisePeak(p)
  <2>1. peakConnected \in Nat
    <3>1. Cardinality(PIDs) \in Nat
      BY FS_CardinalityType, MonitorAssumption
    <3> QED
      BY <1>1, <3>1 DEF PollType
  <2>2. PICK p \in Pollers : RaisePeak(p)
    BY <1>1, <2>1, PeakMoves
  <2>3. /\ poll[p].at = "peak" /\ peakConnected' = Cardinality(poll[p].players)
        /\ Cardinality(poll[p].players) \in Nat
    <3>1. poll[p].players \subseteq PIDs
      BY <1>1 DEF PollType, Answers
    <3> QED
      BY <2>2, <3>1, FS_Subset, FS_CardinalityType, MonitorAssumption DEF RaisePeak
  <2> QED
    BY <1>1, <2>1, <2>2, <2>3 DEF PeakInv
<1>2. (CountsInv /\ PollInv) /\ PeakInv /\ [Next]_vars
        => [peakConnected' < peakConnected => \E p \in overtaken : RaisePeak(p)]_vars
  BY <1>1 DEF PollInv
<1>3. (CountsInv /\ PollInv) /\ PeakInv /\ [Next]_vars => PeakInv'
  BY PeakStep DEF PollInv
<1> QED
  BY <1>2, <1>3, PeakInit, PollInvariant, PTL DEF Spec, PeakFallsByRace

-----------------------------------------------------------------------------
(* The ring.                                                               *)

RingInv ==
  /\ events \in Seq(PIDs \X Methods)
  /\ noted \in Seq(PIDs \X Methods)
  /\ RingIsTail

LEMMA RingInit == Init => RingInv
BY MonitorAssumption, EmptySeq DEF Init, RingInv, RingIsTail

LEMMA RingStep ==
  ASSUME RingInv, CountsType, [Next]_vars
  PROVE  RingInv'
<1>1. ASSUME UNCHANGED <<events, noted>> PROVE RingInv'
  BY <1>1 DEF RingInv, RingIsTail
<1>2. ASSUME NEW h \in Handlers, NoteEvent(h) PROVE RingInv'
  <2> DEFINE e == <<handler[h].pid, handler[h].method>>
             S == PIDs \X Methods
             n == Len(noted)
             k == Len(events)
             full == Append(events, e)
  <2>1. e \in S
    BY <1>2, StageFacts DEF NoteEvent, CountsType
  <2>2. events' = LastOf(full) /\ noted' = Append(noted, e)
    BY <1>2 DEF NoteEvent
  <2> HIDE DEF e
  <2>3. /\ n \in Nat /\ k \in Nat /\ RingSize \in Nat \ {0}
        /\ k = IF n < RingSize THEN n ELSE RingSize
        /\ \A i \in 1 .. k : events[i] = noted[n - k + i]
    BY LenProperties, MonitorAssumption DEF RingInv, RingIsTail
  <2>4. /\ full \in Seq(S) /\ Len(full) = k + 1
        /\ \A i \in 1 .. k : full[i] = events[i]
        /\ full[k + 1] = e
    BY <2>1, AppendProperties DEF RingInv
  <2>5. /\ noted' \in Seq(S) /\ Len(noted') = n + 1
        /\ \A i \in 1 .. n : noted'[i] = noted[i]
        /\ noted'[n + 1] = e
    BY <2>1, <2>2, AppendProperties DEF RingInv
  <2> HIDE DEF n, k, full, S
  <2>6. CASE k + 1 <= RingSize
    <3>1. events' = full /\ n = k
      BY <2>2, <2>3, <2>4, <2>6 DEF LastOf
    <3>2. \A i \in 1 .. k + 1 : full[i] = noted'[i]
      <4> SUFFICES ASSUME NEW i \in 1 .. k + 1 PROVE full[i] = noted'[i]
        OBVIOUS
      <4>1. CASE i = k + 1
        BY <2>4, <2>5, <3>1, <4>1
      <4>2. CASE i \in 1 .. k
        <5>1. n - k + i = i
          BY <2>3, <3>1
        <5> QED
          BY <2>3, <2>4, <2>5, <3>1, <4>2, <5>1
      <4> QED
        BY <2>3, <4>1, <4>2
    <3> QED
      BY <2>3, <2>4, <2>5, <2>6, <3>1, <3>2 DEF RingInv, RingIsTail, S
  <2>7. CASE k + 1 > RingSize
    <3>1. k = RingSize /\ n >= k
      BY <2>3, <2>7
    <3>2. events' = SubSeq(full, 2, k + 1)
      BY <2>2, <2>3, <2>4, <3>1 DEF LastOf
    <3>3. /\ events' \in Seq(S) /\ Len(events') = k
          /\ \A i \in 1 .. k : events'[i] = full[i + 1]
      <4>1. 2 \in 1 .. Len(full) + 1 /\ k + 1 \in 2 - 1 .. Len(full)
        BY <2>3, <2>4, <3>1
      <4>2. /\ SubSeq(full, 2, k + 1) \in Seq(S)
            /\ Len(SubSeq(full, 2, k + 1)) = (k + 1) - 2 + 1
            /\ \A i \in 1 .. (k + 1) - 2 + 1 :
                 SubSeq(full, 2, k + 1)[i] = full[2 + i - 1]
        BY <2>4, <4>1, SubSeqProperties
      <4> QED
        BY <2>3, <3>2, <4>2
    <3>4. \A i \in 1 .. k : events'[i] = noted'[(n + 1) - k + i]
      <4> SUFFICES ASSUME NEW i \in 1 .. k PROVE events'[i] = noted'[(n + 1) - k + i]
        OBVIOUS
      <4>1. CASE i = k
        BY <2>3, <2>4, <2>5, <3>3, <4>1
      <4>2. CASE i < k
        <5>1. i + 1 \in 1 .. k /\ n - k + (i + 1) \in 1 .. n
          BY <2>3, <3>1, <4>2
        <5>2. events'[i] = noted[n - k + (i + 1)]
          BY <2>3, <2>4, <3>3, <5>1
        <5>3. n - k + (i + 1) = (n + 1) - k + i
          BY <2>3
        <5> QED
          BY <2>5, <5>1, <5>2, <5>3
      <4> QED
        BY <2>3, <4>1, <4>2
    <3>5. Len(noted') = n + 1 /\ Len(events') = RingSize /\ ~(n + 1 < RingSize)
      BY <2>3, <2>5, <3>1, <3>3
    <3>6. RingIsTail'
      BY <2>3, <3>1, <3>4, <3>5 DEF RingIsTail
    <3> QED
      BY <2>5, <3>3, <3>6 DEF RingInv, S
  <2> QED
    BY <2>3, <2>6, <2>7
<1>3. ASSUME NEW h \in Handlers, \/ NotePlayer(h)
                                 \/ \E pid \in PIDs, m \in Methods : CountCall(h, pid, m)
      PROVE  UNCHANGED <<events, noted>>
  BY <1>3 DEF NotePlayer, CountCall
<1>4. ASSUME NEW p \in Pollers, buildStats(p) PROVE UNCHANGED <<events, noted>>
  BY <1>4 DEF buildStats, ReadConnections, ReadPlayers, ComparePeak, Compare, RaisePeak,
              ReadEvents, ReadTotals, counters
<1>5. ASSUME NEW pid \in PIDs, Come(pid) \/ Go(pid) PROVE UNCHANGED <<events, noted>>
  BY <1>5 DEF Come, Go, counters
<1>6. CASE UNCHANGED vars
  BY <1>1, <1>6 DEF vars
<1> QED
  BY <1>1, <1>2, <1>3, <1>4, <1>5, <1>6 DEF Next, noteRMC

LEMMA RingInvariant == Spec => []RingInv
<1>1. RingInv /\ CountsInv /\ [Next]_vars => RingInv'
  BY RingStep DEF CountsInv
<1> QED
  BY <1>1, RingInit, CountsInvariant, PTL DEF Spec

\* The ring is always the tail of what was noted.
THEOREM RingKeepsTail == Spec => []RingIsTail
<1>1. RingInv => RingIsTail
  BY DEF RingInv
<1> QED
  BY <1>1, RingInvariant, PTL

\* The counters stay within the number of requests and of accounts.
THEOREM MonitorTypeCorrect == Spec => []TypeOK
<1>1. CountsInv /\ PollInv /\ RingInv => TypeOK
  <2> SUFFICES ASSUME CountsInv, PollInv, RingInv PROVE TypeOK
    OBVIOUS
  <2>1. Len(events) <= RingSize
    BY LenProperties, MonitorAssumption DEF RingInv, RingIsTail
  <2> QED
    BY <2>1, CountsBounds DEF TypeOK, CountsInv, CountsType, PollInv, PollType, RingInv,
                              Noting, Answers
<1> QED
  BY <1>1, PollInvariant, RingInvariant, PTL
=============================================================================
