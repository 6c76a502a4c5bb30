------------------------------ MODULE Monitor ------------------------------
(***************************************************************************)
(* The monitoring of dashboard.go: every RMC request of the secure server  *)
(* passes through noteRMC, and /api/stats is answered from buildStats.     *)
(*                                                                         *)
(* Nothing holds all the counters together.  A request updates rmcTotal    *)
(* (atomic), the players (under metaMu) and the events (under eventsMu)    *)
(* one after the other, a poll reads connections, players, events and      *)
(* totals one after the other, and the two interleave.  peakConnected is   *)
(* read, compared and assigned under no lock at all.  What a poll lists    *)
(* (names, lobbies, recent events) is left out; what it counts is kept.    *)
(***************************************************************************)
EXTENDS Naturals, Sequences, FiniteSets, Functions

CONSTANTS
  Handlers,  \* goroutines that serve RMC requests
  Pollers,   \* goroutines that serve /api/stats
  PIDs,      \* PIDs of connected accounts; PID 0 is not counted
  Methods,   \* RMC methods
  RingSize,  \* capacity of the event ring; 100 in the code
  MaxCalls   \* bound on the requests of a run

ASSUME MonitorAssumption ==
  /\ IsFiniteSet(Handlers) /\ IsFiniteSet(PIDs) /\ IsFiniteSet(Methods)
  /\ RingSize \in Nat \ {0}
  /\ MaxCalls \in Nat

VARIABLES
  rmcTotal,       \* requests counted
  calls,          \* calls[pid] of playerMeta; 0 when it has no entry for pid
  sessionsSeen,   \* entries of playerMeta ever made
  events,         \* the ring of recent requests, newest last
  methodCount,    \* requests per method
  peakConnected,  \* most players a poll has ever seen
  handler,        \* handler[h]: the request that h notes, and how far it is
  poll,           \* poll[p]: what the poll of p has read, and how far it is
  online,         \* endpoint: PIDs of the live connections
  noted,          \* history: all the events ever noted, in order
  overtaken       \* history: polls between whose comparison and assignment of
                  \* the peak another poll has assigned it

counters == <<rmcTotal, calls, sessionsSeen, events, methodCount, noted>>
vars     == <<rmcTotal, calls, sessionsSeen, events, methodCount, peakConnected,
              overtaken, handler, poll, online, noted>>

\* The stages say what has been done last; an idle handler holds nothing, an
\* idle poll holds its last answer.
Idle     == [at |-> "idle"]
NoAnswer == [at |-> "idle", players |-> {}, known |-> 0, methods |-> 0,
             sessions |-> 0, total |-> 0, peak |-> 0]

Init ==
  /\ rmcTotal = 0
  /\ calls = [pid \in PIDs |-> 0]
  /\ sessionsSeen = 0
  /\ events = << >>
  /\ methodCount = [m \in Methods |-> 0]
  /\ peakConnected = 0
  /\ handler = [h \in Handlers |-> Idle]
  /\ poll = [p \in Pollers |-> NoAnswer]
  /\ online = {}
  /\ noted = << >>
  /\ overtaken = {}

-----------------------------------------------------------------------------
(* noteRMC.                                                                *)

CountCall(h, pid, m) ==
  /\ handler[h].at = "idle"
  /\ pid \in online
  /\ rmcTotal < MaxCalls
  /\ rmcTotal' = rmcTotal + 1
  /\ handler' = [handler EXCEPT ![h] = [at |-> "counted", pid |-> pid, method |-> m]]
  /\ UNCHANGED <<calls, sessionsSeen, events, methodCount, noted,
                 peakConnected, overtaken, poll, online>>

\* The players that playerMeta has an entry for.
Players == {pid \in PIDs : calls[pid] > 0}

\* Mutant: every request counts as a session.
NotePlayerEach(h) ==
  LET pid == handler[h].pid
  IN /\ handler[h].at = "counted"
     /\ calls' = [calls EXCEPT ![pid] = @ + 1]
     /\ sessionsSeen' = sessionsSeen + 1
     /\ handler' = [handler EXCEPT ![h].at = "met"]
     /\ UNCHANGED <<rmcTotal, events, methodCount, noted, peakConnected, overtaken,
                    poll, online>>

\* Mutant: a session is counted with the player's second request.
NotePlayerSecond(h) ==
  LET pid == handler[h].pid
  IN /\ handler[h].at = "counted"
     /\ calls' = [calls EXCEPT ![pid] = @ + 1]
     /\ sessionsSeen' = IF calls[pid] = 1 THEN sessionsSeen + 1 ELSE sessionsSeen
     /\ handler' = [handler EXCEPT ![h].at = "met"]
     /\ UNCHANGED <<rmcTotal, events, methodCount, noted, peakConnected, overtaken,
                    poll, online>>

\* Under metaMu: an unknown player gets an entry and is a session seen.
NotePlayer(h) ==
  LET pid == handler[h].pid
  IN /\ handler[h].at = "counted"
     /\ calls' = [calls EXCEPT ![pid] = @ + 1]
     /\ sessionsSeen' = IF calls[pid] = 0 THEN sessionsSeen + 1 ELSE sessionsSeen
     /\ handler' = [handler EXCEPT ![h].at = "met"]
     /\ UNCHANGED <<rmcTotal, events, methodCount, noted, peakConnected, overtaken,
                    poll, online>>

\* Mutant: the ring is never trimmed.
LastOfAll(seq) == seq

\* Mutant: a full ring drops the new event instead of the oldest one.
LastOfFirst(seq) == IF Len(seq) > RingSize THEN SubSeq(seq, 1, RingSize) ELSE seq

\* Under eventsMu: the ring keeps the last RingSize events.
LastOf(seq) == IF Len(seq) > RingSize
               THEN SubSeq(seq, Len(seq) - RingSize + 1, Len(seq))
               ELSE seq

NoteEvent(h) ==
  LET event == <<handler[h].pid, handler[h].method>>
  IN /\ handler[h].at = "met"
     /\ events' = LastOf(Append(events, event))
     /\ methodCount' = [methodCount EXCEPT ![handler[h].method] = @ + 1]
     /\ noted' = Append(noted, event)
     /\ handler' = [handler EXCEPT ![h] = Idle]
     /\ UNCHANGED <<rmcTotal, calls, sessionsSeen, peakConnected, overtaken, poll, online>>

-----------------------------------------------------------------------------
(* buildStats.                                                             *)

ReadConnections(p) ==
  /\ poll[p].at = "idle"
  /\ poll' = [poll EXCEPT ![p] = [NoAnswer EXCEPT !.at = "conns", !.players = online]]
  /\ UNCHANGED <<counters, peakConnected, overtaken, handler, online>>

ReadPlayers(p) ==
  /\ poll[p].at = "conns"
  /\ poll' = [poll EXCEPT ![p].at = "meta", ![p].known = Cardinality(Players)]
  /\ UNCHANGED <<counters, peakConnected, overtaken, handler, online>>

\* The poll goes on to the assignment if it has seen more players than that.
Compare(p, peak) ==
  /\ poll[p].at = "meta"
  /\ poll' = [poll EXCEPT ![p].at =
                IF Cardinality(poll[p].players) > peak THEN "peak" ELSE "events"]
  /\ overtaken' = overtaken \ {p}
  /\ UNCHANGED <<counters, peakConnected, handler, online>>

\* Mutant: any poll that has seen players sets the peak.
ComparePeakZero(p) == Compare(p, 0)

\* The comparison and the assignment are two steps: no lock is held.
ComparePeak(p) == Compare(p, peakConnected)

RaisePeak(p) ==
  /\ poll[p].at = "peak"
  /\ peakConnected' = Cardinality(poll[p].players)
  /\ poll' = [poll EXCEPT ![p].at = "events"]
  /\ overtaken' = (overtaken \union {q \in Pollers : poll[q].at = "peak"}) \ {p}
  /\ UNCHANGED <<counters, handler, online>>

\* Under eventsMu.
ReadEvents(p) ==
  /\ poll[p].at = "events"
  /\ poll' = [poll EXCEPT ![p].at = "totals",
                          ![p].methods = SumFunction(methodCount)]
  /\ UNCHANGED <<counters, peakConnected, overtaken, handler, online>>

\* The totals are loaded while the answer is put together.
ReadTotals(p) ==
  /\ poll[p].at = "totals"
  /\ poll' = [poll EXCEPT ![p].at = "idle", ![p].sessions = sessionsSeen,
                          ![p].total = rmcTotal, ![p].peak = peakConnected]
  /\ UNCHANGED <<counters, peakConnected, overtaken, handler, online>>

-----------------------------------------------------------------------------
(* Connections come and go.                                                *)

Come(pid) ==
  /\ online' = online \union {pid}
  /\ UNCHANGED <<counters, peakConnected, overtaken, handler, poll>>

Go(pid) ==
  /\ online' = online \ {pid}
  /\ UNCHANGED <<counters, peakConnected, overtaken, handler, poll>>

noteRMC(h) ==
  \/ \E pid \in PIDs, m \in Methods : CountCall(h, pid, m)
  \/ NotePlayer(h)
  \/ NoteEvent(h)

buildStats(p) ==
  \/ ReadConnections(p)
  \/ ReadPlayers(p)
  \/ ComparePeak(p)
  \/ RaisePeak(p)
  \/ ReadEvents(p)
  \/ ReadTotals(p)

Next ==
  \/ \E h \in Handlers : noteRMC(h)
  \/ \E p \in Pollers : buildStats(p)
  \/ \E pid \in PIDs : Come(pid) \/ Go(pid)

Spec == Init /\ [][Next]_vars

-----------------------------------------------------------------------------
\* The requests being noted that have come as far as one of the stages.
Begun(stages) == Cardinality({h \in Handlers : handler[h].at \in stages})

\* The counters are numbers, the ring is within its size, and handlers and the poll
\* are well formed (dashboard.go:25-38).
TypeOK ==
  /\ rmcTotal \in 0 .. MaxCalls
  /\ calls \in [PIDs -> 0 .. MaxCalls]
  /\ sessionsSeen \in 0 .. Cardinality(PIDs)
  /\ events \in Seq(PIDs \X Methods) /\ Len(events) <= RingSize
  /\ methodCount \in [Methods -> 0 .. MaxCalls]
  /\ peakConnected \in 0 .. Cardinality(PIDs)
  /\ handler \in [Handlers -> [at : {"counted", "met"}, pid : PIDs, method : Methods]
                               \union {Idle}]
  /\ poll \in [Pollers ->
       [at : {"idle", "conns", "meta", "peak", "events", "totals"},
        players : SUBSET PIDs, known : 0 .. Cardinality(PIDs),
        methods : 0 .. MaxCalls, sessions : 0 .. Cardinality(PIDs),
        total : 0 .. MaxCalls, peak : 0 .. Cardinality(PIDs)]]
  /\ online \subseteq PIDs
  /\ overtaken \subseteq Pollers

\* No count is lost to an interleaving (dashboard.go:59-89): the three
\* counts of requests differ by those that are between two of them, and a
\* session is seen exactly once for each player that ever called.
CountsAgree ==
  /\ rmcTotal = SumFunction(calls) + Begun({"counted"})
  /\ rmcTotal = SumFunction(methodCount) + Begun({"counted", "met"})
  /\ sessionsSeen = Cardinality(Players)

\* The ring is the tail of the requests noted, in the order in which their
\* sections under eventsMu ran: overlapping handlers lose and reorder none
\* (dashboard.go:82-88).
RingIsTail ==
  /\ Len(events) = IF Len(noted) < RingSize THEN Len(noted) ELSE RingSize
  /\ \A i \in 1 .. Len(events) :
       events[i] = noted[Len(noted) - Len(events) + i]

\* An answer is consistent although its parts are read at different times
\* (dashboard.go:224-357): its methods never add up to more than its total,
\* and it knows no more players than it counts sessions.
AnswerConsistent ==
  \A p \in Pollers : poll[p].at = "idle" =>
    /\ poll[p].methods <= poll[p].total
    /\ poll[p].known <= poll[p].sessions

\* The peak is compared and assigned without a lock (dashboard.go:319-321), so
\* a poll may take back what another one has raised it to, but only if that
\* one assigned it in between: a poll that nobody overtakes never lowers the
\* peak, however many polls are under way.
PeakFallsByRace ==
  [][peakConnected' < peakConnected => \E p \in overtaken : RaisePeak(p)]_vars
=============================================================================
