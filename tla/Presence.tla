------------------------------ MODULE Presence ------------------------------
(***************************************************************************)
(* What becomes of the connections that logins earn: the secure endpoint's *)
(* register of connections, the lobbies their players are in, the reaper   *)
(* and /api/kick (main.go:129-144, dashboard.go:385-405).                  *)
(*                                                                         *)
(* A console may vanish without a word.  Its connection then stays         *)
(* registered, its account counts as being elsewhere and its lobby as open *)
(* until the endpoint drops the connection and calls OnDisconnect, which   *)
(* knows the player by his PID only.  The endpoint and the gatherings      *)
(* belong to a library; the drop and its OnDisconnect are one step here.   *)
(***************************************************************************)
EXTENDS Login

VARIABLES
  lost,     \* the registered connections whose console is gone
  lobby,    \* lobby[pid]: the connection through which pid entered the
            \* lobby he is in (the code keeps the PID only), or NoOne
  disputed  \* history: the accounts that got a ticket past the gate, or
            \* while another one was still to be used

presence     == <<lost, lobby, disputed>>
presenceVars == <<nsaCache, nsaNegCache, nsaInflight, call, link, everLinked,
                  login, lapsed, barred, lost, lobby, disputed>>

NoOne == "no one"

Registered(c)      == Is(c, "online")
Live(c)            == Registered(c) /\ c \notin lost
Player(c)          == login[c].pid
ConnectionsOf(pid) == {c \in Callers : Registered(c) /\ Player(c) = pid}

PresenceInit ==
  /\ LoginInit
  /\ lost = {}
  /\ lobby = [pid \in PIDs |-> NoOne]
  /\ disputed = {}

-----------------------------------------------------------------------------
(* The consoles.                                                           *)

\* Login c gets its ticket in this step although the gate would refuse it
\* (no answer), was not asked (no account), or could not know of a ticket
\* that is still to be used.
Disputes(c) ==
  /\ ~Is(c, "granted") /\ login'[c].step = "granted"
  /\ \/ login'[c].route = "name"
     \/ Is(c, "check") /\ ~Allowed(c, Player(c))
     \/ \E d \in Callers \ {c} : Is(d, "granted") /\ Player(d) = login'[c].pid

\* A step of the logins and their world; it ends no connection.
LoginStep ==
  /\ \/ \E c \in Callers : Attempt(c) \/ Serve(c) \/ Connect(c)
     \/ \E c \in Callers : Is(c, "granted") /\ Disconnect(c)
     \/ \E pid \in PIDs : Lapse(pid) \/ Bar(pid) \/ Unbar(pid)
     \/ World /\ UNCHANGED loginVars
  /\ disputed' = disputed \union {login'[c].pid : c \in {d \in Callers : Disputes(d)}}
  /\ UNCHANGED <<lost, lobby>>

\* The console crashes, or its network does: the server sees nothing.
Lose(c) ==
  /\ Live(c)
  /\ lost' = lost \union {c}
  /\ UNCHANGED <<allVars, lobby, disputed>>

JoinLobby(c) ==
  /\ Live(c)
  /\ lobby' = [lobby EXCEPT ![Player(c)] = c]
  /\ UNCHANGED <<allVars, lost, disputed>>

\* UnregisterGathering or EndParticipation.
LeaveLobby(c) ==
  /\ Live(c)
  /\ lobby' = [lobby EXCEPT ![Player(c)] = NoOne]
  /\ UNCHANGED <<allVars, lost, disputed>>

-----------------------------------------------------------------------------
(* The endpoint.                                                           *)

\* Mutant: only the connections whose console is still there are reported.
OnDisconnectPolite(conns) ==
  lobby' = [pid \in PIDs |->
              IF \E c \in conns \ lost : Player(c) = pid THEN NoOne ELSE lobby[pid]]

\* OnDisconnect for each of these connections: RemovePlayer(c.PID).
OnDisconnect(conns) ==
  lobby' = [pid \in PIDs |->
              IF \E c \in conns : Player(c) = pid THEN NoOne ELSE lobby[pid]]

\* The endpoint forgets these connections.
Drop(conns) ==
  /\ conns # {}
  /\ login' = [c \in Callers |-> IF c \in conns THEN NoLogin ELSE login[c]]
  /\ lost' = lost \ conns
  /\ OnDisconnect(conns)
  /\ UNCHANGED <<vars, lapsed, barred, disputed>>

\* The console closes its connection.
Close(c) == Live(c) /\ Drop({c})

\* Mutant: a player who is in a lobby is taken for busy and spared.
ReapQuiet(c) ==
  \E conns \in SUBSET lost :
    c \in conns /\ (\A d \in conns : lobby[Player(d)] = NoOne) /\ Drop(conns)

\* The reaper, or /api/kick without parameters: some of the connections that
\* have been silent are dropped.  A console that is there is never silent for
\* long: type8.go answers its keepalive, which it sends every 3 s.
Reap(c) == \E conns \in SUBSET lost : c \in conns /\ Drop(conns)

\* /api/kick?pid= and /api/kick?rvcid=
KickPID(pid)      == Drop(ConnectionsOf(pid))
KickConnection(c) == Registered(c) /\ Drop({c})

PresenceNext ==
  \/ LoginStep
  \/ \E c \in Callers :
       \/ Lose(c) \/ JoinLobby(c) \/ LeaveLobby(c)
       \/ Close(c) \/ Reap(c) \/ KickConnection(c)
  \/ \E pid \in PIDs : KickPID(pid)

\* The reaper that main starts (main.go:144) looks at the register again and
\* again.  Nobody else is under fairness.
PresenceSpec ==
  /\ PresenceInit /\ [][PresenceNext]_presenceVars
  /\ \A c \in Callers : WF_presenceVars(Reap(c))

-----------------------------------------------------------------------------
\* Only registered connections are lost, and a lobby is never entered under a
\* connection that has ended (main.go:135-137).
PresenceTypeOK ==
  /\ LoginTypeOK
  /\ lost \subseteq {c \in Callers : Registered(c)}
  /\ lobby \in [PIDs -> Callers \union {NoOne}]
  /\ \A pid \in PIDs : lobby[pid] # NoOne => lobby[pid] \in ConnectionsOf(pid)
  /\ disputed \subseteq PIDs

\* No phantom lobby: a lobby whose player has no live connection does not
\* stay for ever, though no console ever asks to leave it
\* (main.go:130-134).
PhantomGone ==
  \A pid \in PIDs :
    lobby[pid] # NoOne /\ (\A c \in ConnectionsOf(pid) : ~Live(c))
      ~> lobby[pid] = NoOne \/ \E c \in ConnectionsOf(pid) : Live(c)

\* The account sits behind a dead connection: the gate refuses it, as it is
\* playing elsewhere.
Stuck(pid) == \E c \in ConnectionsOf(pid) \intersect lost : login[c].route # "name"

\* No account stays locked out behind a lost connection (main.go:141-143).
\* An account whose console is lost over and over is free in between, as no
\* second connection of it can be open meanwhile.
PlayerFreed ==
  \A pid \in PIDs : Stuck(pid) ~> ~Stuck(pid) \/ pid \in disputed

\* OnDisconnect removes the lobbies of a player, not of a connection
\* (main.go:136).  Yet a player who is there keeps the lobby he has entered
\* unless he leaves it or his own connection is dropped: the gate lets nobody
\* in beside a connection that is registered, be it lost.
LobbyKept ==
  [][\A c \in Callers :
       /\ Live(c) /\ lobby[Player(c)] = c
       /\ Player(c) \notin disputed
       /\ Registered(c)'
       => lobby'[Player(c)] = c \/ LeaveLobby(c)]_presenceVars
=============================================================================
