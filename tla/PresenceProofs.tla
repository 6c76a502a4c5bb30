--------------------------- MODULE PresenceProofs ---------------------------
(***************************************************************************)
(* Theorems about Presence, for any number of connections, consoles and    *)
(* accounts.                                                               *)
(***************************************************************************)
EXTENDS Presence, LoginProofs

-----------------------------------------------------------------------------
(* The logins of Presence are those of Login, and losing or dropping a     *)
(* connection does not concern the resolver.                               *)

LEMMA LoginStepIsLogin == LoginStep => LoginNext
BY DEF LoginStep, LoginNext

LEMMA PresenceResolver == [PresenceNext]_presenceVars => [Next]_vars
<1> SUFFICES ASSUME [PresenceNext]_presenceVars PROVE [Next]_vars
  OBVIOUS
<1>1. CASE LoginStep
  BY <1>1, LoginStepIsLogin, ResolverStep
<1>2. ASSUME NEW c \in Callers, Lose(c) \/ JoinLobby(c) \/ LeaveLobby(c)
      PROVE  [Next]_vars
  BY <1>2 DEF Lose, JoinLobby, LeaveLobby, allVars, vars
<1>3. ASSUME NEW conns, Drop(conns) PROVE [Next]_vars
  BY <1>3 DEF Drop
<1>4. CASE UNCHANGED presenceVars
  BY <1>4 DEF presenceVars, vars
<1> QED
  BY <1>1, <1>2, <1>3, <1>4
     DEF PresenceNext, Close, Reap, KickPID, KickConnection

LEMMA PresenceRunsResolver == PresenceSpec => Spec
<1>1. PresenceInit => Init
  BY DEF PresenceInit, LoginInit
<1> QED
  BY <1>1, PresenceResolver, PTL DEF PresenceSpec, Spec

-----------------------------------------------------------------------------
(* What a step may do to a login.  A login that is past the resolver has a *)
(* PID, a ticket comes from the gate or from a name, and a connection that *)
(* is registered is not touched by the logins of others.                   *)

SameLogin(c) ==
  /\ login'[c].step = login[c].step
  /\ login'[c].pid = login[c].pid

MovedLogin(c) ==
  \/ ~Is(c, "online") /\ login'[c].step \in {"out", "resolving"}
  \/ ~Admitted(c) /\ login'[c].step = "check" /\ login'[c].pid \in PIDs
  \/ Is(c, "out") /\ login'[c].step = "granted" /\ login'[c].pid \in PIDs
       /\ login'[c].route = "name"
  \/ Is(c, "check") /\ login'[c].step = "granted" /\ login'[c].pid = login[c].pid
  \/ Is(c, "granted") /\ login'[c].step = "online" /\ login'[c].pid = login[c].pid

\* One login at most moves in a step.
LEMMA OneMoves ==
  ASSUME LoginTypeOK, OnlyLinked, LoginStep
  PROVE  \/ \A d \in Callers : SameLogin(d)
         \/ \E c \in Callers : MovedLogin(c) /\ \A d \in Callers \ {c} : SameLogin(d)
<1> DEFINE Goal == \/ \A d \in Callers : SameLogin(d)
                   \/ \E c \in Callers : MovedLogin(c)
                                         /\ \A d \in Callers \ {c} : SameLogin(d)
<1>1. login \in [Callers -> LoginState] /\ TypeOK
  BY DEF LoginTypeOK
<1>2. ASSUME NEW c \in Callers, NEW l, login' = [login EXCEPT ![c] = l],
             \/ ~Is(c, "online") /\ l.step \in {"out", "resolving"}
             \/ ~Admitted(c) /\ l.step = "check" /\ l.pid \in PIDs
             \/ /\ Is(c, "out") /\ l.step = "granted" /\ l.pid \in PIDs
                /\ l.route = "name"
             \/ Is(c, "check") /\ l.step = "granted" /\ l.pid = login[c].pid
             \/ Is(c, "granted") /\ l.step = "online" /\ l.pid = login[c].pid
      PROVE  Goal
  BY <1>1, <1>2 DEF MovedLogin, SameLogin
<1>3. ASSUME NEW c \in Callers, ~Is(c, "online"), Refuse(c) PROVE Goal
  BY <1>2, <1>3 DEF Refuse, NoLogin
<1>4. ASSUME NEW c \in Callers, Attempt(c) PROVE Goal
  <2>0. Is(c, "out") /\ ~Admitted(c) /\ ~Is(c, "online")
    BY <1>4 DEF Attempt, Anonymous, TokenLogin, NumberLogin, NSALogin, Is, Admitted
  <2>1. ASSUME Anonymous(c) PROVE Goal
    BY <1>2, <1>3, <2>0, <2>1 DEF Anonymous, Enter
  <2>2. ASSUME NEW pid \in PIDs, TokenLogin(c, pid) PROVE Goal
    <3>1. CASE /\ tokenPID(pid) # NoPID
               /\ Enter(c, "check", "token", tokenPID(pid), tokenPID(pid))
      <4>1. tokenPID(pid) \in PIDs
        BY <3>1, TokenPIDType
      <4> QED
        BY <1>2, <2>0, <3>1, <4>1 DEF Enter
    <3> QED
      BY <2>1, <2>2, <3>1 DEF TokenLogin
  <2>3. ASSUME NEW pid \in PIDs, NumberLogin(c, pid) PROVE Goal
    BY <1>2, <1>3, <2>0, <2>3 DEF NumberLogin, Enter
  <2>4. ASSUME NEW nsa \in NSAs, NSALogin(c, nsa) PROVE Goal
    BY <1>2, <2>0, <2>4 DEF NSALogin
  <2> QED
    BY <1>4, <2>1, <2>2, <2>3, <2>4 DEF Attempt
<1>5. ASSUME NEW c \in Callers, Resolved(c) PROVE Goal
  <2>1. ~Is(c, "online") /\ ~Admitted(c)
    BY <1>5 DEF Resolved, Is, Admitted
  <2>2. CASE /\ call[c].status = "nsaOK"
             /\ login' = [login EXCEPT ![c].step = "check", ![c].pid = call[c].pid]
    <3> DEFINE r == [login[c] EXCEPT !.step = "check", !.pid = call[c].pid]
    <3>1. login' = [login EXCEPT ![c] = r]
      BY <1>1, <2>2
    <3>2. <<call[c].nsa, call[c].pid>> \in NSAs \X PIDs
      BY <1>1, <1>5, <2>2 DEF Resolved, Leave, OnlyLinked, TypeOK
    <3>3. r.step = "check" /\ r.pid \in PIDs
      BY <1>1, <3>2 DEF LoginState
    <3> QED
      BY <1>2, <2>1, <3>1, <3>3
  <2> QED
    BY <1>3, <1>5, <2>1, <2>2 DEF Resolved
<1>6. ASSUME NEW c \in Callers, nextendoOnlineCheck(c) \/ Connect(c) PROVE Goal
  <2>1. PICK step \in {"granted", "online"} :
          \/ Is(c, "check") /\ Refuse(c)
          \/ Is(c, "check") /\ step = "granted" /\ Proceed(c, step)
          \/ Is(c, "granted") /\ step = "online" /\ Proceed(c, step)
    BY <1>6 DEF nextendoOnlineCheck, Connect
  <2> DEFINE r == [login[c] EXCEPT !.step = step]
  <2>2. r.step = step /\ r.pid = login[c].pid
    BY <1>1 DEF LoginState
  <2>3. Proceed(c, step) => login' = [login EXCEPT ![c] = r]
    BY <1>1 DEF Proceed
  <2> QED
    BY <1>2, <1>3, <2>1, <2>2, <2>3 DEF Is
<1>7. ASSUME NEW c \in Callers, Is(c, "granted"), Disconnect(c) PROVE Goal
  BY <1>3, <1>7 DEF Disconnect, Is
<1>8. ASSUME NEW pid \in PIDs, Lapse(pid) \/ Bar(pid) PROVE Goal
  BY <1>8 DEF Lapse, Bar, SameLogin
<1>9. ASSUME NEW pid \in PIDs, Unbar(pid) PROVE Goal
  BY <1>1, <1>9 DEF Unbar, SameLogin, LoginState
<1>10. CASE UNCHANGED loginVars
  BY <1>10 DEF loginVars, SameLogin
<1> QED
  BY <1>4, <1>5, <1>6, <1>7, <1>8, <1>9, <1>10 DEF LoginStep, Serve

-----------------------------------------------------------------------------
(* Type correctness.  That a lobby is never entered under a connection     *)
(* that has ended needs a fact of the logins: whoever is past the resolver *)
(* has a PID.                                                              *)

FoundInv == \A c \in Callers : Is(c, "check") \/ Admitted(c) => login[c].pid \in PIDs

\* All that the proofs below need of the state.
ShapeInv == PresenceTypeOK /\ FoundInv

LEMMA ShapeInit == PresenceInit => LoginType /\ lost = {} /\ FoundInv
BY LoginTypeInit DEF PresenceInit, LoginInit, FoundInv, Admitted, Is, NoLogin

\* Registered connections stay as they are while logins move.
LEMMA RegisteredKept ==
  ASSUME LoginTypeOK, OnlyLinked, LoginStep, NEW c \in Callers, Registered(c)
  PROVE  Registered(c)' /\ Player(c)' = Player(c)
BY OneMoves DEF SameLogin, MovedLogin, Registered, Player, Is, Admitted

\* Dropped connections are gone, the others are as before.
LEMMA Dropped ==
  ASSUME NEW conns, Drop(conns), NEW c \in Callers
  PROVE  IF c \in conns THEN ~Admitted(c)' /\ ~Is(c, "check")'
                        ELSE login'[c] = login[c]
BY DEF Drop, Admitted, Is, NoLogin

LEMMA DropShape ==
  ASSUME ShapeInv, TypeOK', NEW conns, Drop(conns)
  PROVE  ShapeInv'
<1>1. LoginType'
  BY DEF Drop, ShapeInv, PresenceTypeOK, LoginTypeOK, LoginType, NoLogin,
         LoginState, Steps, Routes
<1>2. \A c \in Callers \ conns :
        /\ Registered(c) => Registered(c)'
        /\ Player(c)' = Player(c)
  BY Dropped DEF Registered, Player, Is
<1>3. lost' \subseteq {c \in Callers : Registered(c)'}
  BY <1>2 DEF Drop, ShapeInv, PresenceTypeOK
<1>4. \A pid \in PIDs : lobby'[pid] # NoOne =>
        lobby'[pid] = lobby[pid] /\ ~\E c \in conns : Player(c) = pid
  BY DEF Drop, OnDisconnect
<1>5. lobby' \in [PIDs -> Callers \union {NoOne}]
  BY DEF Drop, OnDisconnect, ShapeInv, PresenceTypeOK
<1>6. \A pid \in PIDs : lobby'[pid] # NoOne => lobby'[pid] \in ConnectionsOf(pid)'
  BY <1>2, <1>4 DEF ShapeInv, PresenceTypeOK, ConnectionsOf
<1>7. FoundInv'
  BY Dropped DEF ShapeInv, FoundInv, Admitted, Is
<1>8. disputed' \subseteq PIDs
  BY DEF Drop, ShapeInv, PresenceTypeOK
<1> QED
  BY <1>1, <1>3, <1>5, <1>6, <1>7, <1>8
     DEF ShapeInv, PresenceTypeOK, LoginTypeOK, LoginType

LEMMA LoginStepShape ==
  ASSUME ShapeInv, OnlyLinked, TypeOK', LoginStep
  PROVE  ShapeInv'
<1>0. LoginTypeOK
  BY DEF ShapeInv, PresenceTypeOK
<1>1. LoginTypeOK'
  <2>1. TypeOK /\ LoginType
    BY <1>0 DEF LoginTypeOK, LoginType
  <2> QED
    BY <2>1, LoginTypeStep, LoginStepIsLogin DEF LoginTypeOK, LoginType
<1>2. FoundInv'
  BY <1>0, OneMoves
     DEF ShapeInv, FoundInv, SameLogin, MovedLogin, Admitted, Is
<1>3. UNCHANGED <<lost, lobby>>
  BY DEF LoginStep
<1>4. lost' \subseteq {c \in Callers : Registered(c)'}
  BY <1>0, <1>3, RegisteredKept DEF ShapeInv, PresenceTypeOK
<1>5. \A pid \in PIDs : lobby'[pid] # NoOne => lobby'[pid] \in ConnectionsOf(pid)'
  BY <1>0, <1>3, RegisteredKept DEF ShapeInv, PresenceTypeOK, ConnectionsOf
<1>6. disputed' \subseteq PIDs
  <2>1. \A c \in Callers : Disputes(c) => login'[c].pid \in PIDs
    BY <1>2 DEF Disputes, FoundInv, Admitted, Is
  <2> QED
    BY <2>1 DEF LoginStep, ShapeInv, PresenceTypeOK
<1> QED
  BY <1>1, <1>2, <1>3, <1>4, <1>5, <1>6 DEF ShapeInv, PresenceTypeOK

LEMMA ShapeStep ==
  ASSUME ShapeInv, OnlyLinked, TypeOK', [PresenceNext]_presenceVars
  PROVE  ShapeInv'
<1>1. ASSUME NEW c \in Callers, Lose(c) \/ JoinLobby(c) \/ LeaveLobby(c)
      PROVE  ShapeInv'
  <2>1. UNCHANGED allVars /\ Registered(c)
    BY <1>1 DEF Lose, JoinLobby, LeaveLobby, Live
  <2>2. LoginTypeOK' /\ FoundInv' /\ UNCHANGED login
    BY <2>1 DEF ShapeInv, PresenceTypeOK, LoginTypeOK, TypeOK, allVars, FoundInv,
                Is, Admitted
  <2>3. lost' \subseteq {d \in Callers : Registered(d)'}
    BY <1>1, <2>1, <2>2
       DEF Lose, JoinLobby, LeaveLobby, ShapeInv, PresenceTypeOK, Registered, Is
  <2>4. lobby' \in [PIDs -> Callers \union {NoOne}]
    BY <1>1 DEF Lose, JoinLobby, LeaveLobby, ShapeInv, PresenceTypeOK
  <2>5. \A pid \in PIDs : lobby'[pid] # NoOne =>
          lobby'[pid] = lobby[pid] \/ (lobby'[pid] = c /\ Player(c) = pid)
    BY <1>1 DEF Lose, JoinLobby, LeaveLobby, ShapeInv, PresenceTypeOK
  <2>6. \A pid \in PIDs : ConnectionsOf(pid)' = ConnectionsOf(pid)
    BY <2>2 DEF ConnectionsOf, Registered, Player, Is
  <2>7. \A pid \in PIDs : lobby'[pid] # NoOne => lobby'[pid] \in ConnectionsOf(pid)
    BY <2>1, <2>5 DEF ConnectionsOf, ShapeInv, PresenceTypeOK
  <2> QED
    BY <1>1, <2>2, <2>3, <2>4, <2>6, <2>7
       DEF Lose, JoinLobby, LeaveLobby, ShapeInv, PresenceTypeOK
<1>2. ASSUME NEW conns, Drop(conns) PROVE ShapeInv'
  BY <1>2, DropShape
<1>3. CASE UNCHANGED presenceVars
  BY <1>3 DEF presenceVars, ShapeInv, PresenceTypeOK, LoginTypeOK, TypeOK,
              Registered, Player, ConnectionsOf, Is, FoundInv, Admitted
<1> QED
  BY <1>1, <1>2, <1>3, LoginStepShape
     DEF PresenceNext, Close, Reap, KickPID, KickConnection

LEMMA ShapeInvariant == PresenceSpec => []ShapeInv
<1>1. PresenceInit /\ TypeOK => ShapeInv
  BY ShapeInit DEF PresenceInit, ShapeInv, PresenceTypeOK, LoginTypeOK, LoginType
<1>2. ShapeInv /\ OnlyLinked /\ TypeOK' /\ [PresenceNext]_presenceVars => ShapeInv'
  BY ShapeStep
<1> QED
  BY <1>1, <1>2, PresenceRunsResolver, TypeCorrect, FailClosed, PTL
     DEF PresenceSpec

\* The register, the lobbies and the lost connections are well formed; no
\* lobby stands under a connection that has ended, however connections are
\* closed, lost, reaped and kicked.
THEOREM PresenceTypeCorrect == PresenceSpec => []PresenceTypeOK
<1>1. ShapeInv => PresenceTypeOK
  BY DEF ShapeInv
<1> QED
  BY <1>1, ShapeInvariant, PTL

-----------------------------------------------------------------------------
(* A player keeps his lobby.  The code knows lobbies by PID; that nobody   *)
(* else can lose him his rests on the gate: an account that never slipped  *)
(* past it has one ticket or connection, however long the connection has   *)
(* been lost.                                                              *)

NoRival ==
  \A c, d \in Callers :
    /\ Admitted(c) /\ Admitted(d) /\ Player(c) = Player(d)
    /\ Player(c) \notin disputed
    => c = d

LEMMA RivalInit == PresenceInit => NoRival
BY DEF PresenceInit, LoginInit, NoRival, Admitted, Is, NoLogin

LEMMA RivalLogin ==
  ASSUME ShapeInv, OnlyLinked, NoRival, LoginStep
  PROVE  NoRival'
<1>0. LoginTypeOK
  BY DEF ShapeInv, PresenceTypeOK
<1>1. /\ disputed \subseteq disputed'
      /\ \A c \in Callers : Disputes(c) => login'[c].pid \in disputed'
  BY DEF LoginStep
<1>2. CASE \A d \in Callers : SameLogin(d)
  BY <1>1, <1>2 DEF NoRival, SameLogin, Admitted, Is, Player
<1>3. ASSUME NEW c \in Callers, MovedLogin(c),
             \A d \in Callers \ {c} : SameLogin(d)
      PROVE  NoRival'
  <2> SUFFICES ASSUME Admitted(c)', Player(c)' \notin disputed',
                      NEW d \in Callers \ {c}, Admitted(d)', Player(d)' = Player(c)'
               PROVE  FALSE
    BY <1>1, <1>3 DEF NoRival, SameLogin, Admitted, Is, Player
  <2>1. Admitted(d) /\ Player(d) = Player(c)'
    BY <1>3 DEF SameLogin, Admitted, Is, Player
  <2>2. ~Disputes(c)
    BY <1>1 DEF Player
  <2>3. CASE Is(c, "granted")
    BY <1>1, <1>3, <2>1, <2>3 DEF MovedLogin, NoRival, Admitted, Is, Player
  <2>4. CASE ~Is(c, "granted")
    <3>1. login'[c].step = "granted"
      BY <1>3, <2>4 DEF MovedLogin, Admitted, Is
    <3>2. Is(c, "check") /\ Player(c)' = Player(c) /\ Allowed(c, Player(c))
      BY <1>3, <2>2, <2>4, <3>1 DEF MovedLogin, Disputes, Admitted, Is, Player
    <3>3. ~Is(d, "granted") /\ ~Is(d, "online")
      BY <2>1, <2>2, <2>4, <3>1, <3>2 DEF Disputes, Allowed, Elsewhere, Player
    <3> QED
      BY <2>1, <3>3 DEF Admitted
  <2> QED
    BY <2>3, <2>4
<1> QED
  BY <1>0, <1>2, <1>3, OneMoves

LEMMA RivalStep ==
  ASSUME ShapeInv, OnlyLinked, NoRival, [PresenceNext]_presenceVars
  PROVE  NoRival'
<1>1. CASE UNCHANGED <<login, disputed>>
  BY <1>1 DEF NoRival, Admitted, Is, Player
<1>2. ASSUME NEW conns, Drop(conns) PROVE NoRival'
  BY <1>2, Dropped DEF Drop, NoRival, Admitted, Is, Player
<1> QED
  BY <1>1, <1>2, RivalLogin
     DEF PresenceNext, Lose, JoinLobby, LeaveLobby, Close, Reap, KickPID,
         KickConnection, presenceVars, allVars

\* A player whose account never slipped past the gate keeps the lobby he has
\* entered until he leaves it or his own connection ends, whoever else comes,
\* crashes, is reaped or is kicked.
THEOREM LobbiesKept == PresenceSpec => LobbyKept
<1> DEFINE Keeps(c) ==
      /\ Live(c) /\ lobby[Player(c)] = c
      /\ Player(c) \notin disputed
      /\ Registered(c)'
      => lobby'[Player(c)] = c \/ LeaveLobby(c)
<1>1. ASSUME ShapeInv, NoRival, [PresenceNext]_presenceVars, NEW c \in Callers
      PROVE  Keeps(c)
  <2> SUFFICES ASSUME Live(c), lobby[Player(c)] = c, Player(c) \notin disputed,
                      Registered(c)', ~LeaveLobby(c)
               PROVE  lobby'[Player(c)] = c
    OBVIOUS
  <2>1. \A d \in Callers : Registered(d) /\ Player(d) = Player(c) => d = c
    BY <1>1 DEF NoRival, Admitted, Registered, Live
  <2>2. Player(c) \in PIDs
    BY <1>1 DEF ShapeInv, FoundInv, Live, Registered, Player, Admitted
  <2>3. CASE UNCHANGED lobby
    BY <2>3
  <2>4. ASSUME NEW d \in Callers, JoinLobby(d) \/ LeaveLobby(d)
        PROVE  lobby'[Player(c)] = c
    BY <1>1, <2>1, <2>2, <2>4
       DEF JoinLobby, LeaveLobby, Live, ShapeInv, PresenceTypeOK
  <2>5. ASSUME NEW conns, Drop(conns),
               \A d \in conns : d \in Callers /\ Registered(d)
        PROVE  lobby'[Player(c)] = c
    <3>1. c \notin conns
      BY <1>1, <2>5, Dropped DEF Registered, Admitted, Is
    <3> QED
      BY <2>1, <2>2, <2>5, <3>1 DEF Drop, OnDisconnect
  <2>6. ASSUME NEW d \in Callers, Close(d) \/ Reap(d) \/ KickConnection(d)
        PROVE  lobby'[Player(c)] = c
    BY <1>1, <2>5, <2>6
       DEF Close, Live, Reap, KickConnection, ShapeInv, PresenceTypeOK
  <2>7. ASSUME NEW pid \in PIDs, KickPID(pid) PROVE lobby'[Player(c)] = c
    BY <2>5, <2>7 DEF KickPID, ConnectionsOf
  <2> QED
    BY <1>1, <2>3, <2>4, <2>6, <2>7 DEF PresenceNext, LoginStep, Lose, presenceVars
<1>2. ShapeInv /\ NoRival /\ [PresenceNext]_presenceVars =>
        [\A c \in Callers : Keeps(c)]_presenceVars
  BY <1>1
<1>3. ShapeInv /\ OnlyLinked /\ NoRival /\ [PresenceNext]_presenceVars => NoRival'
  BY RivalStep
<1> QED
  BY <1>2, <1>3, ShapeInvariant, RivalInit, PresenceRunsResolver, FailClosed, PTL
     DEF PresenceSpec, LobbyKept
=============================================================================
