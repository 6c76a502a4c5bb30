---------------------------- MODULE LoginProofs ----------------------------
(***************************************************************************)
(* Theorems about Login, for any number of logins, consoles and accounts.  *)
(***************************************************************************)
EXTENDS Login, NsaResolverProofs

-----------------------------------------------------------------------------
(* Logins drive the resolver as its specification allows, so that what is  *)
(* proved of the resolver holds of it here.                                *)

LEMMA ResolverStep == [LoginNext]_allVars => [Next]_vars
<1> SUFFICES ASSUME [LoginNext]_allVars PROVE [Next]_vars
  OBVIOUS
<1>1. ASSUME NEW c \in Callers, Attempt(c) PROVE [Next]_vars
  <2>1. ASSUME NEW nsa \in NSAs, NSALogin(c, nsa) PROVE Next
    BY <2>1 DEF NSALogin, Next
  <2> QED
    BY <1>1, <2>1 DEF Attempt, Anonymous, TokenLogin, NumberLogin
<1>2. ASSUME NEW c \in Callers, Serve(c) PROVE [Next]_vars
  BY <1>2 DEF Serve, Resolved, nextendoOnlineCheck, Next
<1>3. ASSUME NEW c \in Callers, Connect(c) \/ Disconnect(c) PROVE [Next]_vars
  BY <1>3 DEF Connect, Disconnect
<1>4. ASSUME NEW pid \in PIDs, Lapse(pid) \/ Bar(pid) \/ Unbar(pid)
      PROVE  [Next]_vars
  BY <1>4 DEF Lapse, Bar, Unbar
<1>5. CASE World
  BY <1>5 DEF Next
<1>6. CASE UNCHANGED allVars
  BY <1>6 DEF allVars, vars
<1> QED
  BY <1>1, <1>2, <1>3, <1>4, <1>5, <1>6 DEF LoginNext

LEMMA ResolverImplemented == LoginSpec => Spec
<1>1. LoginInit => Init
  BY DEF LoginInit
<1> QED
  BY <1>1, ResolverStep, PTL DEF LoginSpec, Spec

-----------------------------------------------------------------------------
(* Type correctness.                                                       *)

LoginType ==
  /\ login \in [Callers -> LoginState]
  /\ lapsed \subseteq PIDs
  /\ barred \subseteq PIDs

\* The three ways in which a step moves a login keep it well formed.
LEMMA MoveType ==
  ASSUME LoginType, NEW c \in Callers, NEW step \in Steps, NEW route \in Routes,
         NEW pid \in PIDs, NEW proven \in PIDs \union {NoPID}
  PROVE  /\ Enter(c, step, route, pid, proven) => login' \in [Callers -> LoginState]
         /\ Proceed(c, step) => login' \in [Callers -> LoginState]
         /\ Refuse(c) => login' \in [Callers -> LoginState]
<1> USE DEF LoginType, LoginState
<1>1. Enter(c, step, route, pid, proven) => login' \in [Callers -> LoginState]
  BY DEF Enter
<1>2. Proceed(c, step) => login' \in [Callers -> LoginState]
  BY DEF Proceed
<1>3. NoLogin \in LoginState
  BY DEF NoLogin, Steps, Routes
<1>4. Refuse(c) => login' \in [Callers -> LoginState]
  BY <1>3 DEF Refuse
<1> QED
  BY <1>1, <1>2, <1>4

LEMMA TokenPIDType ==
  ASSUME NEW token \in PIDs
  PROVE  tokenPID(token) \in PIDs \union {NoPID}
BY DEF tokenPID

LEMMA AnonymousType ==
  ASSUME LoginType, NEW c \in Callers, Anonymous(c)
  PROVE  LoginType'
<1>1. CASE Refuse(c)
  <2>1. login' \in [Callers -> LoginState]
    BY <1>1, MoveType DEF LoginType, Refuse, NoLogin, LoginState, Steps, Routes
  <2> QED
    BY <2>1 DEF Anonymous, LoginType
<1>2. ASSUME NEW pid \in PIDs, Enter(c, "granted", "name", pid, NoPID)
      PROVE  LoginType'
  <2>1. login' \in [Callers -> LoginState]
    BY <1>2, MoveType DEF Steps, Routes
  <2> QED
    BY <2>1 DEF Anonymous, LoginType
<1> QED
  BY <1>1, <1>2 DEF Anonymous

LEMMA LoginTypeInit == LoginInit => LoginType
BY DEF LoginInit, LoginType, NoLogin, LoginState, Steps, Routes

LEMMA LoginTypeStep == TypeOK /\ LoginType /\ [LoginNext]_allVars => LoginType'
<1> SUFFICES ASSUME TypeOK, LoginType, [LoginNext]_allVars PROVE LoginType'
  OBVIOUS
<1> USE DEF LoginType
<1>1. ASSUME NEW c \in Callers, Refuse(c), UNCHANGED <<lapsed, barred>>
      PROVE  LoginType'
  BY <1>1 DEF Refuse, NoLogin, LoginState, Steps, Routes
<1>2. ASSUME NEW c \in Callers, Attempt(c) PROVE LoginType'
  <2>1. ASSUME NEW pid \in PIDs, TokenLogin(c, pid) PROVE LoginType'
    <3>1. CASE Anonymous(c)
      BY <3>1, AnonymousType
    <3>2. CASE /\ tokenPID(pid) # NoPID
               /\ Enter(c, "check", "token", tokenPID(pid), tokenPID(pid))
               /\ UNCHANGED <<lapsed, barred>>
      BY <3>2, TokenPIDType, MoveType DEF Steps, Routes
    <3> QED
      BY <2>1, <3>1, <3>2 DEF TokenLogin
  <2>2. ASSUME NEW pid \in PIDs, NumberLogin(c, pid) PROVE LoginType'
    <3>1. PICK proven \in Proofs :
            Refuse(c) \/ Enter(c, "check", "number", pid, proven)
      BY <2>2 DEF NumberLogin
    <3>2. proven \in PIDs \union {NoPID}
      BY TokenPIDType DEF Proofs
    <3> QED
      BY <1>1, <2>2, <3>1, <3>2, MoveType DEF NumberLogin, Steps, Routes
  <2>3. ASSUME NEW nsa \in NSAs, NSALogin(c, nsa) PROVE LoginType'
    BY <2>3 DEF NSALogin, LoginState, Steps, Routes
  <2> QED
    BY <1>2, <2>1, <2>2, <2>3, AnonymousType DEF Attempt
<1>3. ASSUME NEW c \in Callers, Resolved(c) PROVE LoginType'
  <2>1. call[c] \in Call
    BY <1>3, HasCall DEF Resolved, Leave, At
  <2>2. CASE login' = [login EXCEPT ![c].step = "check", ![c].pid = call[c].pid]
    <3> DEFINE r == [login[c] EXCEPT !.step = "check", !.pid = call[c].pid]
    <3>1. r \in LoginState
      BY <2>1 DEF Call, LoginState, Steps
    <3>2. login' = [login EXCEPT ![c] = r]
      BY <2>2
    <3> QED
      BY <1>3, <3>1, <3>2 DEF Resolved
  <2> QED
    BY <1>1, <1>3, <2>2 DEF Resolved
<1>4. ASSUME NEW c \in Callers, nextendoOnlineCheck(c) PROVE LoginType'
  BY <1>1, <1>4 DEF nextendoOnlineCheck, Proceed, LoginState, Steps
<1>5. ASSUME NEW c \in Callers, Connect(c) PROVE LoginType'
  BY <1>5 DEF Connect, Proceed, LoginState, Steps
<1>6. ASSUME NEW c \in Callers, Disconnect(c) PROVE LoginType'
  BY <1>1, <1>6 DEF Disconnect
<1>7. ASSUME NEW pid \in PIDs, Lapse(pid) \/ Bar(pid) PROVE LoginType'
  BY <1>7 DEF Lapse, Bar
<1>8. ASSUME NEW pid \in PIDs, Unbar(pid) PROVE LoginType'
  BY <1>8 DEF Unbar, LoginState
<1>9. CASE UNCHANGED loginVars \/ UNCHANGED allVars
  BY <1>9 DEF loginVars, allVars
<1> QED
  BY <1>2, <1>3, <1>4, <1>5, <1>6, <1>7, <1>8, <1>9 DEF LoginNext, Serve

\* Logins, and the resolver below them, are always well formed.
THEOREM LoginTypeCorrect == LoginSpec => []LoginTypeOK
<1>1. TypeOK /\ LoginType => LoginTypeOK
  BY DEF LoginType, LoginTypeOK
<1> QED
  BY <1>1, ResolverImplemented, TypeCorrect, LoginTypeInit, LoginTypeStep, PTL
     DEF LoginSpec

-----------------------------------------------------------------------------
(* Identity.  A login that waits for the resolver waits for its own call;  *)
(* one that has found its PID is bound to it by the route it came.         *)

IdentityInv ==
  \A c \in Callers :
    /\ Is(c, "resolving") =>
         /\ login[c].route = "nsa"
         /\ ~At(c, "idle")
         /\ call[c].nsa = login[c].nsa
    /\ Is(c, "check") \/ Is(c, "granted") \/ Is(c, "online") => Bound(login[c])

LEMMA IdentityInit == LoginInit => IdentityInv
BY DEF LoginInit, IdentityInv, Is, NoLogin

\* The links the account service ever made are never forgotten, and a call
\* keeps its NSA id until its result has been used.
LEMMA ResolverKeeps ==
  ASSUME TypeOK, [Next]_vars
  PROVE  /\ everLinked \subseteq everLinked'
         /\ \A c \in Callers :
              ~At(c, "idle") =>
                Leave(c) \/ (call'[c].nsa = call[c].nsa /\ call'[c].stage # "idle")
<1>1. everLinked \subseteq everLinked'
  BY DEF Next, Step, World, Resolve, Lookup, Acquire, Answer, Record, Release,
         Leave, Link, Unlink, Expire, vars
<1>2. ASSUME NEW c \in Callers, ~At(c, "idle"), ~Leave(c)
      PROVE  call'[c].nsa = call[c].nsa /\ call'[c].stage # "idle"
  <2>1. call[c] \in Call
    BY <1>2, HasCall
  <2>2. ASSUME NEW d \in Callers, Step(d)
        PROVE  call'[c].nsa = call[c].nsa /\ call'[c].stage # "idle"
    BY <1>2, <2>1, <2>2 DEF Step, Lookup, Acquire, Answer, Record, Release,
       Returned, TypeOK, Call, At
  <2>3. ASSUME NEW d \in Callers, Leave(d) \/ \E nsa \in NSAs : Resolve(d, nsa)
        PROVE  call'[c].nsa = call[c].nsa /\ call'[c].stage # "idle"
    BY <1>2, <2>1, <2>3 DEF Leave, Resolve, TypeOK, Call, At
  <2>4. CASE UNCHANGED call
    BY <1>2, <2>4 DEF At
  <2> QED
    BY <2>2, <2>3, <2>4 DEF Next, World, Expire, Link, Unlink, vars
<1> QED
  BY <1>1, <1>2

LEMMA IdentityStep ==
  LoginTypeOK /\ OnlyLinked /\ IdentityInv /\ [LoginNext]_allVars
    => IdentityInv'
<1> SUFFICES ASSUME LoginTypeOK, OnlyLinked, IdentityInv, [LoginNext]_allVars
             PROVE  IdentityInv'
  OBVIOUS
<1>1. TypeOK /\ LoginType /\ [Next]_vars
  BY ResolverStep DEF LoginTypeOK, LoginType
<1>2. everLinked \subseteq everLinked'
  BY <1>1, ResolverKeeps
<1>3. ASSUME NEW d \in Callers, login'[d] = login[d], ~Leave(d)
      PROVE  /\ Is(d, "resolving")' =>
                  /\ login'[d].route = "nsa"
                  /\ ~At(d, "idle")'
                  /\ call'[d].nsa = login'[d].nsa
             /\ Is(d, "check")' \/ Is(d, "granted")' \/ Is(d, "online")' =>
                  Bound(login[d])'
  BY <1>1, <1>2, <1>3, ResolverKeeps DEF IdentityInv, Is, At, Bound
<1> DEFINE Good(l) ==
      /\ l.step # "resolving"
      /\ l.step \in {"check", "granted", "online"} => Bound(l)
\* A step of login c that ends in a good state, and uses nobody else's call.
<1>4. ASSUME NEW c \in Callers, NEW l, Good(l), login' = [login EXCEPT ![c] = l],
             \A d \in Callers \ {c} : ~Leave(d)
      PROVE  IdentityInv'
  <2>1. login'[c] = l /\ \A d \in Callers \ {c} : login'[d] = login[d]
    BY <1>1, <1>4 DEF LoginType
  <2> QED
    BY <1>2, <1>3, <1>4, <2>1 DEF IdentityInv, Is, Bound
<1>5. Good(NoLogin)
  BY DEF NoLogin
<1>6. ASSUME UNCHANGED call PROVE \A d \in Callers : ~Leave(d)
  BY <1>1, <1>6 DEF Leave, At, NoCall, TypeOK
<1>7. ASSUME NEW c \in Callers, Refuse(c), UNCHANGED call PROVE IdentityInv'
  BY <1>4, <1>5, <1>6, <1>7 DEF Refuse
<1>8. ASSUME NEW c \in Callers, Attempt(c) PROVE IdentityInv'
  <2>1. ASSUME Anonymous(c) PROVE IdentityInv'
    <3>1. CASE Refuse(c)
      BY <1>7, <2>1, <3>1 DEF Anonymous, vars
    <3>2. ASSUME NEW pid \in PIDs, ~requireAccount,
                 Enter(c, "granted", "name", pid, NoPID)
          PROVE  IdentityInv'
      BY <1>4, <1>6, <2>1, <3>2 DEF Anonymous, Enter, Bound, vars
    <3> QED
      BY <2>1, <3>1, <3>2 DEF Anonymous
  <2>2. ASSUME NEW pid \in PIDs, TokenLogin(c, pid) PROVE IdentityInv'
    <3>1. CASE Enter(c, "check", "token", tokenPID(pid), tokenPID(pid))
               /\ UNCHANGED vars
      BY <1>4, <1>6, <3>1 DEF Enter, Bound, vars
    <3> QED
      BY <2>1, <2>2, <3>1 DEF TokenLogin
  <2>3. ASSUME NEW pid \in PIDs, NumberLogin(c, pid) PROVE IdentityInv'
    <3>1. CASE Refuse(c)
      BY <1>7, <2>3, <3>1 DEF NumberLogin, vars
    <3>2. ASSUME NEW proven, requireSignedToken => proven = pid,
                 Enter(c, "check", "number", pid, proven)
          PROVE  IdentityInv'
      BY <1>4, <1>6, <2>3, <3>2 DEF NumberLogin, Enter, Bound, vars
    <3> QED
      BY <2>3, <3>1, <3>2 DEF NumberLogin
  <2>4. ASSUME NEW nsa \in NSAs, NSALogin(c, nsa) PROVE IdentityInv'
    <3>1. \A d \in Callers : ~Leave(d)
      BY <1>1, <2>4 DEF NSALogin, Resolve, Leave, At, NoCall, TypeOK
    <3>2. /\ login'[c].step = "resolving" /\ login'[c].route = "nsa"
          /\ login'[c].nsa = nsa /\ ~At(c, "idle")' /\ call'[c].nsa = nsa
      BY <1>1, <2>4 DEF NSALogin, Resolve, LoginType, TypeOK, At
    <3>3. \A d \in Callers \ {c} : login'[d] = login[d]
      BY <1>1, <2>4 DEF NSALogin, LoginType
    <3> QED
      BY <1>3, <3>1, <3>2, <3>3 DEF IdentityInv, Is
  <2> QED
    BY <1>8, <2>1, <2>2, <2>3, <2>4 DEF Attempt
<1>9. ASSUME NEW c \in Callers, Resolved(c) PROVE IdentityInv'
  <2>1. \A d \in Callers \ {c} : ~Leave(d)
    BY <1>1, <1>9 DEF Resolved, Leave, At, NoCall, TypeOK
  <2>2. CASE Refuse(c)
    BY <1>4, <1>5, <2>1, <2>2 DEF Refuse
  <2>3. CASE /\ call[c].status = "nsaOK"
             /\ login' = [login EXCEPT ![c].step = "check", ![c].pid = call[c].pid]
    <3> DEFINE r == [login[c] EXCEPT !.step = "check", !.pid = call[c].pid]
    <3>1. login' = [login EXCEPT ![c] = r]
      BY <1>1, <2>3 DEF LoginType
    <3>2. <<call[c].nsa, call[c].pid>> \in everLinked
      BY <1>9, <2>3 DEF Resolved, Leave, OnlyLinked
    <3>3. login[c].route = "nsa" /\ login[c].nsa = call[c].nsa
      BY <1>9 DEF Resolved, IdentityInv
    <3>4. Good(r)
      BY <1>1, <3>2, <3>3 DEF LoginType, LoginState, Bound
    <3> QED
      BY <1>4, <2>1, <3>1, <3>4
  <2> QED
    BY <1>9, <2>2, <2>3 DEF Resolved
<1>10. ASSUME NEW c \in Callers, nextendoOnlineCheck(c) \/ Connect(c)
       PROVE  IdentityInv'
  <2>1. PICK step \in {"granted", "online"} : Refuse(c) \/ Proceed(c, step)
    BY <1>10 DEF nextendoOnlineCheck, Connect
  <2> DEFINE r == [login[c] EXCEPT !.step = step]
  <2>2. UNCHANGED call /\ Bound(login[c])
    BY <1>10 DEF nextendoOnlineCheck, Connect, vars, IdentityInv
  <2>3. Good(r)
    BY <1>1, <2>2 DEF Bound, LoginType, LoginState
  <2>4. CASE Proceed(c, step)
    BY <1>1, <1>4, <1>6, <2>2, <2>3, <2>4 DEF Proceed, LoginType
  <2> QED
    BY <1>7, <2>1, <2>2, <2>4
<1>11. ASSUME NEW c \in Callers, Disconnect(c) PROVE IdentityInv'
  BY <1>7, <1>11 DEF Disconnect, vars
<1>12. CASE UNCHANGED login /\ \A d \in Callers : ~Leave(d)
  BY <1>3, <1>12 DEF IdentityInv
<1>13. ASSUME NEW c \in Callers, Step(c), UNCHANGED loginVars PROVE IdentityInv'
  <2>1. \A d \in Callers : ~Leave(d)
    BY <1>1, <1>13 DEF Step, Lookup, Acquire, Answer, Record, Release, Returned,
       Leave, At, NoCall, TypeOK
  <2> QED
    BY <1>12, <1>13, <2>1 DEF loginVars
<1>14. ASSUME NEW pid \in PIDs, Lapse(pid) \/ Bar(pid) PROVE IdentityInv'
  BY <1>6, <1>12, <1>14 DEF Lapse, Bar, vars
<1>15. ASSUME NEW pid \in PIDs, Unbar(pid) PROVE IdentityInv'
  BY <1>1, <1>15 DEF Unbar, vars, IdentityInv, Is, Bound, LoginType, LoginState, At
<1>16. CASE World /\ UNCHANGED loginVars
  BY <1>6, <1>12, <1>16 DEF World, Expire, Link, Unlink, loginVars
<1>17. CASE UNCHANGED allVars
  BY <1>6, <1>12, <1>17 DEF allVars
<1> QED
  BY <1>8, <1>9, <1>10, <1>11, <1>13, <1>14, <1>15, <1>16, <1>17 DEF LoginNext, Serve

\* Whatever is required of logins, none is ever admitted under a PID other than
\* its credential stands for (main.go:178-261).
THEOREM IdentitiesBound == LoginSpec => []IdentityBound
<1>1. IdentityInv => IdentityBound
  BY DEF IdentityInv, IdentityBound, Admitted
<1>2. LoginTypeOK /\ OnlyLinked /\ IdentityInv /\ [LoginNext]_allVars
        => IdentityInv'
  BY IdentityStep
<1> QED
  BY <1>1, <1>2, ResolverImplemented, FailClosed, LoginTypeCorrect,
     IdentityInit, PTL DEF LoginSpec

-----------------------------------------------------------------------------
(* The online gate.  A login is granted only from the check, and the check *)
(* passes no account that is barred then.                                  *)

GateInv ==
  \A c \in Callers :
    /\ ~Is(c, "out") => login[c].barredAll \subseteq barred
    /\ Admitted(c) => login[c].pid \notin login[c].barredAll

\* The account service answers, and nobody comes in without an account.
Gated == requireAccount /\ ~GateFaults

LEMMA GateInit == LoginInit => GateInv
BY DEF LoginInit, GateInv, Is, Admitted, NoLogin

LEMMA GateStep ==
  Gated /\ LoginTypeOK /\ GateInv /\ [LoginNext]_allVars => GateInv'
<1> SUFFICES ASSUME Gated, LoginTypeOK, GateInv, [LoginNext]_allVars
             PROVE  GateInv'
  OBVIOUS
<1>1. login \in [Callers -> LoginState]
  BY DEF LoginTypeOK
<1> DEFINE Good(l) ==
      /\ l.step # "out" => l.barredAll \subseteq barred
      /\ l.step \in {"granted", "online"} => l.pid \notin l.barredAll
<1>2. ASSUME NEW c \in Callers, NEW l, Good(l), login' = [login EXCEPT ![c] = l],
             UNCHANGED barred
      PROVE  GateInv'
  BY <1>1, <1>2 DEF GateInv, Is, Admitted
<1>3. ASSUME NEW c \in Callers, Refuse(c), UNCHANGED barred PROVE GateInv'
  <2>1. Good(NoLogin)
    BY DEF NoLogin
  <2> QED
    BY <1>2, <1>3, <2>1 DEF Refuse
<1>4. ASSUME NEW c \in Callers, Attempt(c) PROVE GateInv'
  <2>1. ASSUME Anonymous(c) PROVE GateInv'
    BY <1>3, <2>1 DEF Anonymous, Gated
  <2>2. ASSUME NEW route, NEW pid, NEW proven,
               Enter(c, "check", route, pid, proven), UNCHANGED barred
        PROVE  GateInv'
    BY <1>2, <2>2 DEF Enter
  <2>3. ASSUME NEW pid \in PIDs, TokenLogin(c, pid) PROVE GateInv'
    BY <2>1, <2>2, <2>3 DEF TokenLogin
  <2>4. ASSUME NEW pid \in PIDs, NumberLogin(c, pid) PROVE GateInv'
    BY <1>3, <2>2, <2>4 DEF NumberLogin
  <2>5. ASSUME NEW nsa \in NSAs, NSALogin(c, nsa) PROVE GateInv'
    BY <1>2, <2>5 DEF NSALogin
  <2> QED
    BY <1>4, <2>1, <2>3, <2>4, <2>5 DEF Attempt
<1>5. ASSUME NEW c \in Callers, Resolved(c) PROVE GateInv'
  <2>1. CASE login' = [login EXCEPT ![c].step = "check", ![c].pid = call[c].pid]
    <3> DEFINE r == [login[c] EXCEPT !.step = "check", !.pid = call[c].pid]
    <3>1. login' = [login EXCEPT ![c] = r]
      BY <1>1, <2>1
    <3>2. Good(r)
      BY <1>1, <1>5 DEF Resolved, GateInv, Is, LoginState
    <3> QED
      BY <1>2, <1>5, <3>1, <3>2 DEF Resolved
  <2> QED
    BY <1>3, <1>5, <2>1 DEF Resolved
<1>6. ASSUME NEW c \in Callers, nextendoOnlineCheck(c) PROVE GateInv'
  <2>1. CASE Allowed(c, login[c].pid) /\ Proceed(c, "granted")
    <3> DEFINE r == [login[c] EXCEPT !.step = "granted"]
    <3>1. login' = [login EXCEPT ![c] = r]
      BY <1>1, <2>1 DEF Proceed
    <3>2. Good(r)
      BY <1>1, <1>6, <2>1
         DEF nextendoOnlineCheck, Allowed, GateInv, Is, LoginState
    <3> QED
      BY <1>2, <1>6, <3>1, <3>2 DEF nextendoOnlineCheck
  <2> QED
    BY <1>3, <1>6, <2>1 DEF nextendoOnlineCheck, Gated
<1>7. ASSUME NEW c \in Callers, Connect(c) PROVE GateInv'
  <2> DEFINE r == [login[c] EXCEPT !.step = "online"]
  <2>1. login' = [login EXCEPT ![c] = r]
    BY <1>1, <1>7 DEF Connect, Proceed
  <2>2. Good(r)
    BY <1>1, <1>7 DEF Connect, GateInv, Is, Admitted, LoginState
  <2> QED
    BY <1>2, <1>7, <2>1, <2>2 DEF Connect
<1>8. ASSUME NEW c \in Callers, Disconnect(c) PROVE GateInv'
  BY <1>3, <1>8 DEF Disconnect
<1>9. ASSUME NEW pid \in PIDs, Lapse(pid) \/ Bar(pid) PROVE GateInv'
  BY <1>9 DEF Lapse, Bar, GateInv, Is, Admitted
<1>10. ASSUME NEW pid \in PIDs, Unbar(pid) PROVE GateInv'
  <2>1. \A c \in Callers :
          /\ login'[c].step = login[c].step /\ login'[c].pid = login[c].pid
          /\ login'[c].barredAll = login[c].barredAll \ {pid}
    BY <1>1, <1>10 DEF Unbar, LoginState
  <2> QED
    BY <1>10, <2>1 DEF Unbar, GateInv, Is, Admitted
<1>11. CASE UNCHANGED loginVars \/ UNCHANGED allVars
  BY <1>11 DEF loginVars, allVars, GateInv, Is, Admitted
<1> QED
  BY <1>4, <1>5, <1>6, <1>7, <1>8, <1>9, <1>10, <1>11 DEF LoginNext, Serve

\* An account barred from before its login to after it is not admitted, by
\* any route (gates.go:9), as long as the account service answers.
THEOREM GateHolds ==
  ASSUME Gated
  PROVE  LoginSpec => []BarredStayOut
<1>1. GateInv => BarredStayOut
  BY DEF GateInv, BarredStayOut
<1>2. LoginTypeOK /\ GateInv /\ [LoginNext]_allVars => GateInv'
  BY GateStep
<1> QED
  BY <1>1, <1>2, LoginTypeCorrect, GateInit, PTL DEF LoginSpec
=============================================================================
