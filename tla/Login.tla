------------------------------- MODULE Login -------------------------------
(***************************************************************************)
(* A login to the auth server, from LoginEx (resolveUser in main.go) to    *)
(* the connection to the secure server it earns, and that connection's     *)
(* end.  The credential decides how the account is found: a signed token,  *)
(* the account's own PID, or the NSA id of a console, which NsaResolver    *)
(* maps to an account.  The account service then says whether the account  *)
(* may go online (nextendoOnlineCheck in gates.go).                        *)
(*                                                                         *)
(* Each login runs in a goroutine of its own.  resolveUser's local work is *)
(* one step; the calls to the account service are steps apart, and so is   *)
(* the console's connection: it brings a ticket, and asks nothing again.   *)
(***************************************************************************)
EXTENDS NsaResolver

CONSTANTS
  requireAccount,      \* NEXTENDO_REQUIRE_ACCOUNT
  requireSignedToken,  \* NEXTENDO_REQUIRE_SIGNED_TOKEN
  GateFaults           \* may an online-check go unanswered, or fail?

ASSUME LoginAssumption ==
  /\ requireAccount \in BOOLEAN
  /\ requireSignedToken \in BOOLEAN
  /\ GateFaults \in BOOLEAN

VARIABLES
  login,    \* login[c]: how far the login of c has come
  lapsed,   \* the accounts whose nx2 token has expired or been revoked
  barred    \* account service: the accounts disabled, unknown or unverified

loginVars == <<login, lapsed, barred>>
allVars   == <<nsaCache, nsaNegCache, nsaInflight, call, link, everLinked,
               login, lapsed, barred>>

Steps  == {"out", "resolving", "check", "granted", "online"}
\* How the PID of a login was found: by a token, by the bare number, through
\* the NSA id, or by hashing the name.
Routes == {"token", "number", "nsa", "name"}

\* proven is provenPID, nsa the number a console sent.  barredAll is history:
\* the accounts that have been barred ever since the login began.
NoNSA == "none"
LoginState == [step : Steps, route : Routes, nsa : NSAs \union {NoNSA},
               pid : PIDs \union {NoPID}, proven : PIDs \union {NoPID},
               barredAll : SUBSET PIDs]

NoLogin == [step |-> "out", route |-> "name", nsa |-> NoNSA, pid |-> NoPID,
            proven |-> NoPID, barredAll |-> {}]

LoginInit ==
  /\ Init
  /\ login = [c \in Callers |-> NoLogin]
  /\ lapsed = {}
  /\ barred = {}

Is(c, step) == login[c].step = step

\* Login c goes on to the given step with a PID it has found.
Enter(c, step, route, pid, proven) ==
  login' = [login EXCEPT ![c] =
              [step |-> step, route |-> route, nsa |-> NoNSA, pid |-> pid,
               proven |-> proven, barredAll |-> barred]]

Proceed(c, step) == login' = [login EXCEPT ![c].step = step]
Refuse(c)        == login' = [login EXCEPT ![c] = NoLogin]

-----------------------------------------------------------------------------
(* resolveUser.  nextendoPIDFromToken yields the account of a token that   *)
(* is signed and has not lapsed, and nothing for any other.                *)

tokenPID(token) == IF token \in lapsed THEN NoPID ELSE token

\* No account: the username is no number in range and proves nothing.  The
\* PID is a hash of the name, which may be any PID at all.
Anonymous(c) ==
  /\ Is(c, "out")
  /\ \/ requireAccount /\ Refuse(c)
     \/ /\ ~requireAccount
        /\ \E pid \in PIDs : Enter(c, "granted", "name", pid, NoPID)
  /\ UNCHANGED <<vars, lapsed, barred>>

\* Mutant: a token is proof enough, and the account is not checked.
TokenLoginUngated(c, pid) ==
  /\ Is(c, "out")
  /\ \/ /\ tokenPID(pid) # NoPID
        /\ Enter(c, "granted", "token", tokenPID(pid), tokenPID(pid))
        /\ UNCHANGED <<vars, lapsed, barred>>
     \/ /\ tokenPID(pid) = NoPID
        /\ Anonymous(c)

\* The username is a token of account pid.
TokenLogin(c, pid) ==
  /\ Is(c, "out")
  /\ \/ /\ tokenPID(pid) # NoPID
        /\ Enter(c, "check", "token", tokenPID(pid), tokenPID(pid))
        /\ UNCHANGED <<vars, lapsed, barred>>
     \/ /\ tokenPID(pid) = NoPID
        /\ Anonymous(c)

\* The token the extra data of a login carries, if any, proves one PID.
Proofs == {tokenPID(token) : token \in PIDs} \union {NoPID}

\* Mutant: the token has to be valid, whichever account it is for.
NumberLoginUnbound(c, pid) ==
  /\ Is(c, "out")
  /\ \E proven \in Proofs :
       \/ /\ requireSignedToken /\ proven = NoPID
          /\ Refuse(c)
       \/ /\ ~(requireSignedToken /\ proven = NoPID)
          /\ Enter(c, "check", "number", pid, proven)
  /\ UNCHANGED <<vars, lapsed, barred>>

\* The username is the PID of an account, below 1810000000.
NumberLogin(c, pid) ==
  /\ Is(c, "out")
  /\ \E proven \in Proofs :
       \/ /\ requireSignedToken /\ proven # pid
          /\ Refuse(c)
       \/ /\ ~(requireSignedToken /\ proven # pid)
          /\ Enter(c, "check", "number", pid, proven)
  /\ UNCHANGED <<vars, lapsed, barred>>

\* The username is the NSA id of a console.
NSALogin(c, nsa) ==
  /\ Is(c, "out")
  /\ Resolve(c, nsa)
  /\ login' = [login EXCEPT ![c] =
                 [step |-> "resolving", route |-> "nsa", nsa |-> nsa,
                  pid |-> NoPID, proven |-> NoPID, barredAll |-> barred]]
  /\ UNCHANGED <<lapsed, barred>>

\* resolveNSAtoPID has returned: nsaUnknown and nsaUnreachable both refuse.
Resolved(c) ==
  /\ Is(c, "resolving")
  /\ Leave(c)
  /\ \/ /\ call[c].status = "nsaOK"
        /\ login' = [login EXCEPT ![c].step = "check", ![c].pid = call[c].pid]
     \/ /\ call[c].status # "nsaOK"
        /\ Refuse(c)
  /\ UNCHANGED <<lapsed, barred>>

Elsewhere(c, pid) == \E d \in Callers \ {c} : Is(d, "online") /\ login[d].pid = pid
Allowed(c, pid)   == pid \notin barred /\ ~Elsewhere(c, pid)

\* The account service refuses an account that is barred or that the
\* monitoring shows online already.  Without an answer, or with one that is no
\* JSON, the code allows; the status of an answer is not looked at, so that an
\* error told in JSON, which has no "allow", refuses whoever it is.
nextendoOnlineCheck(c) ==
  /\ Is(c, "check")
  /\ \/ (Allowed(c, login[c].pid) \/ GateFaults) /\ Proceed(c, "granted")
     \/ (~Allowed(c, login[c].pid) \/ GateFaults) /\ Refuse(c)
  /\ UNCHANGED <<vars, lapsed, barred>>

-----------------------------------------------------------------------------
(* The console, with the ticket of its login, and the world.               *)

Connect(c) ==
  /\ Is(c, "granted")
  /\ Proceed(c, "online")
  /\ UNCHANGED <<vars, lapsed, barred>>

\* The connection ends, or the ticket is never used.
Disconnect(c) ==
  /\ Is(c, "online") \/ Is(c, "granted")
  /\ Refuse(c)
  /\ UNCHANGED <<vars, lapsed, barred>>

Lapse(pid) ==
  /\ pid \notin lapsed
  /\ lapsed' = lapsed \union {pid}
  /\ UNCHANGED <<vars, login, barred>>

Bar(pid) ==
  /\ pid \notin barred
  /\ barred' = barred \union {pid}
  /\ UNCHANGED <<vars, login, lapsed>>

Unbar(pid) ==
  /\ pid \in barred
  /\ barred' = barred \ {pid}
  /\ login' = [c \in Callers |-> [login[c] EXCEPT !.barredAll = @ \ {pid}]]
  /\ UNCHANGED <<vars, lapsed>>

-----------------------------------------------------------------------------
\* One step of the auth server for login c.
Serve(c) ==
  \/ Step(c) /\ UNCHANGED loginVars
  \/ Resolved(c)
  \/ nextendoOnlineCheck(c)

Attempt(c) ==
  \/ Anonymous(c)
  \/ \E pid \in PIDs : TokenLogin(c, pid) \/ NumberLogin(c, pid)
  \/ \E nsa \in NSAs : NSALogin(c, nsa)

LoginNext ==
  \/ \E c \in Callers : Attempt(c) \/ Serve(c) \/ Connect(c) \/ Disconnect(c)
  \/ \E pid \in PIDs : Lapse(pid) \/ Bar(pid) \/ Unbar(pid)
  \/ World /\ UNCHANGED loginVars

LoginSpec == LoginInit /\ [][LoginNext]_allVars

-----------------------------------------------------------------------------
\* Every login is at some step with the PID it has got so far, above a well-formed
\* resolver (main.go:178-261).
LoginTypeOK ==
  /\ TypeOK
  /\ login \in [Callers -> LoginState]
  /\ lapsed \subseteq PIDs
  /\ barred \subseteq PIDs

Admitted(c) == Is(c, "granted") \/ Is(c, "online")

\* What ties a login to its PID, by the route on which the PID was found.
Bound(l) ==
  /\ l.route = "token" => l.proven = l.pid
  /\ l.route = "number" /\ requireSignedToken => l.proven = l.pid
  /\ l.route = "nsa" => <<l.nsa, l.pid>> \in everLinked
  /\ l.route = "name" => ~requireAccount

\* No route admits a login under a PID other than its credential stands for:
\* a token that of its account, a number one that a token proves if those are
\* required, an NSA id the account it was linked to, a name none at all if
\* accounts are required (main.go:178-261, gates.go:93-142).  The NSA id is the
\* console's claim and no proof: under requireSignedToken main.go:353-354
\* promises that only a signed token is accepted, and the code keeps the
\* consoles all the same (main.go:212-214).
IdentityBound ==
  \A c \in Callers : Admitted(c) => Bound(login[c])

\* An account that is barred from before its login to after it is not
\* admitted, by whatever route its PID was found (gates.go:9), as long as the
\* account service answers.
BarredStayOut ==
  \A c \in Callers : Admitted(c) => login[c].pid \notin login[c].barredAll

\* "Un seul endroit a la fois" (gates.go:8): no account is online twice.
OnePlace ==
  \A c, d \in Callers :
    Is(c, "online") /\ Is(d, "online") /\ login[c].pid = login[d].pid => c = d
=============================================================================
