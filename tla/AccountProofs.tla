---------------------------- MODULE AccountProofs ----------------------------
(***************************************************************************)
(* Proofs about AccountService, for any users, passwords, tokens, requests *)
(* and routes.                                                             *)
(*                                                                         *)
(* The argument: an account stays, and once its owner has chosen the       *)
(* password it is never marked for a reset again (Stable).  What a request *)
(* has learnt of an account therefore stays true until its last statement. *)
(*                                                                         *)
(* The second part proves that AccountService implements AccountContract:  *)
(* every statement of a request is a step of the contract or changes       *)
(* nothing it speaks of.  An arrival begins the request or is refused; the *)
(* statement that finds the session, or compares the password, gains its   *)
(* rights from the accounts of that moment; a statement that creates a     *)
(* session or replaces a password uses them; any other answer ends the     *)
(* request.                                                                *)
(***************************************************************************)
EXTENDS AccountService, TLAPS

USE RoutesAssumption, NullsAssumption

\* Which statements a route executes, and with which arguments.
Placed(q) ==
    /\ q.pc = "getSession" => q.op \in {"session", "reset", "ready"}
    /\ q.pc = "deleteSession" => q.op = "logout"
    /\ q.pc \in {"getSession", "deleteSession"} => q.token \in Tokens
    /\ q.pc = "account" => q.op \in {"login", "google", "reset"}
    /\ q.pc = "insertSession" => q.op \in {"login", "google"}
    /\ q.pc = "update" => q.op = "reset"
    /\ q.pc = "workspaces" => q.op \in {"login", "session", "reset"}
    /\ q.pc \in {"userExists", "insertUser"} => q.op = "provision"
    /\ q.pc \in {"account", "insertSession", "update", "workspaces",
                 "userExists", "insertUser"} => q.user \in Users
    /\ (q.pc = "account" /\ q.op = "reset") \/ q.pc \in {"update", "userExists", "insertUser"}
          => q.new \in Passwords
    /\ q.pc = "account" /\ q.op = "login" => q.current \in Passwords
    /\ q.pc # "done" => q.status = "none"
    /\ q.status = "ok" /\ q.op \in {"ready", "provision"} => q.user \in Users

\* What a request has learnt of an account, or done to it, is still so.
Grounded(q) ==
    /\ q.pc \in {"insertSession", "update"} \/ (q.pc = "account" /\ q.op = "reset")
          => HasAccount(q.user)
    /\ q.op = "ready" /\ q.status = "ok" =>
          HasAccount(q.user) /\ ~mustReset[q.user]
    /\ q.op = "provision" /\ q.status = "ok" =>
          HasAccount(q.user) /\ (mustReset[q.user] => password[q.user] = q.new)

Provisioned(q) == q.op = "provision" /\ q.status = "ok"

OneWinner ==
    \A r \in Requests : \A s \in Requests \ {r} :
        Provisioned(req[r]) /\ Provisioned(req[s]) => req[s].user # req[r].user

\* The inductive invariant.
Inv ==
    /\ TypeOK
    /\ OneWinner
    /\ \A r \in Requests : Placed(req[r]) /\ Grounded(req[r])

\* What a step may do to the accounts others know.
Stable ==
    \A u \in Users : HasAccount(u) =>
        /\ HasAccount(u)'
        /\ mustReset'[u] => mustReset[u] /\ password'[u] = password[u]

-----------------------------------------------------------------------------
(* The general step *)

\* The accounts are sound after it, and the one request it serves is.
LEMMA RequestStep ==
    ASSUME Inv, Stable, TypeOK',
           NEW r \in Requests, \A s \in Requests \ {r} : req'[s] = req[s],
           (Placed(req[r]) /\ Grounded(req[r]))',
           Provisioned(req[r])' => ~HasAccount(req'[r].user)
    PROVE  Inv'
<1>1. ASSUME NEW s \in Requests \ {r}
      PROVE  (Placed(req[s]) /\ Grounded(req[s]))'
  <2>1. Placed(req[s]) /\ Grounded(req[s]) /\ req'[s] = req[s]
    BY DEF Inv
  <2>2. Placed(req[s])'
    BY <2>1 DEF Placed
  <2>3. Grounded(req[s])'
    BY <2>1 DEF Grounded, Placed, Stable
  <2>4. QED BY <2>2, <2>3
<1>2. ASSUME NEW s \in Requests \ {r}, Provisioned(req[s])', Provisioned(req[r])'
      PROVE  req'[s].user # req'[r].user
  <2>1. req'[s] = req[s] /\ Provisioned(req[s])
    BY <1>2 DEF Provisioned
  <2>2. HasAccount(req[s].user)
    BY <2>1 DEF Inv, Grounded, Provisioned
  <2>3. QED BY <1>2, <2>1, <2>2
<1>3. OneWinner'
  <2> SUFFICES ASSUME NEW a \in Requests, NEW b \in Requests \ {a},
                      Provisioned(req[a])', Provisioned(req[b])'
               PROVE  req'[b].user # req'[a].user
    BY DEF OneWinner
  <2>1. CASE a = r \/ b = r
    BY <1>2, <2>1
  <2>2. CASE a # r /\ b # r
    BY <2>2 DEF Inv, OneWinner, Provisioned
  <2>3. QED BY <2>1, <2>2
<1>4. QED BY <1>1, <1>3 DEF Inv

\* The step of a request that leaves the tables alone.
LEMMA ReadingStep ==
    ASSUME Inv, UNCHANGED tables, NEW r \in Requests, NEW q \in Request,
           req' = [req EXCEPT ![r] = q], Placed(q), Grounded(q), ~Provisioned(q)
    PROVE  Inv'
<1> USE DEF tables
<1>1. TypeOK'
  BY DEF Inv, TypeOK, HasAccount
<1>2. Stable
  BY DEF Stable, HasAccount
<1>3. req'[r] = q /\ \A s \in Requests \ {r} : req'[s] = req[s]
  BY DEF Inv, TypeOK
<1>4. (Placed(req[r]) /\ Grounded(req[r]))'
  BY <1>3 DEF Placed, Grounded, HasAccount
<1>5. ~Provisioned(req[r])'
  BY <1>3 DEF Provisioned
<1>6. QED BY <1>1, <1>2, <1>3, <1>4, <1>5, RequestStep

LEMMA RejectKeeps ==
    ASSUME Inv, NEW r \in Requests, NEW status \in Statuses, Reject(r, status),
           status = "ok" => req[r].op \notin {"ready", "provision"}
    PROVE  Inv'
<1> DEFINE q == [req[r] EXCEPT !.pc = "done", !.status = status]
<1>1. req[r] \in Request
  BY DEF Inv, TypeOK
<1>2. req' = [req EXCEPT ![r] = q] /\ UNCHANGED tables
  BY <1>1 DEF Reject, Answer, Inv, TypeOK
<1>3. q \in Request /\ q.pc = "done" /\ q.op = req[r].op /\ q.status = status
  BY <1>1 DEF Request
<1> HIDE DEF q
<1>4. Placed(q) /\ Grounded(q) /\ ~Provisioned(q)
  BY <1>3 DEF Placed, Grounded, Provisioned
<1>5. QED BY <1>2, <1>3, <1>4, ReadingStep

-----------------------------------------------------------------------------
(* Arrivals *)

\* The record of a request that has executed no statement yet.
Arriving(q) ==
    /\ q \in Request /\ Placed(q)
    /\ q.pc \in {"account", "getSession", "deleteSession", "userExists", "done"}
    /\ q.pc = "account" => q.op # "reset"
    /\ q.status = "ok" => q.op \in {"session", "logout"}

LEMMA IdleIsRequest ==
    /\ Idle \in Request
    /\ Idle.status = "none" /\ Idle.user = NoUser /\ Idle.token = NoToken
    /\ Idle.current = NoPassword /\ Idle.new = NoPassword
BY DEF Idle, Request, AllRoutes, Statuses

LEMMA CookieArrives ==
    ASSUME Inv, NEW r \in Requests, NEW call \in Request, WithCookie(r, call),
           call.status = "none",
           \/ call.pc = "getSession" /\ call.op \in {"session", "reset", "ready"}
           \/ call.pc = "deleteSession" /\ call.op = "logout"
    PROVE  \E q : Start(r, q) /\ Arriving(q)
<1>1. PICK t \in issued \cup {NoToken} :
         Start(r, IF t = NoToken
                  THEN Refused(call, IF call.op \in {"session", "logout"}
                                     THEN "ok" ELSE "unauthorized")
                  ELSE [call EXCEPT !.token = t])
  BY DEF WithCookie
<1>2. issued \subseteq Tokens
  BY DEF Inv, TypeOK
<1>3. CASE t = NoToken
  <2> DEFINE q == [call EXCEPT !.pc = "done", !.status =
                      IF call.op \in {"session", "logout"} THEN "ok" ELSE "unauthorized"]
  <2>1. Start(r, q)
    BY <1>1, <1>3 DEF Refused
  <2>2. /\ q \in Request /\ q.pc = "done" /\ q.op = call.op
        /\ q.status = "ok" => call.op \in {"session", "logout"}
    <3> DEFINE status == IF call.op \in {"session", "logout"} THEN "ok" ELSE "unauthorized"
    <3>1. status \in Statuses /\ (status = "ok" => call.op \in {"session", "logout"})
      BY DEF Statuses
    <3>2. q = [call EXCEPT !.pc = "done", !.status = status]
      OBVIOUS
    <3> HIDE DEF status, q
    <3>3. q \in Request /\ q.pc = "done" /\ q.op = call.op /\ q.status = status
      BY <3>1, <3>2 DEF Request
    <3>4. QED BY <3>1, <3>3
  <2> HIDE DEF q
  <2>3. Placed(q)
    BY <2>2 DEF Placed
  <2>4. QED BY <2>1, <2>2, <2>3 DEF Arriving
<1>4. CASE t # NoToken
  <2> DEFINE q == [call EXCEPT !.token = t]
  <2>1. Start(r, q)
    BY <1>1, <1>4
  <2>2. t \in Tokens
    BY <1>2, <1>4
  <2>3. /\ q \in Request /\ q.token = t /\ q.pc = call.pc /\ q.op = call.op
        /\ q.status = "none"
    BY <2>2 DEF Request
  <2> HIDE DEF q
  <2>4. Placed(q)
    BY <2>2, <2>3 DEF Placed
  <2>5. QED BY <2>1, <2>3, <2>4 DEF Arriving
<1>5. QED BY <1>3, <1>4

\* Every arrival starts such a request.
LEMMA ArrivalsStart ==
    ASSUME Inv, NEW r \in Requests, Arrive(r)
    PROVE  \E q : Start(r, q) /\ Arriving(q)
<1> USE IdleIsRequest
<1>1. CASE Login(r)
  <2>1. PICK u \in Users, p \in Passwords \cup {NoPassword} :
           LET call == [Idle EXCEPT !.pc = "account", !.op = "login",
                                    !.user = u, !.current = p]
           IN Start(r, IF p = NoPassword THEN Refused(call, "badRequest") ELSE call)
    BY <1>1 DEF Login
  <2> DEFINE call == [Idle EXCEPT !.pc = "account", !.op = "login",
                                  !.user = u, !.current = p]
             q == IF p = NoPassword THEN Refused(call, "badRequest") ELSE call
  <2>2. call \in Request /\ call.pc = "account" /\ call.op = "login"
        /\ call.user = u /\ call.current = p /\ call.status = "none"
    BY DEF Request, Statements, AllRoutes
  <2>3. Start(r, q)
    BY <2>1
  <2> HIDE DEF call
  <2>4. CASE p = NoPassword
    <3>1. /\ q \in Request /\ q.pc = "done" /\ q.op = "login"
          /\ q.status = "badRequest"
      BY <2>2, <2>4 DEF Refused, Request, Statuses
    <3> HIDE DEF q
    <3>2. Placed(q)
      BY <3>1 DEF Placed
    <3>3. QED BY <2>3, <3>1, <3>2 DEF Arriving
  <2>5. CASE p # NoPassword
    <3>1. q = call
      BY <2>5
    <3>2. Placed(q)
      BY <2>2, <2>5, <3>1 DEF Placed
    <3>3. QED BY <2>2, <2>3, <3>1, <3>2 DEF Arriving
  <2>6. QED BY <2>4, <2>5
<1>2. CASE GoogleLogin(r)
  <2>1. PICK u \in Users :
           Start(r, [Idle EXCEPT !.pc = "account", !.op = "google", !.user = u])
    BY <1>2 DEF GoogleLogin
  <2> DEFINE q == [Idle EXCEPT !.pc = "account", !.op = "google", !.user = u]
  <2>2. q \in Request /\ q.pc = "account" /\ q.op = "google" /\ q.user = u
        /\ q.status = "none"
    BY DEF Request, Statements, AllRoutes
  <2>3. Start(r, q)
    BY <2>1
  <2> HIDE DEF q
  <2>4. Placed(q)
    BY <2>2 DEF Placed
  <2>5. QED BY <2>2, <2>3, <2>4 DEF Arriving
<1>3. CASE Session(r)
  <2> DEFINE q == [Idle EXCEPT !.pc = "getSession", !.op = "session"]
  <2>1. q \in Request /\ q.pc = "getSession" /\ q.op = "session" /\ q.status = "none"
    BY DEF Request, Statements, AllRoutes
  <2>2. WithCookie(r, q)
    BY <1>3 DEF Session
  <2> HIDE DEF q
  <2>3. QED BY <2>1, <2>2, CookieArrives
<1>4. CASE Ready(r)
  <2> DEFINE q == [Idle EXCEPT !.pc = "getSession", !.op = "ready"]
  <2>1. q \in Request /\ q.pc = "getSession" /\ q.op = "ready" /\ q.status = "none"
    BY DEF Request, Statements, AllRoutes
  <2>2. WithCookie(r, q)
    BY <1>4 DEF Ready
  <2> HIDE DEF q
  <2>3. QED BY <2>1, <2>2, CookieArrives
<1>5. CASE Logout(r)
  <2> DEFINE q == [Idle EXCEPT !.pc = "deleteSession", !.op = "logout"]
  <2>1. q \in Request /\ q.pc = "deleteSession" /\ q.op = "logout" /\ q.status = "none"
    BY DEF Request, Statements, AllRoutes
  <2>2. WithCookie(r, q)
    BY <1>5 DEF Logout
  <2> HIDE DEF q
  <2>3. QED BY <2>1, <2>2, CookieArrives
<1>6. CASE ResetPassword(r)
  <2>1. PICK c \in Passwords \cup {NoPassword}, n \in Passwords \cup {NoPassword} :
           WithCookie(r, [Idle EXCEPT !.pc = "getSession", !.op = "reset",
                                      !.current = c, !.new = n])
    BY <1>6 DEF ResetPassword
  <2> DEFINE q == [Idle EXCEPT !.pc = "getSession", !.op = "reset",
                               !.current = c, !.new = n]
  <2>2. q \in Request /\ q.pc = "getSession" /\ q.op = "reset" /\ q.status = "none"
    BY DEF Request, Statements, AllRoutes
  <2>3. WithCookie(r, q)
    BY <2>1
  <2> HIDE DEF q
  <2>4. QED BY <2>2, <2>3, CookieArrives
<1>7. CASE Provision(r)
  <2>1. PICK u \in Users, p \in Passwords :
           Start(r, [Idle EXCEPT !.pc = "userExists", !.op = "provision",
                                 !.user = u, !.new = p])
    BY <1>7 DEF Provision
  <2> DEFINE q == [Idle EXCEPT !.pc = "userExists", !.op = "provision",
                               !.user = u, !.new = p]
  <2>2. q \in Request /\ q.pc = "userExists" /\ q.op = "provision" /\ q.user = u
        /\ q.new = p /\ q.status = "none"
    BY DEF Request, Statements, AllRoutes
  <2>3. Start(r, q)
    BY <2>1
  <2> HIDE DEF q
  <2>4. Placed(q)
    BY <2>2 DEF Placed
  <2>5. QED BY <2>2, <2>3, <2>4 DEF Arriving
<1>8. QED BY <1>1, <1>2, <1>3, <1>4, <1>5, <1>6, <1>7 DEF Arrive

LEMMA ArriveKeeps ==
    ASSUME Inv, NEW r \in Requests, Arrive(r)
    PROVE  Inv'
<1>1. PICK q : Start(r, q) /\ Arriving(q)
  BY ArrivalsStart
<1>2. q \in Request /\ req' = [req EXCEPT ![r] = q] /\ UNCHANGED tables
  BY <1>1 DEF Start, Arriving
<1>3. Placed(q) /\ Grounded(q) /\ ~Provisioned(q)
  BY <1>1 DEF Arriving, Grounded, Provisioned
<1>4. QED BY <1>2, <1>3, ReadingStep

-----------------------------------------------------------------------------
(* Statements that leave the tables alone *)

\* A request moves on to another statement, having learnt what that one needs.
LEMMA ContinueKeeps ==
    ASSUME Inv, UNCHANGED tables, NEW r \in Requests, NEW q \in Request,
           req' = [req EXCEPT ![r] = q], q.status = "none", Placed(q), Grounded(q)
    PROVE  Inv'
BY ReadingStep DEF Provisioned

\* GetSession finds a user who has an account.
LEMMA SessionUser ==
    ASSUME Inv, NEW t \in Tokens, session[t] # NoUser
    PROVE  session[t] \in Users /\ HasAccount(session[t])
BY DEF Inv, TypeOK

\* What is known of a request that executes a statement.
LEMMA Executing ==
    ASSUME Inv, NEW r \in Requests, req[r].pc \in Statements
    PROVE  /\ req[r] \in Request /\ Placed(req[r]) /\ Grounded(req[r])
           /\ req[r].status = "none"
BY DEF Inv, TypeOK, Placed, Statements

LEMMA ReadSessionKeeps ==
    ASSUME Inv, NEW r \in Requests, ReadSession(r)
    PROVE  Inv'
<1> DEFINE u == session[req[r].token]
           q == [req[r] EXCEPT !.pc = "workspaces", !.user = u, !.flag = mustReset[u]]
<1>1. req[r].pc = "getSession" /\ req[r].op = "session"
  BY DEF ReadSession
<1>2. req[r] \in Request /\ req[r].status = "none" /\ req[r].token \in Tokens
  BY <1>1, Executing DEF Placed, Statements
<1>3. CASE u = NoUser /\ Reject(r, "ok")
  BY <1>1, <1>3, RejectKeeps DEF Statuses
<1>4. CASE u # NoUser /\ req' = [req EXCEPT ![r] = q] /\ UNCHANGED tables
  <2>1. u \in Users /\ mustReset[u] \in BOOLEAN
    BY <1>2, <1>4, SessionUser DEF Inv, TypeOK
  <2> HIDE DEF u
  <2>2. /\ q \in Request /\ q.pc = "workspaces" /\ q.op = "session"
        /\ q.user = u /\ q.status = "none"
    BY <1>1, <1>2, <2>1 DEF Request, Statements
  <2> HIDE DEF q
  <2>3. Placed(q) /\ Grounded(q)
    BY <2>1, <2>2 DEF Placed, Grounded
  <2>4. QED BY <1>4, <2>2, <2>3, ContinueKeeps
<1>5. QED BY <1>3, <1>4, <1>2 DEF ReadSession, Inv, TypeOK

LEMMA RequireSessionKeeps ==
    ASSUME Inv, NEW r \in Requests, RequireSession(r)
    PROVE  Inv'
<1> DEFINE u == session[req[r].token]
           q == [req[r] EXCEPT !.pc = "account", !.user = u, !.flag = mustReset[u]]
<1>1. req[r].pc = "getSession" /\ req[r].op = "reset"
  BY DEF RequireSession
<1>2. req[r] \in Request /\ req[r].status = "none" /\ req[r].token \in Tokens
  BY <1>1, Executing DEF Placed, Statements
<1>3. CASE Reject(r, "unauthorized") \/ Reject(r, "badRequest")
  BY <1>3, RejectKeeps DEF Statuses
<1>4. CASE /\ u # NoUser /\ req[r].new # NoPassword
           /\ req' = [req EXCEPT ![r] = q] /\ UNCHANGED tables
  <2>1. u \in Users /\ HasAccount(u) /\ mustReset[u] \in BOOLEAN
    BY <1>2, <1>4, SessionUser DEF Inv, TypeOK
  <2>2. req[r].new \in Passwords
    BY <1>2, <1>4 DEF Request
  <2> HIDE DEF u
  <2>3. /\ q \in Request /\ q.pc = "account" /\ q.op = "reset"
        /\ q.user = u /\ q.new = req[r].new /\ q.status = "none"
    BY <1>1, <1>2, <2>1 DEF Request, Statements
  <2> HIDE DEF q
  <2>4. Placed(q) /\ Grounded(q)
    BY <2>1, <2>2, <2>3 DEF Placed, Grounded
  <2>5. QED BY <1>4, <2>3, <2>4, ContinueKeeps
<1>5. QED BY <1>3, <1>4, <1>2 DEF RequireSession, Inv, TypeOK

LEMMA RequireReadySessionKeeps ==
    ASSUME Inv, NEW r \in Requests, RequireReadySession(r)
    PROVE  Inv'
<1> DEFINE u == session[req[r].token]
           q == [req[r] EXCEPT !.pc = "done", !.user = u, !.status = "ok"]
<1>1. req[r].pc = "getSession" /\ req[r].op = "ready"
  BY DEF RequireReadySession
<1>2. req[r] \in Request /\ req[r].token \in Tokens
  BY <1>1, Executing DEF Placed, Statements
<1>3. CASE Reject(r, "unauthorized") \/ Reject(r, "forbidden")
  BY <1>3, RejectKeeps DEF Statuses
<1>4. CASE /\ u # NoUser /\ ~mustReset[u]
           /\ req' = [req EXCEPT ![r] = q] /\ UNCHANGED tables
  <2>1. u \in Users /\ HasAccount(u)
    BY <1>2, <1>4, SessionUser
  <2> HIDE DEF u
  <2>2. /\ q \in Request /\ q.pc = "done" /\ q.op = "ready"
        /\ q.user = u /\ q.status = "ok"
    BY <1>1, <1>2, <2>1 DEF Request, Statuses
  <2> HIDE DEF q
  <2>3. Placed(q) /\ Grounded(q) /\ ~Provisioned(q)
    BY <1>4, <2>1, <2>2 DEF Placed, Grounded, Provisioned
  <2>4. QED BY <1>4, <2>2, <2>3, ReadingStep
<1>5. QED BY <1>3, <1>4, <1>2 DEF RequireReadySession, Inv, TypeOK

LEMMA AuthenticateUserKeeps ==
    ASSUME Inv, NEW r \in Requests, AuthenticateUser(r)
    PROVE  Inv'
<1> DEFINE q == [req[r] EXCEPT !.pc = "insertSession", !.flag = mustReset[req[r].user]]
<1>1. req[r].pc = "account" /\ req[r].op \in {"login", "google"}
  BY DEF AuthenticateUser
<1>2. req[r] \in Request /\ req[r].status = "none" /\ req[r].user \in Users
  BY <1>1, Executing DEF Placed, Statements
<1>3. CASE Reject(r, "unauthorized")
  BY <1>3, RejectKeeps DEF Statuses
<1>4. CASE /\ HasAccount(req[r].user)
           /\ req' = [req EXCEPT ![r] = q] /\ UNCHANGED tables
  <2>1. mustReset[req[r].user] \in BOOLEAN
    BY <1>2 DEF Inv, TypeOK
  <2>2. /\ q \in Request /\ q.pc = "insertSession" /\ q.op = req[r].op
        /\ q.user = req[r].user /\ q.status = "none"
    BY <1>2, <2>1 DEF Request, Statements
  <2> HIDE DEF q
  <2>3. Placed(q) /\ Grounded(q)
    BY <1>1, <1>2, <1>4, <2>2 DEF Placed, Grounded
  <2>4. QED BY <1>4, <2>2, <2>3, ContinueKeeps
<1>5. QED BY <1>3, <1>4, <1>2 DEF AuthenticateUser, Inv, TypeOK

LEMMA CheckAccountKeeps ==
    ASSUME Inv, NEW r \in Requests, CheckAccount(r)
    PROVE  Inv'
<1> DEFINE q == [req[r] EXCEPT !.pc = "update"]
<1>1. req[r].pc = "account" /\ req[r].op = "reset"
  BY DEF CheckAccount
<1>2. /\ req[r] \in Request /\ req[r].status = "none" /\ req[r].user \in Users
      /\ req[r].new \in Passwords /\ HasAccount(req[r].user)
  BY <1>1, Executing DEF Placed, Grounded, Statements
<1>3. CASE Reject(r, "unauthorized")
  BY <1>3, RejectKeeps DEF Statuses
<1>4. CASE req' = [req EXCEPT ![r] = q] /\ UNCHANGED tables
  <2>1. /\ q \in Request /\ q.pc = "update" /\ q.op = "reset" /\ q.status = "none"
        /\ q.user = req[r].user /\ q.new = req[r].new
    BY <1>1, <1>2 DEF Request, Statements
  <2> HIDE DEF q
  <2>2. Placed(q) /\ Grounded(q)
    BY <1>2, <2>1 DEF Placed, Grounded
  <2>3. QED BY <1>4, <2>1, <2>2, ContinueKeeps
<1>5. QED BY <1>3, <1>4, <1>2 DEF CheckAccount, Continue, Inv, TypeOK

LEMMA UserExistsKeeps ==
    ASSUME Inv, NEW r \in Requests, UserExists(r)
    PROVE  Inv'
<1> DEFINE q == [req[r] EXCEPT !.pc = "insertUser"]
<1>1. req[r].pc = "userExists"
  BY DEF UserExists
<1>2. /\ req[r] \in Request /\ req[r].status = "none" /\ req[r].op = "provision"
      /\ req[r].user \in Users /\ req[r].new \in Passwords
  BY <1>1, Executing DEF Placed, Statements
<1>3. CASE Reject(r, "conflict")
  BY <1>3, RejectKeeps DEF Statuses
<1>4. CASE req' = [req EXCEPT ![r] = q] /\ UNCHANGED tables
  <2>1. /\ q \in Request /\ q.pc = "insertUser" /\ q.op = "provision"
        /\ q.status = "none" /\ q.user = req[r].user /\ q.new = req[r].new
    BY <1>2 DEF Request, Statements
  <2> HIDE DEF q
  <2>2. Placed(q) /\ Grounded(q)
    BY <1>2, <2>1 DEF Placed, Grounded
  <2>3. QED BY <1>4, <2>1, <2>2, ContinueKeeps
<1>5. QED BY <1>3, <1>4, <1>2 DEF UserExists, Continue, Inv, TypeOK

LEMMA BuildSessionStateKeeps ==
    ASSUME Inv, NEW r \in Requests, BuildSessionState(r)
    PROVE  Inv'
<1>1. req[r].pc = "workspaces" /\ Reject(r, "ok")
  BY DEF BuildSessionState
<1>2. req[r].op \notin {"ready", "provision"}
  BY <1>1, Executing DEF Placed, Statements
<1>3. QED BY <1>1, <1>2, RejectKeeps DEF Statuses

LEMMA InterruptKeeps ==
    ASSUME Inv, NEW r \in Requests, Interrupt(r)
    PROVE  Inv'
BY RejectKeeps DEF Interrupt, Statuses

-----------------------------------------------------------------------------
(* Statements that change the tables *)

\* The sessions have changed, the accounts have not.
LEMMA SessionStep ==
    ASSUME Inv, UNCHANGED <<password, mustReset>>,
           session' \in [Tokens -> Users \cup {NoUser}],
           issued \subseteq issued', issued' \subseteq Tokens,
           \A t \in Tokens : session'[t] \in {session[t], NoUser}
                             \/ (t \in issued' /\ HasAccount(session'[t])),
           NEW r \in Requests, NEW q \in Request, req' = [req EXCEPT ![r] = q],
           Placed(q), Grounded(q), ~Provisioned(q)
    PROVE  Inv'
<1>1. TypeOK'
  BY DEF Inv, TypeOK, HasAccount
<1>2. Stable
  BY DEF Stable, HasAccount
<1>3. req'[r] = q /\ \A s \in Requests \ {r} : req'[s] = req[s]
  BY DEF Inv, TypeOK
<1>4. (Placed(req[r]) /\ Grounded(req[r]))' /\ ~Provisioned(req[r])'
  BY <1>3 DEF Placed, Grounded, HasAccount, Provisioned
<1>5. QED BY <1>1, <1>2, <1>3, <1>4, RequestStep

LEMMA CreateSessionKeeps ==
    ASSUME Inv, NEW r \in Requests, CreateSession(r)
    PROVE  Inv'
<1>1. req[r].pc = "insertSession" /\ UNCHANGED <<password, mustReset>>
  BY DEF CreateSession
<1>2. PICK t \in Tokens \ issued :
         session' = [session EXCEPT ![t] = req[r].user] /\ issued' = issued \cup {t}
  BY DEF CreateSession
<1>3. /\ req[r] \in Request /\ req[r].status = "none"
      /\ req[r].op \in {"login", "google"}
      /\ req[r].user \in Users /\ HasAccount(req[r].user)
  BY <1>1, Executing DEF Placed, Grounded, Statements
<1>4. \E q \in Request : /\ req' = [req EXCEPT ![r] = q]
                         /\ Placed(q) /\ Grounded(q) /\ ~Provisioned(q)
  <2>1. CASE req[r].op = "login" /\ Continue(r, "workspaces")
    <3> DEFINE q == [req[r] EXCEPT !.pc = "workspaces"]
    <3>1. req' = [req EXCEPT ![r] = q]
      BY <2>1 DEF Continue, Inv, TypeOK
    <3>2. /\ q \in Request /\ q.pc = "workspaces" /\ q.status = "none"
          /\ q.op = req[r].op /\ q.user = req[r].user
      BY <1>3 DEF Request, Statements
    <3> HIDE DEF q
    <3>3. Placed(q) /\ Grounded(q) /\ ~Provisioned(q)
      BY <1>3, <2>1, <3>2 DEF Placed, Grounded, Provisioned
    <3>4. QED BY <3>1, <3>2, <3>3
  <2>2. CASE Answer(r, "ok")
    <3> DEFINE q == [req[r] EXCEPT !.pc = "done", !.status = "ok"]
    <3>1. req' = [req EXCEPT ![r] = q]
      BY <2>2 DEF Answer, Inv, TypeOK
    <3>2. q \in Request /\ q.pc = "done" /\ q.op = req[r].op
      BY <1>3 DEF Request, Statuses
    <3> HIDE DEF q
    <3>3. Placed(q) /\ Grounded(q) /\ ~Provisioned(q)
      BY <1>3, <3>2 DEF Placed, Grounded, Provisioned
    <3>4. QED BY <3>1, <3>2, <3>3
  <2>3. QED BY <2>1, <2>2 DEF CreateSession
<1>5. /\ session' \in [Tokens -> Users \cup {NoUser}]
      /\ issued \subseteq issued' /\ issued' \subseteq Tokens
  BY <1>2, <1>3 DEF Inv, TypeOK
<1>6. \A s \in Tokens : session'[s] \in {session[s], NoUser}
                        \/ (s \in issued' /\ HasAccount(session'[s]))
  BY <1>2, <1>3 DEF Inv, TypeOK
<1>7. QED BY <1>1, <1>4, <1>5, <1>6, SessionStep

LEMMA DeleteSessionKeeps ==
    ASSUME Inv, NEW r \in Requests, DeleteSession(r)
    PROVE  Inv'
<1> DEFINE q == [req[r] EXCEPT !.pc = "done", !.status = "ok"]
<1>1. req[r].pc = "deleteSession" /\ UNCHANGED <<password, mustReset, issued>>
  BY DEF DeleteSession
<1>2. req[r] \in Request /\ req[r].op = "logout" /\ req[r].token \in Tokens
  BY <1>1, Executing DEF Placed, Statements
<1>3. req' = [req EXCEPT ![r] = q]
  BY DEF DeleteSession, Answer, Inv, TypeOK
<1>4. q \in Request /\ q.pc = "done" /\ q.op = "logout"
  BY <1>2 DEF Request, Statuses
<1> HIDE DEF q
<1>5. Placed(q) /\ Grounded(q) /\ ~Provisioned(q)
  BY <1>4 DEF Placed, Grounded, Provisioned
<1>6. /\ session' \in [Tokens -> Users \cup {NoUser}]
      /\ issued \subseteq issued' /\ issued' \subseteq Tokens
      /\ \A s \in Tokens : session'[s] \in {session[s], NoUser}
                           \/ (s \in issued' /\ HasAccount(session'[s]))
  BY <1>1, <1>2 DEF DeleteSession, Inv, TypeOK
<1>7. QED BY <1>1, <1>3, <1>4, <1>5, <1>6, SessionStep

LEMMA ExpireKeeps ==
    ASSUME Inv, NEW t \in Tokens, Expire(t)
    PROVE  Inv'
<1>1. TypeOK'
  BY DEF Expire, Inv, TypeOK, HasAccount
<1>2. OneWinner' /\ \A r \in Requests : (Placed(req[r]) /\ Grounded(req[r]))'
  BY DEF Expire, Inv, OneWinner, Provisioned, Placed, Grounded, HasAccount
<1>3. QED BY <1>1, <1>2 DEF Inv

\* The accounts have changed, the sessions have not.
LEMMA AccountStep ==
    ASSUME Inv, Stable, UNCHANGED <<session, issued>>,
           NEW u \in Users, NEW p \in Passwords, NEW b \in BOOLEAN,
           password' = [password EXCEPT ![u] = p],
           mustReset' = [mustReset EXCEPT ![u] = b],
           NEW r \in Requests, NEW q \in Request, req' = [req EXCEPT ![r] = q],
           Placed(q), Grounded(req[r])', Provisioned(q) => ~HasAccount(q.user)
    PROVE  Inv'
<1>1. TypeOK'
  BY DEF Inv, TypeOK, HasAccount
<1>2. req'[r] = q /\ \A s \in Requests \ {r} : req'[s] = req[s]
  BY DEF Inv, TypeOK
<1>3. (Placed(req[r]) /\ Grounded(req[r]))'
  BY <1>2 DEF Placed, Grounded
<1>4. Provisioned(req[r])' => ~HasAccount(req'[r].user)
  BY <1>2 DEF Provisioned
<1>5. QED BY <1>1, <1>2, <1>3, <1>4, RequestStep

LEMMA UpdatePasswordKeeps ==
    ASSUME Inv, NEW r \in Requests, UpdatePassword(r)
    PROVE  Inv'
<1> DEFINE u == req[r].user
           p == req[r].new
           q == [req[r] EXCEPT !.pc = "workspaces", !.flag = FALSE]
<1>1. /\ req[r].pc = "update" /\ UNCHANGED <<session, issued>>
      /\ password' = [password EXCEPT ![u] = p]
      /\ mustReset' = [mustReset EXCEPT ![u] = FALSE]
  BY DEF UpdatePassword
<1>2. req' = [req EXCEPT ![r] = q]
  BY DEF UpdatePassword, Inv, TypeOK
<1>3. /\ req[r] \in Request /\ req[r].status = "none" /\ req[r].op = "reset"
      /\ u \in Users /\ p \in Passwords
  BY <1>1, Executing DEF Placed, Statements
<1>4. /\ q \in Request /\ q.pc = "workspaces" /\ q.op = "reset" /\ q.status = "none"
      /\ q.user = u
  BY <1>3 DEF Request, Statements
<1> HIDE DEF q, u, p
<1>5. req'[r] = q
  BY <1>2, <1>4 DEF Inv, TypeOK
<1>6. Placed(q) /\ Grounded(req[r])' /\ ~Provisioned(q)
  BY <1>3, <1>4, <1>5 DEF Placed, Grounded, Provisioned
<1>7. Stable
  BY <1>1, <1>3 DEF Stable, HasAccount, Inv, TypeOK
<1>8. QED BY <1>1, <1>2, <1>3, <1>4, <1>6, <1>7, AccountStep

LEMMA InsertUserKeeps ==
    ASSUME Inv, NEW r \in Requests, InsertUser(r)
    PROVE  Inv'
<1> DEFINE u == req[r].user
           p == req[r].new
           q == [req[r] EXCEPT !.pc = "done", !.status = "ok"]
<1>1. req[r].pc = "insertUser"
  BY DEF InsertUser
<1>2. /\ req[r] \in Request /\ req[r].op = "provision"
      /\ u \in Users /\ p \in Passwords
  BY <1>1, Executing DEF Placed, Statements
<1>3. CASE Reject(r, "error")
  BY <1>3, RejectKeeps DEF Statuses
<1>4. CASE ~HasAccount(u) /\ PutUser(r)
  <2>1. /\ UNCHANGED <<session, issued>>
        /\ password' = [password EXCEPT ![u] = p]
        /\ mustReset' = [mustReset EXCEPT ![u] = TRUE]
    BY <1>4 DEF PutUser
  <2>2. req' = [req EXCEPT ![r] = q]
    BY <1>4 DEF PutUser, Answer, Inv, TypeOK
  <2>3. /\ q \in Request /\ q.pc = "done" /\ q.op = "provision" /\ q.status = "ok"
        /\ q.user = u /\ q.new = p
    BY <1>2 DEF Request, Statuses
  <2> HIDE DEF q, u, p
  <2>4. Placed(q)
    BY <1>2, <2>3 DEF Placed
  <2>5. Grounded(req[r])'
    <3>1. req'[r] = q
      BY <2>2, <2>3 DEF Inv, TypeOK
    <3>2. QED BY <1>2, <2>1, <2>3, <3>1 DEF Grounded, HasAccount, Inv, TypeOK
  <2>6. Stable
    BY <1>2, <1>4, <2>1 DEF Stable, HasAccount, Inv, TypeOK
  <2>7. QED BY <1>2, <1>4, <2>1, <2>2, <2>3, <2>4, <2>5, <2>6, AccountStep
<1>5. QED BY <1>3, <1>4 DEF InsertUser

-----------------------------------------------------------------------------
LEMMA InitEstablishes == Init => Inv
<1> SUFFICES ASSUME Init PROVE Inv
  OBVIOUS
<1>1. TypeOK
  BY IdleIsRequest DEF Init, TypeOK
<1>2. \A r \in Requests : req[r] = Idle
  BY DEF Init
<1>3. OneWinner
  BY <1>2, IdleIsRequest DEF OneWinner, Provisioned
<1>4. \A r \in Requests : Placed(req[r]) /\ Grounded(req[r])
  BY <1>2 DEF Idle, Placed, Grounded
<1>5. QED BY <1>1, <1>3, <1>4 DEF Inv

LEMMA ExecuteKeeps ==
    ASSUME Inv, NEW r \in Requests, Execute(r)
    PROVE  Inv'
<1>1. CASE ReadSession(r)        BY <1>1, ReadSessionKeeps
<1>2. CASE RequireSession(r)     BY <1>2, RequireSessionKeeps
<1>3. CASE RequireReadySession(r) BY <1>3, RequireReadySessionKeeps
<1>4. CASE AuthenticateUser(r)   BY <1>4, AuthenticateUserKeeps
<1>5. CASE CheckAccount(r)       BY <1>5, CheckAccountKeeps
<1>6. CASE CreateSession(r)      BY <1>6, CreateSessionKeeps
<1>7. CASE DeleteSession(r)      BY <1>7, DeleteSessionKeeps
<1>8. CASE UpdatePassword(r)     BY <1>8, UpdatePasswordKeeps
<1>9. CASE BuildSessionState(r)  BY <1>9, BuildSessionStateKeeps
<1>10. CASE UserExists(r)        BY <1>10, UserExistsKeeps
<1>11. CASE InsertUser(r)        BY <1>11, InsertUserKeeps
<1>12. QED BY <1>1, <1>2, <1>3, <1>4, <1>5, <1>6, <1>7, <1>8, <1>9, <1>10, <1>11
           DEF Execute

LEMMA NextKeeps == Inv /\ [Next]_vars => Inv'
<1> SUFFICES ASSUME Inv, [Next]_vars PROVE Inv'
  OBVIOUS
<1>1. ASSUME NEW t \in Tokens, Expire(t) PROVE Inv'
  BY <1>1, ExpireKeeps
<1>2. ASSUME NEW r \in Requests, Arrive(r) PROVE Inv'
  BY <1>2, ArriveKeeps
<1>3. ASSUME NEW r \in Requests, Execute(r) PROVE Inv'
  BY <1>3, ExecuteKeeps
<1>4. ASSUME NEW r \in Requests, Interrupt(r) PROVE Inv'
  BY <1>4, InterruptKeeps
<1>5. CASE UNCHANGED vars
  BY <1>5 DEF vars, Inv, TypeOK, OneWinner, Provisioned, Placed, Grounded, HasAccount
<1>6. QED BY <1>1, <1>2, <1>3, <1>4, <1>5 DEF Next

\* Every state reached satisfies the inductive invariant.
THEOREM Invariance == Spec => []Inv
BY InitEstablishes, NextKeeps, PTL DEF Spec

\* The tables and the requests have their types; a session is of a token generated
\* before and of an account that exists.
THEOREM TypeCorrect == Spec => []TypeOK
<1>1. Inv => TypeOK
  BY DEF Inv
<1>2. QED BY <1>1, Invariance, PTL

\* However many create-user commands race for an account, one at most succeeds, and
\* the password it printed is the account's until the owner has replaced it
\* (ProvisionUser).
THEOREM ProvisionsOnce == Spec => []ProvisionedOnce
<1>1. Inv => ProvisionedOnce
  BY DEF Inv, OneWinner, Provisioned, Grounded, ProvisionedOnce
<1>2. QED BY <1>1, Invariance, PTL

\* Whoever requireReadySession has let in works for an account whose owner has
\* chosen the password, now and ever after.
THEOREM GateStaysHeld == Spec => []GateHolds
<1>1. Inv => GateHolds
  BY DEF Inv, Grounded, EnteredBy, GateHolds
<1>2. QED BY <1>1, Invariance, PTL

-----------------------------------------------------------------------------

\* What the contract sees of a step that gives one request a new record.
LEMMA Mapped ==
    ASSUME Inv, NEW r \in Requests, NEW q \in Request, req' = [req EXCEPT ![r] = q]
    PROVE  /\ offer' = [offer EXCEPT ![r] = OfferOf(q)]
           /\ rights' = [rights EXCEPT ![r] = RightsOf(q)]
           /\ entered' = [entered EXCEPT ![r] = EnteredBy(q)]
           /\ offer'[r] = OfferOf(q) /\ rights'[r] = RightsOf(q)
           /\ offer[r] = OfferOf(req[r])
           /\ rights[r] = RightsOf(req[r])
           /\ entered[r] = EnteredBy(req[r])
<1>1. req \in [Requests -> Request]
  BY DEF Inv, TypeOK
<1>2. \A s \in Requests : req'[s] = IF s = r THEN q ELSE req[s]
  BY <1>1
<1>3. offer' = [offer EXCEPT ![r] = OfferOf(q)]
  <2>1. offer' = [s \in Requests |-> OfferOf(req'[s])]
    BY DEF offer, OfferOf
  <2>2. \A s \in Requests : offer'[s] = IF s = r THEN OfferOf(q) ELSE offer[s]
    BY <1>2, <2>1 DEF offer
  <2>3. offer' = [s \in Requests |-> offer'[s]] /\ offer = [s \in Requests |-> offer[s]]
    BY <2>1 DEF offer
  <2> HIDE DEF offer
  <2>4. QED BY <2>2, <2>3
<1>4. rights' = [rights EXCEPT ![r] = RightsOf(q)]
  <2>1. rights' = [s \in Requests |-> RightsOf(req'[s])]
    BY DEF rights, RightsOf, Identified, MayChange
  <2>2. \A s \in Requests : rights'[s] = IF s = r THEN RightsOf(q) ELSE rights[s]
    BY <1>2, <2>1 DEF rights
  <2>3. rights' = [s \in Requests |-> rights'[s]] /\ rights = [s \in Requests |-> rights[s]]
    BY <2>1 DEF rights
  <2> HIDE DEF rights
  <2>4. QED BY <2>2, <2>3
<1>5. entered' = [entered EXCEPT ![r] = EnteredBy(q)]
  <2>1. entered' = [s \in Requests |-> EnteredBy(req'[s])]
    BY DEF entered, EnteredBy
  <2>2. \A s \in Requests : entered'[s] = IF s = r THEN EnteredBy(q) ELSE entered[s]
    BY <1>2, <2>1 DEF entered
  <2>3. entered' = [s \in Requests |-> entered'[s]] /\ entered = [s \in Requests |-> entered[s]]
    BY <2>1 DEF entered
  <2> HIDE DEF entered
  <2>4. QED BY <2>2, <2>3
<1>6. offer'[r] = OfferOf(q) /\ rights'[r] = RightsOf(q)
  BY <1>3, <1>4 DEF offer, rights
<1>7. QED BY <1>3, <1>4, <1>5, <1>6 DEF offer, rights, entered

\* A request between two statements is open and nobody has entered by it.
LEMMA OpenWhileExecuting ==
    ASSUME NEW q \in Request, q.pc \in Statements
    PROVE  /\ OfferOf(q) # Contract!NoOffer
           /\ OfferOf(q).kind = q.op /\ OfferOf(q).token = q.token
           /\ OfferOf(q).current = q.current
           /\ q.op \in {"login", "google", "provision"} => OfferOf(q).user = q.user
           /\ OfferOf(q) \in Contract!Offers
           /\ q.status = "none" => EnteredBy(q) = NoUser
<1>1. OfferOf(q).kind = q.op /\ Contract!NoOffer.kind = "none" /\ q.op # "none"
  BY DEF OfferOf, Contract!NoOffer, Request, AllRoutes
<1>2. OfferOf(q) \in Contract!Offers
  BY DEF OfferOf, Contract!Offers, Contract!Kinds, Request, AllRoutes
<1>3. q.status = "none" => EnteredBy(q) = NoUser
  BY DEF EnteredBy
<1>4. QED BY <1>1, <1>2, <1>3 DEF OfferOf

LEMMA ClosedOtherwise ==
    ASSUME NEW q \in Request, q.pc \notin Statements
    PROVE  OfferOf(q) = Contract!NoOffer /\ RightsOf(q) = {}
<1>1. ~Identified(q) /\ ~MayChange(q)
  BY DEF Identified, MayChange, Statements
<1>2. QED BY <1>1 DEF OfferOf, RightsOf, Contract!NoOffer

\* A request that is answered is closed.
LEMMA Ends ==
    ASSUME Inv, NEW r \in Requests, NEW q \in Request, req' = [req EXCEPT ![r] = q],
           req[r].pc \in Statements, q.pc = "done"
    PROVE  /\ Contract!Open(r) /\ Contract!Close(r)
           /\ entered' = [entered EXCEPT ![r] = EnteredBy(q)]
           /\ EnteredBy(q) = NoUser => entered' = entered
<1>1. req[r] \in Request /\ req[r].status = "none"
  BY Executing
<1>2. OfferOf(q) = Contract!NoOffer /\ RightsOf(q) = {}
  BY ClosedOtherwise DEF Statements
<1>3. offer[r] # Contract!NoOffer /\ entered[r] = NoUser
  BY <1>1, Mapped, OpenWhileExecuting
<1>4. Contract!Open(r) /\ Contract!Close(r)
  <2>1. /\ offer' = [offer EXCEPT ![r] = OfferOf(q)]
        /\ rights' = [rights EXCEPT ![r] = RightsOf(q)]
    BY Mapped
  <2>2. QED BY <1>2, <1>3, <2>1 DEF Contract!Open, Contract!Close
<1>5. EnteredBy(q) = NoUser => entered' = entered
  BY <1>3, Mapped DEF entered
<1>6. QED BY <1>4, <1>5, Mapped

\* A request that goes on keeps its offer, and what rights it gains the accounts
\* give it.
LEMMA Moves ==
    ASSUME Inv, NEW r \in Requests, NEW q \in Request, req' = [req EXCEPT ![r] = q],
           req[r].pc \in Statements, q.pc \in Statements, q.status = "none",
           q.op = req[r].op, q.token = req[r].token, q.current = req[r].current,
           q.op \in {"login", "google", "provision"} => q.user = req[r].user
    PROVE  /\ Contract!Open(r) /\ offer' = offer /\ entered' = entered
           /\ offer[r] = OfferOf(req[r]) /\ rights[r] = RightsOf(req[r])
           /\ rights'[r] = RightsOf(q)
           /\ rights' = [rights EXCEPT ![r] = RightsOf(q)]
<1>1. req[r] \in Request /\ req[r].status = "none"
  BY Executing
<1>2. OfferOf(q) = OfferOf(req[r])
  BY DEF OfferOf
<1>3. EnteredBy(q) = NoUser /\ EnteredBy(req[r]) = NoUser
  BY <1>1, OpenWhileExecuting
<1>4. offer' = offer /\ entered' = entered
  BY <1>2, <1>3, Mapped DEF offer, entered
<1>5. Contract!Open(r)
  <2>1. offer[r] = OfferOf(req[r])
    BY Mapped
  <2>2. QED BY <1>1, <2>1, OpenWhileExecuting DEF Contract!Open
<1>6. QED BY <1>4, <1>5, Mapped

LEMMA MovesOn ==
    ASSUME Inv, UNCHANGED tables,
           NEW r \in Requests, NEW q \in Request, req' = [req EXCEPT ![r] = q],
           req[r].pc \in Statements, q.pc \in Statements, q.status = "none",
           q.op = req[r].op, q.token = req[r].token, q.current = req[r].current,
           q.op \in {"login", "google", "provision"} => q.user = req[r].user,
           RightsOf(req[r]) \subseteq RightsOf(q),
           RightsOf(q) \subseteq RightsOf(req[r]) \cup Contract!Justified(r)
    PROVE  Contract!Gain(r)
BY Moves DEF Contract!Gain, tables

LEMMA RejectEnds ==
    ASSUME Inv, NEW r \in Requests, NEW status \in Statuses, Reject(r, status),
           req[r].pc \in Statements, status = "ok" => req[r].op # "ready"
    PROVE  Contract!End(r)
<1> DEFINE q == [req[r] EXCEPT !.pc = "done", !.status = status]
<1>1. req' = [req EXCEPT ![r] = q] /\ UNCHANGED tables
  BY DEF Reject, Answer, Inv, TypeOK
<1>2. q \in Request /\ q.pc = "done" /\ q.op = req[r].op /\ q.status = status
  <2>1. req[r] \in Request
    BY Executing
  <2>2. QED BY <2>1 DEF Request
<1> HIDE DEF q
<1>3. EnteredBy(q) = NoUser
  BY <1>2 DEF EnteredBy
<1>4. QED BY <1>1, <1>2, <1>3, Ends DEF Contract!End, tables

-----------------------------------------------------------------------------
(* Arrivals *)

LEMMA ArriveBegins ==
    ASSUME Inv, NEW r \in Requests, Arrive(r)
    PROVE  Contract!Begin(r) \/ Contract!Refuse(r)
<1>1. PICK q : Start(r, q) /\ Arriving(q)
  BY ArrivalsStart
<1>2. /\ q \in Request /\ req' = [req EXCEPT ![r] = q] /\ UNCHANGED tables
      /\ req[r] \in Request /\ req[r].pc \notin Statements
  BY <1>1 DEF Start, Arriving, Statements, Inv, TypeOK
<1>3. offer[r] = Contract!NoOffer /\ rights[r] = {}
  BY <1>2, Mapped, ClosedOtherwise
<1>4. RightsOf(q) = {} /\ EnteredBy(q) = NoUser
  BY <1>1 DEF RightsOf, Identified, MayChange, EnteredBy, Arriving, Placed
<1>5. /\ offer' = [offer EXCEPT ![r] = OfferOf(q)]
      /\ rights' = rights /\ entered' = [entered EXCEPT ![r] = NoUser]
  <2>1. /\ offer' = [offer EXCEPT ![r] = OfferOf(q)]
        /\ rights' = [rights EXCEPT ![r] = RightsOf(q)]
        /\ entered' = [entered EXCEPT ![r] = EnteredBy(q)]
    BY <1>2, Mapped
  <2>2. QED BY <1>3, <1>4, <2>1 DEF rights
<1>6. CASE q.pc = "done"
  <2>1. OfferOf(q) = Contract!NoOffer
    BY <1>2, <1>6, ClosedOtherwise DEF Statements
  <2>2. offer' = offer
    BY <1>3, <1>5, <2>1 DEF offer
  <2>3. QED BY <1>2, <1>3, <1>5, <2>2 DEF Contract!Refuse, Contract!Open, tables
<1>7. CASE q.pc # "done"
  <2>1. OfferOf(q) \in Contract!Offers
    BY <1>1, <1>2, <1>7, OpenWhileExecuting DEF Arriving, Statements
  <2>2. offer'[r] \in Contract!Offers /\ offer' = [offer EXCEPT ![r] = offer'[r]]
    BY <1>5, <2>1 DEF offer
  <2>3. QED BY <1>2, <1>3, <1>5, <2>2 DEF Contract!Begin, Contract!Open, tables
<1>8. QED BY <1>6, <1>7

-----------------------------------------------------------------------------
(* Statements that leave the tables alone *)

\* The right to be a user is given by a password, by Google or by a session.
LEMMA BeJustified ==
    ASSUME NEW r \in Requests, NEW u \in Users,
           \/ /\ offer[r].kind = "login" /\ offer[r].user = u
              /\ HasAccount(u) /\ password[u] = offer[r].current
           \/ offer[r].kind = "google" /\ offer[r].user = u /\ HasAccount(u)
           \/ offer[r].kind \in {"session", "reset"} /\ session[offer[r].token] = u
    PROVE  <<"be", u>> \in Contract!Justified(r)
<1>1. u \in Contract!MayBe(r)
  BY DEF Contract!MayBe, Contract!HasAccount, HasAccount
<1>2. QED BY <1>1 DEF Contract!Justified

\* The right to replace the password by a pending reset or by the password.
LEMMA ChangeJustified ==
    ASSUME NEW r \in Requests, NEW u \in Users, offer[r].kind = "reset",
           \/ session[offer[r].token] = u /\ mustReset[u]
           \/ <<"be", u>> \in rights[r] /\ password[u] = offer[r].current
    PROVE  <<"change", u>> \in Contract!Justified(r)
<1>1. u \in Contract!MayChange(r)
  BY DEF Contract!MayChange
<1>2. QED BY <1>1 DEF Contract!Justified

\* What the contract knows of a request that executes a statement.
LEMMA Offered ==
    ASSUME Inv, NEW r \in Requests, req[r].pc \in Statements
    PROVE  /\ req[r] \in Request
           /\ offer[r].kind = req[r].op /\ offer[r].token = req[r].token
           /\ offer[r].current = req[r].current
           /\ req[r].op \in {"login", "google", "provision"}
                 => offer[r].user = req[r].user
           /\ rights[r] = RightsOf(req[r])
<1>1. req[r] \in Request
  BY Executing
<1>2. offer[r] = OfferOf(req[r]) /\ rights[r] = RightsOf(req[r])
  BY DEF offer, rights
<1>3. QED BY <1>1, <1>2, OpenWhileExecuting

LEMMA ReadSessionRefines ==
    ASSUME Inv, NEW r \in Requests, ReadSession(r)
    PROVE  Contract!End(r) \/ Contract!Gain(r)
<1> DEFINE u == session[req[r].token]
           q == [req[r] EXCEPT !.pc = "workspaces", !.user = u, !.flag = mustReset[u]]
<1>1. req[r].pc = "getSession" /\ req[r].op = "session" /\ req[r].pc \in Statements
  BY DEF ReadSession, Statements
<1>2. req[r] \in Request /\ req[r].status = "none" /\ req[r].token \in Tokens
  BY <1>1, Executing DEF Placed
<1>3. CASE Reject(r, "ok")
  BY <1>1, <1>3, RejectEnds DEF Statuses
<1>4. CASE u # NoUser /\ req' = [req EXCEPT ![r] = q] /\ UNCHANGED tables
  <2>1. u \in Users /\ mustReset[u] \in BOOLEAN
    BY <1>2, <1>4, SessionUser DEF Inv, TypeOK
  <2>2. <<"be", u>> \in Contract!Justified(r)
    BY <1>1, <2>1, Offered, BeJustified
  <2> HIDE DEF u
  <2>3. /\ q \in Request /\ q.pc = "workspaces" /\ q.op = req[r].op
        /\ q.token = req[r].token /\ q.current = req[r].current
        /\ q.user = u /\ q.status = "none"
    BY <1>2, <2>1 DEF Request, Statements
  <2> HIDE DEF q
  <2>4. RightsOf(req[r]) = {} /\ RightsOf(q) = {<<"be", u>>}
    BY <1>1, <2>3 DEF RightsOf, Identified, MayChange
  <2>5. QED BY <1>1, <1>4, <2>2, <2>3, <2>4, MovesOn DEF Statements
<1>5. QED BY <1>3, <1>4, <1>2 DEF ReadSession, Inv, TypeOK

LEMMA RequireSessionRefines ==
    ASSUME Inv, NEW r \in Requests, RequireSession(r)
    PROVE  Contract!End(r) \/ Contract!Gain(r)
<1> DEFINE u == session[req[r].token]
           q == [req[r] EXCEPT !.pc = "account", !.user = u, !.flag = mustReset[u]]
<1>1. req[r].pc = "getSession" /\ req[r].op = "reset" /\ req[r].pc \in Statements
  BY DEF RequireSession, Statements
<1>2. req[r] \in Request /\ req[r].status = "none" /\ req[r].token \in Tokens
  BY <1>1, Executing DEF Placed
<1>3. CASE Reject(r, "unauthorized") \/ Reject(r, "badRequest")
  BY <1>1, <1>3, RejectEnds DEF Statuses
<1>4. CASE u # NoUser /\ req' = [req EXCEPT ![r] = q] /\ UNCHANGED tables
  <2>1. u \in Users /\ mustReset[u] \in BOOLEAN
    BY <1>2, <1>4, SessionUser DEF Inv, TypeOK
  <2>2. <<"be", u>> \in Contract!Justified(r)
    BY <1>1, <2>1, Offered, BeJustified
  <2>3. mustReset[u] => <<"change", u>> \in Contract!Justified(r)
    BY <1>1, <2>1, Offered, ChangeJustified
  <2> HIDE DEF u
  <2>4. /\ q \in Request /\ q.pc = "account" /\ q.op = req[r].op
        /\ q.token = req[r].token /\ q.current = req[r].current
        /\ q.user = u /\ q.flag = mustReset[u] /\ q.status = "none"
    BY <1>2, <2>1 DEF Request, Statements
  <2> HIDE DEF q
  <2>5. RightsOf(req[r]) = {}
    BY <1>1 DEF RightsOf, Identified, MayChange
  <2>6. RightsOf(q) \subseteq Contract!Justified(r)
    BY <1>1, <2>2, <2>3, <2>4 DEF RightsOf, MayChange
  <2>7. QED BY <1>1, <1>4, <2>4, <2>5, <2>6, MovesOn DEF Statements
<1>5. QED BY <1>3, <1>4, <1>2 DEF RequireSession, Inv, TypeOK

LEMMA RequireReadySessionRefines ==
    ASSUME Inv, NEW r \in Requests, RequireReadySession(r)
    PROVE  Contract!End(r) \/ Contract!Enter(r)
<1> DEFINE u == session[req[r].token]
           q == [req[r] EXCEPT !.pc = "done", !.user = u, !.status = "ok"]
<1>1. req[r].pc = "getSession" /\ req[r].op = "ready" /\ req[r].pc \in Statements
  BY DEF RequireReadySession, Statements
<1>2. req[r] \in Request /\ req[r].token \in Tokens
  BY <1>1, Executing DEF Placed
<1>3. CASE Reject(r, "unauthorized") \/ Reject(r, "forbidden")
  BY <1>1, <1>3, RejectEnds DEF Statuses
<1>4. CASE /\ u # NoUser /\ ~mustReset[u]
           /\ req' = [req EXCEPT ![r] = q] /\ UNCHANGED tables
  <2>1. u \in Users
    BY <1>2, <1>4, SessionUser
  <2>2. session[offer[r].token] = u /\ offer[r].kind = "ready"
    BY <1>1, Offered
  <2> HIDE DEF u
  <2>3. /\ q \in Request /\ q.pc = "done" /\ q.op = "ready"
        /\ q.user = u /\ q.status = "ok"
    BY <1>1, <1>2, <2>1 DEF Request, Statuses
  <2> HIDE DEF q
  <2>4. EnteredBy(q) = u
    BY <2>3 DEF EnteredBy
  <2>5. /\ Contract!Open(r) /\ Contract!Close(r)
        /\ entered' = [entered EXCEPT ![r] = u]
    BY <1>1, <1>4, <2>3, <2>4, Ends
  <2>6. QED BY <1>4, <2>2, <2>5 DEF Contract!Enter, tables
<1>5. QED BY <1>3, <1>4, <1>2 DEF RequireReadySession, Inv, TypeOK

LEMMA AuthenticateUserRefines ==
    ASSUME Inv, NEW r \in Requests, AuthenticateUser(r)
    PROVE  Contract!End(r) \/ Contract!Gain(r)
<1> DEFINE u == req[r].user
           q == [req[r] EXCEPT !.pc = "insertSession", !.flag = mustReset[req[r].user]]
<1>1. /\ req[r].pc = "account" /\ req[r].op \in {"login", "google"}
      /\ req[r].pc \in Statements
  BY DEF AuthenticateUser, Statements
<1>2. req[r] \in Request /\ req[r].status = "none" /\ u \in Users
  BY <1>1, Executing DEF Placed
<1>3. CASE Reject(r, "unauthorized")
  BY <1>1, <1>3, RejectEnds DEF Statuses
<1>4. CASE /\ HasAccount(u)
           /\ req[r].op = "login" => password[u] = req[r].current
           /\ req' = [req EXCEPT ![r] = q] /\ UNCHANGED tables
  <2>1. mustReset[u] \in BOOLEAN
    BY <1>2 DEF Inv, TypeOK
  <2>2. <<"be", u>> \in Contract!Justified(r)
    BY <1>1, <1>2, <1>4, Offered, BeJustified
  <2>3. /\ q \in Request /\ q.pc = "insertSession" /\ q.op = req[r].op
        /\ q.token = req[r].token /\ q.current = req[r].current
        /\ q.user = u /\ q.status = "none"
    BY <1>2, <2>1 DEF Request, Statements
  <2> HIDE DEF q
  <2>4. RightsOf(req[r]) = {} /\ RightsOf(q) = {<<"be", u>>}
    BY <1>1, <2>3 DEF RightsOf, Identified, MayChange
  <2>5. QED BY <1>1, <1>4, <2>2, <2>3, <2>4, MovesOn DEF Statements
<1>5. QED BY <1>3, <1>4, <1>2 DEF AuthenticateUser, Inv, TypeOK

LEMMA CheckAccountRefines ==
    ASSUME Inv, NEW r \in Requests, CheckAccount(r)
    PROVE  Contract!End(r) \/ Contract!Gain(r)
<1> DEFINE u == req[r].user
           q == [req[r] EXCEPT !.pc = "update"]
<1>1. /\ req[r].pc = "account" /\ req[r].op = "reset" /\ req[r].pc \in Statements
  BY DEF CheckAccount, Statements
<1>2. req[r] \in Request /\ req[r].status = "none" /\ u \in Users
  BY <1>1, Executing DEF Placed
<1>3. CASE Reject(r, "unauthorized")
  BY <1>1, <1>3, RejectEnds DEF Statuses
<1>4. CASE /\ req[r].flag \/ password[u] = req[r].current
           /\ req' = [req EXCEPT ![r] = q] /\ UNCHANGED tables
  <2>1. /\ <<"be", u>> \in RightsOf(req[r])
        /\ req[r].flag => <<"change", u>> \in RightsOf(req[r])
        /\ RightsOf(req[r]) \subseteq {<<"be", u>>, <<"change", u>>}
    BY <1>1 DEF RightsOf, Identified, MayChange
  <2>2. ~req[r].flag => <<"change", u>> \in Contract!Justified(r)
    BY <1>1, <1>2, <1>4, <2>1, Offered, ChangeJustified
  <2>3. /\ q \in Request /\ q.pc = "update" /\ q.op = "reset"
        /\ q.token = req[r].token /\ q.current = req[r].current
        /\ q.user = u /\ q.status = "none"
    BY <1>1, <1>2 DEF Request, Statements
  <2> HIDE DEF q
  <2>4. RightsOf(q) = {<<"be", u>>, <<"change", u>>}
    BY <2>3 DEF RightsOf, Identified, MayChange
  <2>5. RightsOf(q) \subseteq RightsOf(req[r]) \cup Contract!Justified(r)
    BY <2>1, <2>2, <2>4
  <2>6. QED BY <1>1, <1>4, <2>1, <2>3, <2>4, <2>5, MovesOn DEF Statements
<1>5. QED BY <1>3, <1>4, <1>2 DEF CheckAccount, Continue, Inv, TypeOK

LEMMA UserExistsRefines ==
    ASSUME Inv, NEW r \in Requests, UserExists(r)
    PROVE  Contract!End(r) \/ Contract!Gain(r)
<1> DEFINE q == [req[r] EXCEPT !.pc = "insertUser"]
<1>1. req[r].pc = "userExists" /\ req[r].pc \in Statements
  BY DEF UserExists, Statements
<1>2. req[r] \in Request /\ req[r].status = "none" /\ req[r].op = "provision"
  BY <1>1, Executing DEF Placed
<1>3. CASE Reject(r, "conflict")
  BY <1>1, <1>2, <1>3, RejectEnds DEF Statuses
<1>4. CASE req' = [req EXCEPT ![r] = q] /\ UNCHANGED tables
  <2>1. /\ q \in Request /\ q.pc = "insertUser" /\ q.op = req[r].op
        /\ q.token = req[r].token /\ q.current = req[r].current
        /\ q.user = req[r].user /\ q.status = "none"
    BY <1>2 DEF Request, Statements
  <2> HIDE DEF q
  <2>2. RightsOf(req[r]) = {} /\ RightsOf(q) = {}
    BY <1>1, <1>2, <2>1 DEF RightsOf, Identified, MayChange
  <2>3. QED BY <1>1, <1>4, <2>1, <2>2, MovesOn DEF Statements
<1>5. QED BY <1>3, <1>4, <1>2 DEF UserExists, Continue, Inv, TypeOK

LEMMA BuildSessionStateRefines ==
    ASSUME Inv, NEW r \in Requests, BuildSessionState(r)
    PROVE  Contract!End(r)
<1>1. req[r].pc = "workspaces" /\ Reject(r, "ok")
  BY DEF BuildSessionState
<1>2. req[r].op # "ready"
  BY <1>1, Executing DEF Placed, Statements
<1>3. QED BY <1>1, <1>2, RejectEnds DEF Statuses, Statements

LEMMA InterruptRefines ==
    ASSUME Inv, NEW r \in Requests, Interrupt(r)
    PROVE  Contract!End(r)
BY RejectEnds DEF Interrupt, Statuses

-----------------------------------------------------------------------------
(* Statements that change the tables *)

LEMMA CreateSessionSignsIn ==
    ASSUME Inv, NEW r \in Requests, CreateSession(r)
    PROVE  \E u \in Users, t \in Tokens : Contract!SignIn(r, u, t)
<1> DEFINE u == req[r].user
<1>1. /\ req[r].pc = "insertSession" /\ req[r].pc \in Statements
      /\ UNCHANGED <<password, mustReset>>
  BY DEF CreateSession, Statements
<1>2. PICK t \in Tokens \ issued : session' = [session EXCEPT ![t] = u]
  BY DEF CreateSession
<1>3. session[t] = NoUser
  BY <1>2 DEF Inv, TypeOK
<1>4. /\ req[r] \in Request /\ req[r].status = "none" /\ u \in Users
      /\ req[r].op \in {"login", "google"}
  BY <1>1, Executing DEF Placed
<1>5. RightsOf(req[r]) = {<<"be", u>>}
  BY <1>1, <1>4 DEF RightsOf, Identified, MayChange
<1>6. <<"be", u>> \in rights[r] /\ offer[r].kind \in {"login", "google"}
  BY <1>1, <1>4, <1>5, Offered
<1>7. /\ Contract!Open(r) /\ entered' = entered
      /\ Contract!Close(r) \/ UNCHANGED <<offer, rights>>
  <2>1. CASE req[r].op = "login" /\ Continue(r, "workspaces")
    <3> DEFINE q == [req[r] EXCEPT !.pc = "workspaces"]
    <3>1. req' = [req EXCEPT ![r] = q]
      BY <2>1 DEF Continue, Inv, TypeOK
    <3>2. /\ q \in Request /\ q.pc = "workspaces" /\ q.op = "login"
          /\ q.token = req[r].token /\ q.current = req[r].current
          /\ q.user = u /\ q.status = "none"
      BY <1>4, <2>1 DEF Request, Statements
    <3> HIDE DEF q
    <3>3. RightsOf(q) = {<<"be", u>>}
      BY <3>2 DEF RightsOf, Identified, MayChange
    <3>4. /\ Contract!Open(r) /\ offer' = offer /\ entered' = entered
          /\ rights' = [rights EXCEPT ![r] = RightsOf(q)]
          /\ rights[r] = RightsOf(req[r])
      BY <1>1, <2>1, <3>1, <3>2, Moves DEF Statements
    <3>5. rights' = rights
      BY <1>5, <3>3, <3>4 DEF rights
    <3>6. QED BY <3>4, <3>5
  <2>2. CASE req[r].op = "google" /\ Answer(r, "ok")
    <3> DEFINE q == [req[r] EXCEPT !.pc = "done", !.status = "ok"]
    <3>1. req' = [req EXCEPT ![r] = q]
      BY <2>2 DEF Answer, Inv, TypeOK
    <3>2. q \in Request /\ q.pc = "done" /\ q.op = "google"
      BY <1>4, <2>2 DEF Request, Statuses
    <3> HIDE DEF q
    <3>3. EnteredBy(q) = NoUser
      BY <3>2 DEF EnteredBy
    <3>4. QED BY <1>1, <3>1, <3>2, <3>3, Ends
  <2>3. QED BY <2>1, <2>2 DEF CreateSession
<1>8. Contract!SignIn(r, u, t)
  BY <1>1, <1>2, <1>3, <1>6, <1>7 DEF Contract!SignIn
<1>9. QED BY <1>4, <1>8

LEMMA DeleteSessionSignsOut ==
    ASSUME Inv, NEW r \in Requests, DeleteSession(r)
    PROVE  Contract!End(r) \/ Contract!SignOut(r)
<1> DEFINE q == [req[r] EXCEPT !.pc = "done", !.status = "ok"]
<1>1. /\ req[r].pc = "deleteSession" /\ req[r].pc \in Statements
      /\ UNCHANGED <<password, mustReset>>
  BY DEF DeleteSession, Statements
<1>2. req[r] \in Request /\ req[r].op = "logout"
  BY <1>1, Executing DEF Placed
<1>3. req' = [req EXCEPT ![r] = q]
  BY DEF DeleteSession, Answer, Inv, TypeOK
<1>4. q \in Request /\ q.pc = "done" /\ q.op = "logout"
  BY <1>2 DEF Request, Statuses
<1> HIDE DEF q
<1>5. EnteredBy(q) = NoUser
  BY <1>4 DEF EnteredBy
<1>6. Contract!Open(r) /\ Contract!Close(r) /\ entered' = entered
  BY <1>1, <1>3, <1>4, <1>5, Ends
<1>7. offer[r].kind = "logout" /\ offer[r].token = req[r].token
  BY <1>1, <1>2, Offered
<1>8. CASE UNCHANGED session
  BY <1>1, <1>6, <1>8 DEF Contract!End
<1>9. CASE session' = [session EXCEPT ![req[r].token] = NoUser]
  BY <1>1, <1>6, <1>7, <1>9 DEF Contract!SignOut
<1>10. QED BY <1>8, <1>9 DEF DeleteSession

LEMMA UpdatePasswordChanges ==
    ASSUME Inv, NEW r \in Requests, UpdatePassword(r)
    PROVE  \E u \in Users, p \in Passwords : Contract!ChangePassword(r, u, p)
<1> DEFINE u == req[r].user
           p == req[r].new
           q == [req[r] EXCEPT !.pc = "workspaces", !.flag = FALSE]
<1>1. /\ req[r].pc = "update" /\ req[r].pc \in Statements
      /\ password' = [password EXCEPT ![u] = p]
      /\ mustReset' = [mustReset EXCEPT ![u] = FALSE]
      /\ UNCHANGED session
  BY DEF UpdatePassword, Statements
<1>2. req' = [req EXCEPT ![r] = q]
  BY DEF UpdatePassword, Inv, TypeOK
<1>3. /\ req[r] \in Request /\ req[r].status = "none" /\ req[r].op = "reset"
      /\ u \in Users /\ p \in Passwords
  BY <1>1, Executing DEF Placed
<1>4. /\ q \in Request /\ q.pc = "workspaces" /\ q.op = "reset"
      /\ q.token = req[r].token /\ q.current = req[r].current
      /\ q.user = u /\ q.status = "none"
  BY <1>3 DEF Request, Statements
<1> HIDE DEF q
<1>5. RightsOf(req[r]) = {<<"be", u>>, <<"change", u>>} /\ RightsOf(q) = RightsOf(req[r])
  BY <1>1, <1>3, <1>4 DEF RightsOf, Identified, MayChange
<1>6. /\ Contract!Open(r) /\ offer' = offer /\ entered' = entered
      /\ rights' = [rights EXCEPT ![r] = RightsOf(q)] /\ rights[r] = RightsOf(req[r])
  BY <1>1, <1>2, <1>3, <1>4, Moves DEF Statements
<1>7. rights' = rights /\ <<"change", u>> \in rights[r]
  BY <1>5, <1>6 DEF rights
<1>8. Contract!ChangePassword(r, u, p)
  BY <1>1, <1>6, <1>7 DEF Contract!ChangePassword
<1>9. QED BY <1>3, <1>8

LEMMA InsertUserProvisions ==
    ASSUME Inv, NEW r \in Requests, InsertUser(r)
    PROVE  \/ Contract!End(r)
           \/ \E u \in Users, p \in Passwords : Contract!Provision(r, u, p)
<1> DEFINE u == req[r].user
           p == req[r].new
           q == [req[r] EXCEPT !.pc = "done", !.status = "ok"]
<1>1. req[r].pc = "insertUser" /\ req[r].pc \in Statements
  BY DEF InsertUser, Statements
<1>2. /\ req[r] \in Request /\ req[r].op = "provision"
      /\ u \in Users /\ p \in Passwords
  BY <1>1, Executing DEF Placed
<1>3. CASE Reject(r, "error")
  BY <1>1, <1>3, RejectEnds DEF Statuses
<1>4. CASE ~HasAccount(u) /\ PutUser(r)
  <2>1. /\ password' = [password EXCEPT ![u] = p]
        /\ mustReset' = [mustReset EXCEPT ![u] = TRUE]
        /\ UNCHANGED session
    BY <1>4 DEF PutUser
  <2>2. req' = [req EXCEPT ![r] = q]
    BY <1>4 DEF PutUser, Answer, Inv, TypeOK
  <2>3. q \in Request /\ q.pc = "done" /\ q.op = "provision"
    BY <1>2 DEF Request, Statuses
  <2> HIDE DEF q
  <2>4. EnteredBy(q) = NoUser
    BY <2>3 DEF EnteredBy
  <2>5. Contract!Open(r) /\ Contract!Close(r) /\ entered' = entered
    BY <1>1, <2>2, <2>3, <2>4, Ends
  <2>6. offer[r].kind = "provision" /\ ~Contract!HasAccount(u)
    BY <1>1, <1>2, <1>4, Offered DEF HasAccount, Contract!HasAccount
  <2>7. Contract!Provision(r, u, p)
    BY <2>1, <2>5, <2>6 DEF Contract!Provision
  <2>8. QED BY <1>2, <2>7
<1>5. QED BY <1>3, <1>4 DEF InsertUser

LEMMA ExpireRefines ==
    ASSUME NEW t \in Tokens, Expire(t)
    PROVE  Contract!Expire(t)
<1>1. offer' = offer /\ rights' = rights /\ entered' = entered
  BY DEF Expire, offer, rights, entered, OfferOf, RightsOf, Identified, MayChange,
         EnteredBy
<1>2. QED BY <1>1 DEF Expire, Contract!Expire

-----------------------------------------------------------------------------
LEMMA ExecuteRefines ==
    ASSUME Inv, NEW r \in Requests, Execute(r)
    PROVE  Contract!Next
<1>1. CASE ReadSession(r)
  BY <1>1, ReadSessionRefines DEF Contract!Next
<1>2. CASE RequireSession(r)
  BY <1>2, RequireSessionRefines DEF Contract!Next
<1>3. CASE RequireReadySession(r)
  BY <1>3, RequireReadySessionRefines DEF Contract!Next
<1>4. CASE AuthenticateUser(r)
  BY <1>4, AuthenticateUserRefines DEF Contract!Next
<1>5. CASE CheckAccount(r)
  BY <1>5, CheckAccountRefines DEF Contract!Next
<1>6. CASE CreateSession(r)
  BY <1>6, CreateSessionSignsIn DEF Contract!Next
<1>7. CASE DeleteSession(r)
  BY <1>7, DeleteSessionSignsOut DEF Contract!Next
<1>8. CASE UpdatePassword(r)
  BY <1>8, UpdatePasswordChanges DEF Contract!Next
<1>9. CASE BuildSessionState(r)
  BY <1>9, BuildSessionStateRefines DEF Contract!Next
<1>10. CASE UserExists(r)
  BY <1>10, UserExistsRefines DEF Contract!Next
<1>11. CASE InsertUser(r)
  BY <1>11, InsertUserProvisions DEF Contract!Next
<1>12. QED BY <1>1, <1>2, <1>3, <1>4, <1>5, <1>6, <1>7, <1>8, <1>9, <1>10, <1>11
           DEF Execute

LEMMA InitRefines == Init => Contract!Init
<1> SUFFICES ASSUME Init PROVE Contract!Init
  OBVIOUS
<1>1. \A r \in Requests : /\ OfferOf(req[r]) = Contract!NoOffer
                          /\ RightsOf(req[r]) = {} /\ EnteredBy(req[r]) = NoUser
  <2>1. Idle \in Request /\ Idle.pc \notin Statements /\ Idle.status = "none"
    BY IdleIsRequest DEF Idle, Statements
  <2>2. QED BY <2>1, ClosedOtherwise DEF Init, EnteredBy
<1>2. /\ offer = [r \in Requests |-> Contract!NoOffer]
      /\ rights = [r \in Requests |-> {}]
      /\ entered = [r \in Requests |-> NoUser]
  BY <1>1 DEF offer, rights, entered
<1>3. QED BY <1>2 DEF Init, Contract!Init

LEMMA NextRefines ==
    ASSUME Inv, [Next]_vars
    PROVE  [Contract!Next]_(Contract!vars)
<1>1. ASSUME NEW t \in Tokens, Expire(t)
      PROVE  Contract!Next
  BY <1>1, ExpireRefines DEF Contract!Next
<1>2. ASSUME NEW r \in Requests, Arrive(r)
      PROVE  Contract!Next
  BY <1>2, ArriveBegins DEF Contract!Next
<1>3. ASSUME NEW r \in Requests, Execute(r)
      PROVE  Contract!Next
  BY <1>3, ExecuteRefines
<1>4. ASSUME NEW r \in Requests, Interrupt(r)
      PROVE  Contract!Next
  BY <1>4, InterruptRefines DEF Contract!Next
<1>5. CASE UNCHANGED vars
  BY <1>5 DEF vars, Contract!vars, offer, rights, entered, OfferOf, RightsOf,
              Identified, MayChange, EnteredBy
<1>6. QED BY <1>1, <1>2, <1>3, <1>4, <1>5 DEF Next

\* Requests in any interleaving keep the contract: a session is created, and a
\* password replaced, only for credentials that were good while the request was open,
\* and requireReadySession lets nobody in but the user of a session live at that
\* moment, whose password is not the administrator's.
THEOREM Implements == Spec => KeepsContract
<1>1. Init => Contract!Init
  BY InitRefines
<1>2. Inv /\ [Next]_vars => [Contract!Next]_(Contract!vars)
  BY NextRefines
<1>3. Spec => []Inv
  BY Invariance
<1>4. QED BY <1>1, <1>2, <1>3, PTL DEF Spec, KeepsContract, Contract!Spec

=============================================================================
