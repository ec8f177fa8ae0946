--------------------------- MODULE AccountService ---------------------------
(***************************************************************************)
(* Accounts, passwords and sessions: the auth handlers of app-shell, the   *)
(* session gate in front of every workspace and todo route, and the        *)
(* create-user command, over PostgresStore.                                *)
(*                                                                         *)
(* Only ProvisionUser opens a transaction, so every other SQL statement is *)
(* a step of its own.  A password stands for itself and for its hash:      *)
(* comparePassword accepts one exactly when it is the one hashed.  Accounts*)
(* are never deleted, so the branches for an account that is gone between  *)
(* two statements are left out.                                            *)
(***************************************************************************)
CONSTANTS
    Users,      \* normalised emails
    Passwords,  \* acceptable passwords
    Tokens,     \* the tokens CreateSession may generate
    Requests,   \* slots of the requests, and commands, run at the same time
    Routes,     \* the routes exercised, a subset of AllRoutes
    NoUser, NoPassword, NoToken

\* "ready" is requireReadySession on any workspace or todo route, "provision"
\* the create-user command.
AllRoutes == {"login", "google", "session", "logout", "reset", "ready",
              "provision"}

ASSUME RoutesAssumption == Routes \subseteq AllRoutes
ASSUME NullsAssumption ==
    NoUser \notin Users /\ NoPassword \notin Passwords /\ NoToken \notin Tokens

VARIABLES
    password,   \* users.password_hash by email, NoPassword where there is no row
    mustReset,  \* users.password_reset_required
    session,    \* the unexpired rows of user_sessions: whose each token is
    issued,     \* the tokens generated so far; none is generated twice
    req         \* the state of each request

tables == <<password, mustReset, session, issued>>
vars   == <<password, mustReset, session, issued, req>>

\* The SQL statement a request executes next.
Statements == {"getSession", "account", "insertSession", "deleteSession",
               "update", "workspaces", "userExists", "insertUser"}

\* 200/204/303, 400, 401, 403, ErrUserAlreadyExists, 500 and failed commands.
Statuses == {"ok", "badRequest", "unauthorized", "forbidden", "conflict", "error"}

Request ==
    [pc : Statements \cup {"idle", "done"},
     op : AllRoutes,
     token : Tokens \cup {NoToken},          \* the session cookie
     user : Users \cup {NoUser},             \* the email named, or the session's
     current : Passwords \cup {NoPassword},  \* the password presented, if any
     new : Passwords \cup {NoPassword},      \* the new one; NoPassword: too short
     flag : BOOLEAN,                         \* password_reset_required as read
     status : Statuses \cup {"none"}]

Idle == [pc |-> "idle", op |-> "session", token |-> NoToken, user |-> NoUser,
         current |-> NoPassword, new |-> NoPassword, flag |-> FALSE,
         status |-> "none"]

HasAccount(u) == password[u] # NoPassword

\* Sessions are rows of generated tokens that refer to accounts.
TypeOK ==
    /\ password \in [Users -> Passwords \cup {NoPassword}]
    /\ mustReset \in [Users -> BOOLEAN]
    /\ session \in [Tokens -> Users \cup {NoUser}]
    /\ issued \subseteq Tokens
    /\ req \in [Requests -> Request]
    /\ \A t \in Tokens : session[t] # NoUser =>
          t \in issued /\ HasAccount(session[t])

-----------------------------------------------------------------------------
(* Control *)

Continue(r, statement) == req' = [req EXCEPT ![r].pc = statement]

Answer(r, status) == req' = [req EXCEPT ![r].pc = "done", ![r].status = status]

Reject(r, status) == Answer(r, status) /\ UNCHANGED tables

Start(r, call) ==
    /\ req[r].pc \in {"idle", "done"}
    /\ call.op \in Routes
    /\ req' = [req EXCEPT ![r] = call]
    /\ UNCHANGED tables

\* A request that is answered before its first statement.
Refused(call, status) == [call EXCEPT !.pc = "done", !.status = status]

-----------------------------------------------------------------------------
(* Arrivals *)

\* A blank password does not reach the store.
Login(r) ==
    \E u \in Users, p \in Passwords \cup {NoPassword} :
        LET call == [Idle EXCEPT !.pc = "account", !.op = "login",
                                 !.user = u, !.current = p]
        IN Start(r, IF p = NoPassword THEN Refused(call, "badRequest") ELSE call)

\* handleGoogleLoginCallback once Google has vouched for an address.
GoogleLogin(r) ==
    \E u \in Users :
        Start(r, [Idle EXCEPT !.pc = "account", !.op = "google", !.user = u])

\* currentUser: no cookie, no statement.  An anonymous caller gets an answer
\* from handleSession and handleLogout, and 401 from requireSession.
WithCookie(r, call) ==
    \E t \in issued \cup {NoToken} :
        Start(r, IF t = NoToken
                 THEN Refused(call, IF call.op \in {"session", "logout"}
                                    THEN "ok" ELSE "unauthorized")
                 ELSE [call EXCEPT !.token = t])

Session(r) == WithCookie(r, [Idle EXCEPT !.pc = "getSession", !.op = "session"])
Ready(r)   == WithCookie(r, [Idle EXCEPT !.pc = "getSession", !.op = "ready"])
Logout(r)  == WithCookie(r, [Idle EXCEPT !.pc = "deleteSession", !.op = "logout"])

ResetPassword(r) ==
    \E c, n \in Passwords \cup {NoPassword} :
        WithCookie(r, [Idle EXCEPT !.pc = "getSession", !.op = "reset",
                                   !.current = c, !.new = n])

\* The create-user command, with the password it generated.
Provision(r) ==
    \E u \in Users, p \in Passwords :
        Start(r, [Idle EXCEPT !.pc = "userExists", !.op = "provision",
                              !.user = u, !.new = p])

-----------------------------------------------------------------------------
(* Statements *)

\* GetSession on behalf of handleSession: a session gone is no error.
ReadSession(r) ==
    LET q == req[r]
        u == session[q.token] IN
    /\ q.pc = "getSession" /\ q.op = "session"
    /\ \/ u = NoUser /\ Reject(r, "ok")
       \/ /\ u # NoUser
          /\ req' = [req EXCEPT ![r].pc = "workspaces", ![r].user = u,
                                ![r].flag = mustReset[u]]
          /\ UNCHANGED tables

\* Mutant: the new password is not validated.
RequireSessionUnvalidated(r) ==
    LET q == req[r]
        u == session[q.token] IN
    /\ q.pc = "getSession" /\ q.op = "reset"
    /\ \/ u = NoUser /\ Reject(r, "unauthorized")
       \/ /\ u # NoUser
          /\ req' = [req EXCEPT ![r].pc = "account", ![r].user = u,
                                ![r].flag = mustReset[u]]
          /\ UNCHANGED tables

\* requireSession and handleResetPassword up to its first store call.  Which
\* of the two resets follows is decided on the flag read here.
RequireSession(r) ==
    LET q == req[r]
        u == session[q.token] IN
    /\ q.pc = "getSession" /\ q.op = "reset"
    /\ \/ u = NoUser /\ Reject(r, "unauthorized")
       \/ /\ u # NoUser
          /\ \/ q.new = NoPassword
             \/ ~mustReset[u] /\ q.current = NoPassword
          /\ Reject(r, "badRequest")
       \/ /\ u # NoUser /\ q.new # NoPassword
          /\ mustReset[u] \/ q.current # NoPassword
          /\ req' = [req EXCEPT ![r].pc = "account", ![r].user = u,
                                ![r].flag = mustReset[u]]
          /\ UNCHANGED tables

\* Mutant: the gate forgets the reset requirement.
RequireReadySessionUnflagged(r) ==
    LET u == session[req[r].token] IN
    /\ req[r].pc = "getSession" /\ req[r].op = "ready"
    /\ req' = [req EXCEPT ![r].pc = "done", ![r].user = u,
                          ![r].status = IF u = NoUser THEN "unauthorized" ELSE "ok"]
    /\ UNCHANGED tables

\* requireReadySession: the session is live and its account is past the first
\* password change.
RequireReadySession(r) ==
    LET q == req[r]
        u == session[q.token] IN
    /\ q.pc = "getSession" /\ q.op = "ready"
    /\ \/ u = NoUser /\ Reject(r, "unauthorized")
       \/ u # NoUser /\ mustReset[u] /\ Reject(r, "forbidden")
       \/ /\ u # NoUser /\ ~mustReset[u]
          /\ req' = [req EXCEPT ![r].pc = "done", ![r].user = u, ![r].status = "ok"]
          /\ UNCHANGED tables

\* AuthenticateUser; AuthenticateGoogleUser only wants the account to exist,
\* and redirects home if it does not.
AuthenticateUser(r) ==
    LET q == req[r]
        known == /\ HasAccount(q.user)
                 /\ q.op = "login" => password[q.user] = q.current IN
    /\ q.pc = "account" /\ q.op \in {"login", "google"}
    /\ \/ ~known /\ Reject(r, "unauthorized")
       \/ /\ known
          /\ req' = [req EXCEPT ![r].pc = "insertSession",
                                ![r].flag = mustReset[q.user]]
          /\ UNCHANGED tables

\* Mutant: ResetPassword does not compare the current password.
CheckAccountUncompared(r) ==
    /\ req[r].pc = "account" /\ req[r].op = "reset"
    /\ Continue(r, "update")
    /\ UNCHANGED tables

\* userByEmail in CompletePasswordReset, which compares nothing, and in
\* ResetPassword, which compares the current password.
CheckAccount(r) ==
    LET q == req[r] IN
    /\ q.pc = "account" /\ q.op = "reset"
    /\ \/ ~q.flag /\ password[q.user] # q.current /\ Reject(r, "unauthorized")
       \/ /\ q.flag \/ password[q.user] = q.current
          /\ Continue(r, "update")
          /\ UNCHANGED tables

\* INSERT INTO user_sessions.  The cookie is in the header from here on,
\* whatever becomes of the session state handleLogin still has to build.
CreateSession(r) ==
    LET q == req[r] IN
    /\ q.pc = "insertSession"
    /\ \E t \in Tokens \ issued :
        /\ session' = [session EXCEPT ![t] = q.user]
        /\ issued' = issued \cup {t}
    /\ \/ q.op = "login" /\ Continue(r, "workspaces")
       \/ q.op = "google" /\ Answer(r, "ok")
    /\ UNCHANGED <<password, mustReset>>

\* completePasswordReset: UPDATE users, by email only.
UpdatePassword(r) ==
    LET q == req[r] IN
    /\ q.pc = "update"
    /\ password' = [password EXCEPT ![q.user] = q.new]
    /\ mustReset' = [mustReset EXCEPT ![q.user] = FALSE]
    /\ req' = [req EXCEPT ![r].pc = "workspaces", ![r].flag = FALSE]
    /\ UNCHANGED <<session, issued>>

\* ListAccessibleWorkspaces in buildSessionState, the last statement.
BuildSessionState(r) ==
    /\ req[r].pc = "workspaces"
    /\ Reject(r, "ok")

\* handleLogout answers 204 whether or not the DELETE succeeded.
DeleteSession(r) ==
    /\ req[r].pc = "deleteSession"
    /\ Answer(r, "ok")
    /\ \/ UNCHANGED session
       \/ session' = [session EXCEPT ![req[r].token] = NoUser]
    /\ UNCHANGED <<password, mustReset, issued>>

UserExists(r) ==
    LET q == req[r] IN
    /\ q.pc = "userExists"
    /\ \/ HasAccount(q.user) /\ Reject(r, "conflict")
       \/ /\ ~HasAccount(q.user)
          /\ Continue(r, "insertUser")
          /\ UNCHANGED tables

PutUser(r) ==
    /\ password' = [password EXCEPT ![req[r].user] = req[r].new]
    /\ mustReset' = [mustReset EXCEPT ![req[r].user] = TRUE]
    /\ Answer(r, "ok")
    /\ UNCHANGED <<session, issued>>

\* Mutant: users has no primary key on the email and the later row wins.
InsertUserUnkeyed(r) == req[r].pc = "insertUser" /\ PutUser(r)

\* The transaction of ProvisionUser; the primary key refuses a second row.
InsertUser(r) ==
    /\ req[r].pc = "insertUser"
    /\ \/ HasAccount(req[r].user) /\ Reject(r, "error")
       \/ ~HasAccount(req[r].user) /\ PutUser(r)

-----------------------------------------------------------------------------
\* sessionLifetime has passed: expires_at > NOW() no longer holds.
Expire(t) ==
    /\ session[t] # NoUser
    /\ session' = [session EXCEPT ![t] = NoUser]
    /\ UNCHANGED <<password, mustReset, issued, req>>

\* The client goes away, the database fails, or the password is longer than
\* bcrypt takes; handleLogout has its own answer to that.
Interrupt(r) ==
    /\ req[r].pc \in Statements \ {"deleteSession"}
    /\ Reject(r, "error")

Init ==
    /\ password = [u \in Users |-> NoPassword]
    /\ mustReset = [u \in Users |-> FALSE]
    /\ session = [t \in Tokens |-> NoUser]
    /\ issued = {}
    /\ req = [r \in Requests |-> Idle]

Arrive(r) ==
    \/ Login(r) \/ GoogleLogin(r) \/ Session(r) \/ Ready(r)
    \/ Logout(r) \/ ResetPassword(r) \/ Provision(r)

Execute(r) ==
    \/ ReadSession(r) \/ RequireSession(r) \/ RequireReadySession(r)
    \/ AuthenticateUser(r) \/ CheckAccount(r)
    \/ CreateSession(r) \/ DeleteSession(r)
    \/ UpdatePassword(r) \/ BuildSessionState(r)
    \/ UserExists(r) \/ InsertUser(r)

Next ==
    \/ \E t \in Tokens : Expire(t)
    \/ \E r \in Requests : Arrive(r) \/ Execute(r) \/ Interrupt(r)

Spec == Init /\ [][Next]_vars

-----------------------------------------------------------------------------
(* Properties *)

\* The contract's view of a request.
OfferOf(q) ==
    [kind    |-> IF q.pc \in Statements THEN q.op ELSE "none",
     token   |-> IF q.pc \in Statements THEN q.token ELSE NoToken,
     user    |-> IF q.pc \in Statements /\ q.op \in {"login", "google", "provision"}
                 THEN q.user ELSE NoUser,
     current |-> IF q.pc \in Statements THEN q.current ELSE NoPassword]

Identified(q) ==
    \/ q.pc \in {"insertSession", "workspaces"}
    \/ q.pc \in {"account", "update"} /\ q.op = "reset"

MayChange(q) ==
    /\ q.op = "reset"
    /\ q.pc \in {"update", "workspaces"} \/ (q.pc = "account" /\ q.flag)

RightsOf(q) ==
    (IF Identified(q) THEN {<<"be", q.user>>} ELSE {})
        \cup (IF MayChange(q) THEN {<<"change", q.user>>} ELSE {})

EnteredBy(q) == IF q.op = "ready" /\ q.status = "ok" THEN q.user ELSE NoUser

offer   == [r \in Requests |-> OfferOf(req[r])]
rights  == [r \in Requests |-> RightsOf(req[r])]
entered == [r \in Requests |-> EnteredBy(req[r])]

Contract == INSTANCE AccountContract

\* Requests in any interleaving keep the contract: a session is created, and a
\* password replaced, only for a request whose credentials were good while it
\* was open, and nobody enters the application without a live session.
KeepsContract == Contract!Spec

\* Of the create-user commands racing to make one account, a single one prints
\* a password, and what it printed opens the account until the owner replaces it.
ProvisionedOnce ==
    \A r \in Requests : req[r].op = "provision" /\ req[r].status = "ok" =>
        /\ mustReset[req[r].user] => password[req[r].user] = req[r].new
        /\ \A s \in Requests \ {r} :
               req[s].op = "provision" /\ req[s].status = "ok"
                   => req[s].user # req[r].user

\* An account that was let into the application never has to be reset again,
\* so a request past the gate cannot be working for an account that still has
\* the password its administrator saw.
GateHolds ==
    \A r \in Requests : EnteredBy(req[r]) # NoUser => ~mustReset[req[r].user]

\* What services/api/README.md says of POST /api/auth/reset-password: once the
\* initial requirement has been cleared, no password is replaced by a request
\* that did not give the current one.
CurrentPasswordRequired ==
    [][\A r \in Requests :
          req[r].pc = "update" /\ req'[r].pc = "workspaces" /\ ~mustReset[req[r].user]
              => req[r].current # NoPassword]_vars

=============================================================================
