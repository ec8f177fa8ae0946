------------------------------- MODULE Browser -------------------------------
(***************************************************************************)
(* Signing in and out as a browser sees it: the tabs of the web client, the*)
(* cookies they share, the auth handlers of app-shell that set and clear   *)
(* them, and the detour over Google.                                       *)
(*                                                                         *)
(* A request is sent with the cookies of the moment, served, and its answer*)
(* arrives some time later, in any order with the others, those of the same*)
(* tab included.  What a handler does is one step: AccountService has its  *)
(* SQL statements, and what credentials are good.  Google login is         *)
(* configured.                                                             *)
(***************************************************************************)
EXTENDS Naturals, FiniteSets

CONSTANTS
    Tabs,        \* of one browser
    Addresses,   \* email addresses
    Accounts,    \* those provisioned
    Gmail,       \* those isSupportedGoogleLoginEmail accepts
    Tokens,      \* the session tokens CreateSession may generate
    States,      \* what generateSecretString may return for a handshake
    Codes,       \* the authorization codes Google may issue
    Slots,       \* bound on the requests the browser has under way
    Bounds,      \* narrower bounds, of which an instance has one
    None

ASSUME AddressesAssumption == Accounts \subseteq Addresses /\ Gmail \subseteq Addresses
\* The requests under way, the handshakes there are, and who logs in.
ASSUME BoundsAssumption ==
    Bounds \subseteq [requests : Nat, handshakes : Nat, accounts : SUBSET Accounts]
ASSUME NoneAssumption ==
    None \notin Tabs \cup Addresses \cup Tokens \cup States \cup Codes
ASSUME WordsAssumption ==
    /\ {"keep", "clear"} \cap (Tokens \cup {None}) = {}
    /\ None \notin {"session", "login", "logout", "call", "reset", "start", "callback",
                    "here", "elsewhere"}

VARIABLES
    jar,          \* the session cookie
    stateCookie,  \* the Google state cookie
    tab,          \* what each tab shows
    exchange,     \* the requests under way, and their answers
    session,      \* the live rows of user_sessions
    begun,        \* the handshakes begun, by the state of each: here or elsewhere
    approval,     \* what Google knows of each code it has issued
    bound

server  == <<session, begun>>
cookies == <<jar, stateCookie>>
vars    == <<jar, stateCookie, tab, exchange, session, begun, approval, bound>>

\* "call" is a request of the signed-in page for a list or a change, "reset" that
\* for a new password.
Ops == {"session", "login", "logout", "call", "reset", "start", "callback"}
Navigations == {"start", "callback"}

NoRequest == [op |-> None, token |-> None, state |-> None, code |-> None,
              user |-> None]
Request == [op : Ops \cup {None}, token : Tokens \cup {None},
            state : States \cup {None},  \* the state cookie
            code : Codes \cup {None},    \* None: error=access_denied
            user : Accounts \cup {None}] \* who logs in

\* What a response does to the session cookie: nothing, clear it, or set it.
Keep  == "keep"
Clear == "clear"

NoAnswer == [ok |-> FALSE, user |-> None, cookie |-> Keep, state |-> None]
Answer == [ok : BOOLEAN,
           user : Accounts \cup {None},        \* whose session state it is
           cookie : Tokens \cup {Keep, Clear},
           state : States \cup {None}]         \* the state cookie it sets

\* "away" is any page that is not the web client's: Google's consent page, the JSON
\* of a failed navigation.
Pages == {"loading", "login", "app", "away"}

Tab == [page : Pages,
        user : Accounts \cup {None},   \* sessionState.user
        touched : BOOLEAN]             \* see PageAgreesWithCookie

Page(page) == [page |-> page, user |-> None, touched |-> FALSE]

RoundTrip == [tab : Tabs \cup {None}, phase : {"idle", "sent", "answered"},
             request : Request, answer : Answer]

Free == [tab |-> None, phase |-> "idle", request |-> NoRequest, answer |-> NoAnswer]

\* A code is exchanged once: then nobody's account is to be had for it.
Unverified == "unverified"
Spent    == [state |-> None, email |-> None]
Approval == [state : States, email : Addresses \cup {Unverified}] \cup {Spent}

TypeOK ==
    /\ jar \in Tokens \cup {None}
    /\ stateCookie \in States \cup {None}
    /\ tab \in [Tabs -> Tab]
    /\ exchange \in [Slots -> RoundTrip]
    /\ session \in [Tokens -> Accounts \cup {None}]
    /\ begun \in [States -> {"here", "elsewhere", None}]
    /\ approval \in [Codes -> Approval \cup {None}]
    /\ bound \in Bounds

-----------------------------------------------------------------------------
(* Requests, with the cookies of the moment *)

\* The cookies a request needs are those of now, but for the session cookie t.
Sent(x, t, request) ==
    [tab |-> x, phase |-> "sent", answer |-> NoAnswer,
     request |-> [request EXCEPT
        !.token = IF request.op \in {"session", "logout", "call", "reset"} THEN t ELSE None,
        !.state = IF request.op = "callback" THEN stateCookie ELSE None]]

Busy == {i \in Slots : exchange[i].phase # "idle"}

Send(x, request) ==
    /\ Cardinality(Busy) < bound.requests
    /\ \E i \in Slots \ Busy : exchange' = [exchange EXCEPT ![i] = Sent(x, jar, request)]
    /\ UNCHANGED tab

Call(op) == [NoRequest EXCEPT !.op = op]

UnderWay(x, ops) == \E i \in Slots : exchange[i].tab = x /\ exchange[i].request.op \in ops

\* Another document replaces the one of tab x, whose requests nobody waits for any
\* more; those served, as Expire and CreateSession have it, leave nothing else.
Dropped(x) == [i \in Slots |-> IF exchange[i].tab = x THEN Free ELSE exchange[i]]

\* App is mounted and loads the session, in a slot of its own.
MountedIn(i, x, t) == [Dropped(x) EXCEPT ![i] = Sent(x, t, Call("session"))]

\* The user acts.
Act == UNCHANGED <<cookies, server, approval>>

\* A visit, or a reload.
Open(x) ==
    /\ Cardinality({i \in Busy : exchange[i].tab # x}) < bound.requests
    /\ \E i \in Slots : /\ exchange[i].tab \in {None, x}
                        /\ exchange' = MountedIn(i, x, jar)
    /\ tab' = [tab EXCEPT ![x] = Page("loading")]
    /\ Act

\* isSubmittingLogin disables the form.
Login(x) ==
    /\ tab[x].page = "login" /\ ~UnderWay(x, {"login"})
    /\ \E u \in bound.accounts : Send(x, [Call("login") EXCEPT !.user = u])
    /\ Act

\* The button is there whatever is under way, another logout or a reset.
Logout(x) ==
    /\ tab[x].page = "app"
    /\ Send(x, Call("logout"))
    /\ Act

\* isSubmittingPasswordReset disables the form, signed out and in again or not.
Reset(x) ==
    /\ tab[x].page = "app" /\ ~UnderWay(x, {"reset"})
    /\ Send(x, Call("reset"))
    /\ Act

Work(x) ==
    /\ tab[x].page = "app"
    /\ Send(x, Call("call"))
    /\ Act

\* The link to googleLoginURL.
GoogleLink(x) ==
    /\ tab[x].page = "login" /\ ~UnderWay(x, Navigations)
    /\ Send(x, Call("start"))
    /\ Act

\* A link, the history, or an address copied from another tab.
Leave(x) ==
    /\ tab' = [tab EXCEPT ![x] = Page("away")]
    /\ exchange' = Dropped(x)
    /\ Act

\* Likewise the address Google redirected to.
Revisit(x) ==
    /\ ~UnderWay(x, Navigations)
    /\ \E c \in Codes :
        /\ approval[c] # None
        /\ Send(x, [Call("callback") EXCEPT !.code = c])
    /\ Act

\* Google issues a code for the handshake of state s: external.
Grant(s) ==
    \E c \in Codes, e \in Addresses \cup {Unverified} :
        /\ approval[c] = None
        /\ approval' = [approval EXCEPT ![c] = [state |-> s, email |-> e]]

\* Google, whose consent page may be that of any handshake begun, redirects to
\* RedirectURL with the state it was given and a new code.
Approve(x) ==
    /\ tab[x].page = "away" /\ ~UnderWay(x, Navigations)
    /\ \E s \in States : begun[s] # None /\ Grant(s)
    /\ \E c \in Codes :
        /\ approval'[c] # approval[c]
        /\ Send(x, [Call("callback") EXCEPT !.code = c])
    /\ UNCHANGED <<cookies, server>>

Deny(x) ==
    /\ tab[x].page = "away" /\ ~UnderWay(x, Navigations)
    /\ Send(x, Call("callback"))
    /\ Act

-----------------------------------------------------------------------------
(* The handlers *)

\* What of a request its answer is read with: the token, if it tells of a session.
Asked(q, answer) ==
    [Call(q.op) EXCEPT !.token =
        IF q.op \in {"session", "call", "reset"} /\ answer # NoAnswer THEN q.token ELSE None]

Respond(i, answer) ==
    /\ exchange' = [exchange EXCEPT ![i].phase = "answered", ![i].answer = answer,
                                    ![i].request = Asked(@, answer)]
    /\ UNCHANGED tab

Fails(i) == Respond(i, NoAnswer) /\ UNCHANGED server

Serving(i, op) == exchange[i].phase = "sent" /\ exchange[i].request.op = op

SignedOut == [NoAnswer EXCEPT !.ok = TRUE]
SignedIn(u) == [SignedOut EXCEPT !.user = u]

\* currentUser; without a cookie there is nobody to find.
Found(i) ==
    LET t == exchange[i].request.token IN IF t = None THEN None ELSE session[t]

\* Mutant: any error of the store clears the cookie.
HandleSessionClears(i) ==
    /\ Serving(i, "session")
    /\ \/ Respond(i, [NoAnswer EXCEPT !.cookie = Clear])
       \/ Respond(i, IF Found(i) # None THEN SignedIn(Found(i))
                     ELSE [SignedOut EXCEPT !.cookie = Clear])
    /\ UNCHANGED server

\* Only a token without a session clears the cookie, not an error.
HandleSession(i) ==
    /\ Serving(i, "session")
    /\ \/ Fails(i)
       \/ /\ Found(i) # None /\ Respond(i, SignedIn(Found(i)))
          /\ UNCHANGED server
       \/ /\ Found(i) = None
          /\ Respond(i, [SignedOut EXCEPT !.cookie =
                             IF exchange[i].request.token = None THEN Keep ELSE Clear])
          /\ UNCHANGED server

\* requireSession, which answers 401 and clears the cookie of a session that is
\* gone; else the route refuses, or succeeds: it tells the page nothing of the
\* session then, but that a reset answers the session state.
RequireSession(i) ==
    LET u == Found(i) IN
    /\ Serving(i, "call") \/ Serving(i, "reset")
    /\ \/ Fails(i)
       \/ /\ u # None /\ Serving(i, "reset")
          /\ Respond(i, SignedIn(u))
          /\ UNCHANGED server
       \/ /\ u = None
          /\ Respond(i, [NoAnswer EXCEPT !.cookie =
                             IF exchange[i].request.token = None THEN Keep ELSE Clear])
          /\ UNCHANGED server

\* A token generated is one nobody has any more.
Fresh(t) ==
    /\ session[t] = None
    /\ jar # t
    /\ \A i \in Slots : exchange[i].request.token # t /\ exchange[i].answer.cookie # t

\* store.CreateSession.
CreateSession(t, u) ==
    /\ Fresh(t)
    /\ session' = [session EXCEPT ![t] = u]
    /\ UNCHANGED begun

\* The cookie is set before buildSessionState, which may fail.
HandleLogin(i) ==
    LET u == exchange[i].request.user IN
    /\ Serving(i, "login")
    /\ \/ Fails(i)
       \/ \E t \in Tokens :
            /\ CreateSession(t, u)
            /\ \/ Respond(i, [SignedIn(u) EXCEPT !.cookie = t])
               \/ Respond(i, [NoAnswer EXCEPT !.cookie = t])

\* The error of DeleteSession is ignored.
HandleLogout(i) ==
    LET t == exchange[i].request.token IN
    /\ Serving(i, "logout")
    /\ Respond(i, [SignedOut EXCEPT !.cookie = Clear])
    /\ \/ UNCHANGED session
       \/ t # None /\ session' = [session EXCEPT ![t] = None]
    /\ UNCHANGED begun

\* A handshake begins, with a state of its own.
Begins(s, where) ==
    /\ begun[s] = None /\ Cardinality({r \in States : begun[r] # None}) < bound.handshakes
    /\ begun' = [begun EXCEPT ![s] = where]

HandleGoogleLoginStart(i) ==
    /\ Serving(i, "start")
    /\ \/ Fails(i)
       \/ \E s \in States :
            /\ Begins(s, "here")
            /\ Respond(i, [SignedOut EXCEPT !.state = s])
            /\ UNCHANGED session

\* Mutant: any state will do.
StateMatchesAny(i) == exchange[i].request.code # None

\* The state in the address is that of the cookie.
StateMatches(i) ==
    LET q == exchange[i].request IN
    /\ q.code # None
    /\ q.state # None
    /\ approval[q.code].state = q.state

\* Google takes a code once: external.
Exchange(c) ==
    /\ approval' = [approval EXCEPT ![c] = Spent]

\* Mutant: email_verified is not looked at.
AdmittedUnverified(a) == a.email = Unverified \/ (a.email \in Gmail /\ a.email \in Accounts)

Admitted(a) == a.email \in Gmail /\ a.email \in Accounts

\* Every refusal redirects home with an authError, CreateSession failing answers
\* 500.  The deferred clearing of the state cookie comes after http.Redirect has
\* written the header and has no effect.
HandleGoogleLoginCallback(i) ==
    LET c == exchange[i].request.code IN
    /\ Serving(i, "callback")
    /\ \/ /\ Respond(i, SignedOut)
          /\ \/ UNCHANGED approval
             \/ StateMatches(i) /\ Exchange(c)
          /\ UNCHANGED server
       \/ /\ StateMatches(i) /\ Exchange(c) /\ Admitted(approval[c])
          /\ \/ Fails(i)
             \/ \E t \in Tokens :
                  /\ CreateSession(t, approval[c].email)
                  /\ Respond(i, [SignedOut EXCEPT !.cookie = t])

-----------------------------------------------------------------------------
(* The answers *)

\* The browser stores the cookies before the page sees the answer.
Cookie(i) ==
    CASE exchange[i].answer.cookie = Keep  -> jar
      [] exchange[i].answer.cookie = Clear -> None
      [] OTHER                             -> exchange[i].answer.cookie

\* A page that goes on showing its user learns nothing of a new cookie.
Stays(x, i) ==
    [tab[x] EXCEPT !.touched = @ \/ (tab[x].page = "app" /\ Cookie(i) # jar)]

\* applySessionState.
ShowsSession(i, user) ==
    [Page(IF user = None THEN "login" ELSE "app") EXCEPT
        !.user = user,
        !.touched = /\ user # None /\ exchange[i].answer.cookie = Keep
                    /\ exchange[i].request.token # jar]

\* What the tab x makes of an answer, or of there being none.  A page told that its
\* session has expired says so and stays.
After(x, i) ==
    LET op == exchange[i].request.op
        a  == exchange[i].answer IN
    CASE op = "session" -> ShowsSession(i, IF a.ok THEN a.user ELSE None)
      [] op \in {"login", "reset"} /\ a.ok -> ShowsSession(i, a.user)
      [] op \in {"login", "reset"} /\ ~a.ok -> Stays(x, i)
      [] op = "call"    -> Stays(x, i)
      [] op = "logout"  -> tab[x]
      [] op = "start" /\ a.ok -> Page("away")
      [] op = "callback" /\ a.ok -> Page("loading")
      [] op \in Navigations /\ ~a.ok -> Page("away")

\* Mutant: the page of a user who has logged out stays as it is.
AfterLogoutUnloaded(x, i) == [exchange EXCEPT ![i] = Free]

\* handleLogout loads the session whatever became of the request.
AfterLogout(x, i) == [exchange EXCEPT ![i] = Sent(x, Cookie(i), Call("session"))]

\* What is under way then.
Left(x, i) ==
    LET op == exchange[i].request.op IN
    CASE op = "logout" -> AfterLogout(x, i)
      [] op = "callback" /\ exchange[i].answer.ok -> MountedIn(i, x, Cookie(i))
      [] op = "start" \/ (op = "callback" /\ ~exchange[i].answer.ok) -> Dropped(x)
      [] OTHER -> [exchange EXCEPT ![i] = Free]

Arrive(i) ==
    LET state == exchange[i].answer.state
        x     == exchange[i].tab IN
    /\ exchange[i].phase = "answered"
    /\ jar' = Cookie(i)
    /\ stateCookie' = IF state = None THEN stateCookie ELSE state
    /\ tab' = [y \in Tabs |-> IF y = x THEN After(x, i) ELSE Stays(y, i)]
    /\ exchange' = Left(x, i)
    /\ UNCHANGED <<server, approval>>

\* The connection fails, or the user gives up, before or after the request has
\* been served.
Lose(i) ==
    /\ \/ exchange[i].phase = "sent"
       \/ exchange[i].phase = "answered" /\ exchange[i].answer # NoAnswer
    /\ Respond(i, NoAnswer)
    /\ UNCHANGED <<cookies, server, approval>>

-----------------------------------------------------------------------------
\* Another browser begins a handshake, or gets an approval, whose address its
\* user then passes on.
Elsewhere ==
    \E s \in States :
        \/ /\ Begins(s, "elsewhere")
           /\ UNCHANGED <<cookies, tab, exchange, session, approval>>
        \/ /\ begun[s] = "elsewhere" /\ Grant(s)
           /\ UNCHANGED <<cookies, tab, exchange, server>>

\* sessionLifetime has passed, or the session has been ended elsewhere.
Expire(t) ==
    /\ session[t] # None
    /\ session' = [session EXCEPT ![t] = None]
    /\ UNCHANGED <<cookies, tab, exchange, begun, approval>>

\* googleStateCookieLifetime has passed.
ExpireState ==
    /\ stateCookie # None
    /\ stateCookie' = None
    /\ UNCHANGED <<jar, tab, exchange, server, approval>>

Init ==
    /\ jar = None
    /\ stateCookie = None
    /\ tab = [x \in Tabs |-> Page("away")]
    /\ exchange = [i \in Slots |-> Free]
    /\ session = [t \in Tokens |-> None]
    /\ begun = [s \in States |-> None]
    /\ approval = [c \in Codes |-> None]
    /\ bound \in Bounds

Use(x) ==
    \/ Open(x) \/ Login(x) \/ Logout(x) \/ Reset(x) \/ Work(x)
    \/ GoogleLink(x) \/ Leave(x) \/ Revisit(x) \/ Approve(x) \/ Deny(x)

Handle(i) ==
    /\ \/ /\ \/ HandleSession(i) \/ HandleLogin(i) \/ HandleLogout(i)
             \/ RequireSession(i)
             \/ HandleGoogleLoginStart(i)
          /\ UNCHANGED approval
       \/ HandleGoogleLoginCallback(i)
    /\ UNCHANGED cookies

Next ==
    /\ \/ \E x \in Tabs : Use(x)
       \/ \E i \in Slots : Handle(i) \/ Arrive(i) \/ Lose(i)
       \/ \E t \in Tokens : Expire(t)
       \/ ExpireState \/ Elsewhere
    /\ UNCHANGED bound

Spec == Init /\ [][Next]_vars

-----------------------------------------------------------------------------
(* Properties *)

\* The callback's answer opens a session for whoever the handshake admits only.
OpensForAdmitted(i) ==
    /\ exchange[i].phase = "sent" /\ exchange[i].request.op = "callback"
    /\ exchange'[i].answer.cookie \in Tokens
    => LET a == approval[exchange[i].request.code] IN
       begun[a.state] = "here" /\ a.email \in Gmail \cap Accounts

\* Google opens a session (handleGoogleLoginCallback) only in the browser that
\* began the handshake, for the verified Gmail address of an account, and once for
\* each approval: although the state cookie outlives its handshake, and addresses
\* are reloaded, taken from the history or copied from another browser.
HandshakeBound == [][\A i \in Slots : OpensForAdmitted(i)]_vars

\* Unless its own logout or a load of the session is under way, a page that shows a
\* user is in a browser that holds that user's session, expired perhaps.  Two things
\* only make it false (touched): the cookie has changed since the page learnt of it,
\* by an answer to another tab or by one that leaves the page as it is (a 401, a
\* login that failed after the cookie was set); or what the page shows was the answer
\* to a request sent with another cookie than the browser has now: a load another
\* tab has overtaken, or a password reset answered after the same tab has signed out,
\* whose applySessionState shows its user again (PasswordSetupView leaves 'Log out'
\* enabled).  No failure of a login, a logout or a load does.
PageAgreesWithCookie ==
    \A x \in Tabs :
        tab[x].page = "app" /\ ~tab[x].touched /\ ~UnderWay(x, {"logout", "session"}) =>
            jar # None /\ session[jar] \in {tab[x].user, None}

\* An answer that takes a live session from the browser is a logout's, or was
\* asked for with another cookie.
TakesForCause(i) ==
    jar # None /\ jar' = None /\ session[jar] # None /\ Arrive(i)
        => exchange[i].request.op = "logout" \/ exchange[i].request.token # jar

\* A live session leaves the browser only by a logout, by a newer session, or by
\* the answer to a request sent with an older cookie (handleSession and
\* requireSession clear the cookie of the moment, newer or not): no failing store
\* ever signs a browser out.
SignedOutForCause == [][\A i \in Slots : TakesForCause(i)]_vars

=============================================================================
