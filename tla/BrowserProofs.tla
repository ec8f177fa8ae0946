---------------------------- MODULE BrowserProofs ----------------------------
(***************************************************************************)
(* Proofs about Browser, for any number of tabs, users, sessions, requests *)
(* under way and handshakes.                                               *)
(*                                                                         *)
(* The argument: what a request was sent with and what its answer says     *)
(* stay in agreement with the server while the others act.  A session a    *)
(* request or an answer knows of can only end, since its token is not      *)
(* generated again; a handshake stays begun where it was begun.            *)
(***************************************************************************)
EXTENDS Browser, TLAPS

USE NoneAssumption, WordsAssumption

\* j is a session cookie of user u, or the session has ended in m.
Agrees(j, u, m) == j # None /\ m[j] \in {u, None}

\* A request in the state e, with the sessions m, the handshakes b and the
\* approvals a.
SlotFits(e, m, b, a) ==
    /\ e.phase = "idle" => e = Free
    /\ e.phase # "idle" => e.tab \in Tabs /\ e.request.op \in Ops
    /\ e.phase # "answered" => e.answer = NoAnswer
    /\ e.request.code # None => a[e.request.code] \in Approval
    \* The states of its cookie belong to handshakes of this browser.
    /\ e.request.state # None => b[e.request.state] = "here"
    /\ e.answer.state # None => b[e.answer.state] = "here"
    \* An answer that names a user comes with a session of that user.
    /\ e.answer.user # None =>
          \/ e.answer.cookie = Keep /\ Agrees(e.request.token, e.answer.user, m)
          \/ e.answer.cookie \in Tokens /\ Agrees(e.answer.cookie, e.answer.user, m)
    \* One that clears the cookie, other than a logout, has found it dead.
    /\ e.answer.cookie = Clear /\ e.request.op # "logout" =>
          e.request.token # None /\ m[e.request.token] = None

\* With the requests e, the tab x has its logout or a load of the session under way.
Loads(x, e) == \E i \in Slots : e[i].tab = x /\ e[i].request.op \in {"logout", "session"}

\* The page q of tab x, with the session cookie j, is that of the cookie's user.
PageFits(x, q, j, m, e) ==
    q.page = "app" /\ ~q.touched /\ ~Loads(x, e) => Agrees(j, q.user, m)

\* The inductive invariant.
Inv ==
    /\ TypeOK
    /\ stateCookie # None => begun[stateCookie] = "here"
    /\ \A i \in Slots : SlotFits(exchange[i], session, begun, approval)
    /\ \A x \in Tabs : PageFits(x, tab[x], jar, session, exchange)

-----------------------------------------------------------------------------
(* Requests and answers *)

LEMMA Calls ==
    /\ NoRequest \in Request /\ NoRequest.op = None /\ NoRequest.token = None
    /\ NoRequest.state = None /\ NoRequest.code = None
    /\ \A op \in Ops : /\ Call(op) \in Request /\ Call(op).op = op /\ Call(op).code = None
                       /\ Call(op).token = None /\ Call(op).state = None
BY DEF NoRequest, Call, Request

LEMMA Answers ==
    /\ NoAnswer \in Answer /\ ~NoAnswer.ok /\ NoAnswer.user = None
    /\ NoAnswer.cookie = Keep /\ NoAnswer.state = None
    /\ SignedOut \in Answer /\ SignedOut.ok /\ SignedOut.user = None
    /\ SignedOut.cookie = Keep /\ SignedOut.state = None
    /\ \A u \in Accounts \cup {None} :
          /\ SignedIn(u) \in Answer /\ SignedIn(u).ok /\ SignedIn(u).user = u
          /\ SignedIn(u).cookie = Keep /\ SignedIn(u).state = None
    /\ Keep \notin Tokens /\ Clear \notin Tokens /\ Keep # Clear
BY DEF NoAnswer, SignedOut, SignedIn, Answer, Keep, Clear

\* An answer with another cookie, and one with a state cookie.
LEMMA WithCookie ==
    ASSUME NEW a \in Answer, NEW c \in Tokens \cup {Keep, Clear}
    PROVE  LET n == [a EXCEPT !.cookie = c] IN
           /\ n \in Answer /\ n.ok = a.ok /\ n.user = a.user
           /\ n.cookie = c /\ n.state = a.state
BY DEF Answer

LEMMA WithState ==
    ASSUME NEW a \in Answer, NEW s \in States
    PROVE  LET n == [a EXCEPT !.state = s] IN
           /\ n \in Answer /\ n.ok = a.ok /\ n.user = a.user
           /\ n.cookie = a.cookie /\ n.state = s
BY DEF Answer

LEMMA FreeFields ==
    /\ Free \in RoundTrip /\ Free.tab = None /\ Free.phase = "idle"
    /\ Free.request = NoRequest /\ Free.answer = NoAnswer
BY Calls, Answers DEF Free, RoundTrip

LEMMA PageFields ==
    ASSUME NEW page \in Pages
    PROVE  /\ Page(page) \in Tab /\ Page(page).page = page /\ Page(page).user = None
           /\ ~Page(page).touched
BY DEF Page, Tab

LEMMA FreeFits ==
    ASSUME NEW m, NEW b, NEW a
    PROVE  SlotFits(Free, m, b, a)
BY FreeFields, Calls, Answers DEF SlotFits

LEMMA SentFields ==
    ASSUME TypeOK, NEW x \in Tabs, NEW t \in Tokens \cup {None}, NEW r \in Request
    PROVE  LET e == Sent(x, t, r) IN
           /\ e \in RoundTrip /\ e.tab = x /\ e.phase = "sent" /\ e.answer = NoAnswer
           /\ e.request.op = r.op /\ e.request.code = r.code
           /\ e.request.state \in {None, stateCookie}
<1> DEFINE token == IF r.op \in {"session", "logout", "call", "reset"} THEN t ELSE None
           state == IF r.op = "callback" THEN stateCookie ELSE None
           n == [r EXCEPT !.token = token, !.state = state]
           e == [tab |-> x, phase |-> "sent", answer |-> NoAnswer, request |-> n]
<1>1. /\ token \in Tokens \cup {None} /\ state \in States \cup {None}
      /\ state \in {None, stateCookie}
  BY DEF TypeOK
<1> HIDE DEF token, state
<1>2. n \in Request /\ n.op = r.op /\ n.code = r.code /\ n.state = state
  BY <1>1 DEF Request
<1> HIDE DEF n
<1>3. /\ e \in RoundTrip /\ e.tab = x /\ e.phase = "sent" /\ e.answer = NoAnswer
      /\ e.request = n
  BY <1>2, Answers DEF RoundTrip
<1>4. Sent(x, t, r) = e
  BY DEF Sent, e, n, token, state
<1> HIDE DEF e
<1>5. QED BY <1>1, <1>2, <1>3, <1>4

Responded(e, n) ==
    [e EXCEPT !.phase = "answered", !.answer = n, !.request = Asked(e.request, n)]

LEMMA RespondedFields ==
    ASSUME NEW e \in RoundTrip, NEW n \in Answer, e.request.op \in Ops
    PROVE  LET f == Responded(e, n) IN
           /\ f \in RoundTrip /\ f.phase = "answered" /\ f.answer = n /\ f.tab = e.tab
           /\ f.request.op = e.request.op /\ f.request.code = None
           /\ f.request.state = None
           /\ e.request.op \in {"session", "call", "reset"} /\ n # NoAnswer
                => f.request.token = e.request.token
<1> DEFINE token == IF e.request.op \in {"session", "call", "reset"} /\ n # NoAnswer
                    THEN e.request.token ELSE None
           r == [Call(e.request.op) EXCEPT !.token = token]
           f == [e EXCEPT !.phase = "answered", !.answer = n, !.request = r]
<1>1. token \in Tokens \cup {None}
  BY DEF RoundTrip, Request
<1>2. e.request.op \in {"session", "call", "reset"} /\ n # NoAnswer
         => token = e.request.token
  OBVIOUS
<1> HIDE DEF token
<1>3. Call(e.request.op) \in Request /\ Call(e.request.op).op = e.request.op
      /\ Call(e.request.op).code = None /\ Call(e.request.op).state = None
  BY Calls
<1>4. /\ r \in Request /\ r.op = e.request.op /\ r.code = None /\ r.state = None
      /\ r.token = token
  BY <1>1, <1>3 DEF Request
<1>5. r = Asked(e.request, n)
  BY DEF Asked, token
<1> HIDE DEF r
<1>6. /\ f \in RoundTrip /\ f.phase = "answered" /\ f.answer = n /\ f.request = r
      /\ f.tab = e.tab
  BY <1>4 DEF RoundTrip
<1>7. f = Responded(e, n)
  BY <1>5 DEF Responded
<1> HIDE DEF f
<1>8. QED BY <1>2, <1>4, <1>6, <1>7

-----------------------------------------------------------------------------
(* What a step leaves as it was *)

\* The sessions after a handler, an expiry or nothing: a token that somebody
\* knows is not given out again.
Sessions ==
    /\ session' \in [Tokens -> Accounts \cup {None}]
    /\ \A t \in Tokens : session'[t] \in {session[t], None} \/ Fresh(t)

\* The server goes on: handshakes stay begun where they were, approvals issued.
Onward ==
    /\ Sessions
    /\ begun' \in [States -> {"here", "elsewhere", None}]
    /\ \A s \in States : begun[s] # None => begun'[s] = begun[s]
    /\ approval' \in [Codes -> Approval \cup {None}]
    /\ \A c \in Codes : approval[c] \in Approval => approval'[c] \in Approval
    /\ bound' = bound

LEMMA AgreesStays ==
    ASSUME Inv, Sessions, NEW t, NEW u, Agrees(t, u, session), t \in Tokens, ~Fresh(t)
    PROVE  Agrees(t, u, session')
BY DEF Agrees, Sessions

LEMMA Known ==
    ASSUME Inv
    PROVE  /\ jar \in Tokens => ~Fresh(jar)
           /\ \A i \in Slots :
                 /\ exchange[i].request.token \in Tokens => ~Fresh(exchange[i].request.token)
                 /\ exchange[i].answer.cookie \in Tokens => ~Fresh(exchange[i].answer.cookie)
BY DEF Fresh

LEMMA SlotTypes ==
    ASSUME Inv, NEW i \in Slots
    PROVE  /\ exchange[i] \in RoundTrip /\ exchange[i].request \in Request
           /\ exchange[i].answer \in Answer /\ exchange[i].tab \in Tabs \cup {None}
           /\ exchange[i].request.token \in Tokens \cup {None}
           /\ exchange[i].request.code \in Codes \cup {None}
           /\ exchange[i].request.user \in Accounts \cup {None}
           /\ exchange[i].request.state \in States \cup {None}
           /\ exchange[i].answer.state \in States \cup {None}
           /\ exchange[i].answer.user \in Accounts \cup {None}
           /\ exchange[i].answer.ok \in BOOLEAN
           /\ exchange[i].answer.cookie \in Tokens \cup {Keep, Clear}
           /\ SlotFits(exchange[i], session, begun, approval)
<1>1. exchange[i] \in RoundTrip /\ SlotFits(exchange[i], session, begun, approval)
  BY DEF Inv, TypeOK
<1>2. /\ exchange[i].request \in Request /\ exchange[i].answer \in Answer
      /\ exchange[i].tab \in Tabs \cup {None}
  BY <1>1 DEF RoundTrip
<1>3. QED BY <1>1, <1>2 DEF Request, Answer

LEMMA SlotStays ==
    ASSUME Inv, Onward, NEW i \in Slots
    PROVE  SlotFits(exchange[i], session', begun', approval')
<1> DEFINE e == exchange[i]
<1>1. /\ e.request.token \in Tokens \cup {None} /\ e.request.code \in Codes \cup {None}
      /\ e.request.state \in States \cup {None} /\ e.answer.state \in States \cup {None}
      /\ SlotFits(e, session, begun, approval)
  BY SlotTypes
<1>2. /\ e.request.token \in Tokens => ~Fresh(e.request.token)
      /\ e.answer.cookie \in Tokens => ~Fresh(e.answer.cookie)
  BY Known
<1> HIDE DEF e
<1>3. e.answer.user # None =>
          \/ e.answer.cookie = Keep /\ Agrees(e.request.token, e.answer.user, session')
          \/ e.answer.cookie \in Tokens /\ Agrees(e.answer.cookie, e.answer.user, session')
  <2>1. Agrees(e.request.token, e.answer.user, session)
           => Agrees(e.request.token, e.answer.user, session')
    BY <1>1, <1>2, AgreesStays DEF Agrees, Onward
  <2>2. e.answer.cookie \in Tokens /\ Agrees(e.answer.cookie, e.answer.user, session)
           => Agrees(e.answer.cookie, e.answer.user, session')
    BY <1>1, <1>2, AgreesStays DEF Onward
  <2>3. QED BY <1>1, <2>1, <2>2 DEF SlotFits
<1>4. e.answer.cookie = Clear /\ e.request.op # "logout" =>
          e.request.token # None /\ session'[e.request.token] = None
  BY <1>1, <1>2 DEF SlotFits, Onward, Sessions
<1>5. QED
  <2>1. /\ e.request.code # None => approval'[e.request.code] \in Approval
        /\ e.request.state # None => begun'[e.request.state] = "here"
        /\ e.answer.state # None => begun'[e.answer.state] = "here"
    BY <1>1 DEF SlotFits, Onward
  <2>2. QED BY <1>1, <1>3, <1>4, <2>1 DEF SlotFits, e

\* A page goes on as it is while its cookie does and while it loads no less.
LEMMA PageStays ==
    ASSUME Inv, Sessions, NEW x \in Tabs, jar' = jar, tab'[x] = tab[x],
           Loads(x, exchange) => Loads(x, exchange')
    PROVE  PageFits(x, tab'[x], jar', session', exchange')
<1> SUFFICES ASSUME tab[x].page = "app", ~tab[x].touched, ~Loads(x, exchange')
             PROVE  Agrees(jar, tab[x].user, session')
  BY DEF PageFits
<1>1. Agrees(jar, tab[x].user, session)
  BY DEF Inv, PageFits
<1>2. jar \in Tokens
  BY <1>1 DEF Inv, TypeOK, Agrees
<1>3. QED BY <1>1, <1>2, Known, AgreesStays

\* A step whose changes are those to be looked at.
LEMMA Step ==
    ASSUME Inv, Onward, jar' \in Tokens \cup {None},
           stateCookie' \in States \cup {None},
           stateCookie' # None => begun'[stateCookie'] = "here",
           tab' \in [Tabs -> Tab], exchange' \in [Slots -> RoundTrip],
           \A i \in Slots : \/ exchange'[i] = exchange[i]
                            \/ SlotFits(exchange'[i], session', begun', approval'),
           \A x \in Tabs : PageFits(x, tab'[x], jar', session', exchange')
    PROVE  Inv'
<1>1. TypeOK'
  BY DEF Inv, TypeOK, Onward, Sessions
<1>2. \A i \in Slots : SlotFits(exchange'[i], session', begun', approval')
  BY SlotStays
<1>3. (\A i \in Slots : SlotFits(exchange[i], session, begun, approval))'
  BY <1>2 DEF SlotFits, Agrees
<1>4. (\A x \in Tabs : PageFits(x, tab[x], jar, session, exchange))'
  BY DEF PageFits, Agrees, Loads
<1>5. QED BY <1>1, <1>3, <1>4 DEF Inv

LEMMA CookieStays ==
    ASSUME Inv, Onward, stateCookie' \in {stateCookie, None}
    PROVE  /\ stateCookie' \in States \cup {None}
           /\ stateCookie' # None => begun'[stateCookie'] = "here"
BY DEF Inv, TypeOK, Onward

-----------------------------------------------------------------------------
(* The user *)

\* A request just sent.
LEMMA SentFits ==
    ASSUME Inv, NEW x \in Tabs, NEW t \in Tokens \cup {None}, NEW r \in Request, r.op \in Ops,
           NEW a, r.code # None => a[r.code] \in Approval
    PROVE  /\ SlotFits(Sent(x, t, r), session, begun, a)
           /\ Sent(x, t, r) \in RoundTrip
<1> DEFINE e == Sent(x, t, r)
<1>1. /\ e \in RoundTrip /\ e.tab = x /\ e.phase = "sent" /\ e.answer = NoAnswer
      /\ e.request.op = r.op /\ e.request.code = r.code
      /\ e.request.state \in {None, stateCookie}
  BY SentFields DEF Inv
<1> HIDE DEF e
<1>2. SlotFits(e, session, begun, a)
  BY <1>1, Answers DEF SlotFits, Inv
<1>3. QED BY <1>1, <1>2 DEF e

LEMMA SendKeeps ==
    ASSUME Inv, NEW x \in Tabs, NEW r \in Request, r.op \in Ops, Send(x, r),
           r.code # None => approval'[r.code] \in Approval,
           approval' \in [Codes -> Approval \cup {None}],
           \A c \in Codes : approval[c] \in Approval => approval'[c] \in Approval,
           UNCHANGED <<cookies, server, bound>>
    PROVE  Inv'
<1>1. PICK i \in Slots \ Busy : exchange' = [exchange EXCEPT ![i] = Sent(x, jar, r)]
  BY DEF Send
<1>2. tab' = tab /\ jar' = jar /\ stateCookie' = stateCookie /\ session' = session
      /\ begun' = begun
  BY DEF Send, cookies, server
<1>3. /\ SlotFits(Sent(x, jar, r), session', begun', approval')
      /\ Sent(x, jar, r) \in RoundTrip
  BY <1>2, SentFits DEF Inv, TypeOK
<1>4. /\ exchange' \in [Slots -> RoundTrip]
      /\ exchange'[i] = Sent(x, jar, r) /\ \A k \in Slots \ {i} : exchange'[k] = exchange[k]
  BY <1>1, <1>3 DEF Inv, TypeOK
<1>5. exchange[i].tab = None
  BY <1>1, SlotTypes, FreeFields DEF Busy, SlotFits
<1>6. Onward
  BY <1>2 DEF Onward, Sessions, Inv, TypeOK
<1>7. \A y \in Tabs : PageFits(y, tab'[y], jar', session', exchange')
  <2> SUFFICES ASSUME NEW y \in Tabs, Loads(y, exchange) PROVE Loads(y, exchange')
    BY <1>2, <1>6, PageStays DEF Onward
  <2>1. PICK k \in Slots : exchange[k].tab = y /\ exchange[k].request.op \in {"logout", "session"}
    BY DEF Loads
  <2>2. exchange'[k] = exchange[k]
    BY <1>4, <1>5, <2>1
  <2>3. QED BY <2>1, <2>2 DEF Loads
<1>8. QED
  <2>1. \A k \in Slots : \/ exchange'[k] = exchange[k]
                         \/ SlotFits(exchange'[k], session', begun', approval')
    BY <1>3, <1>4
  <2>2. tab' \in [Tabs -> Tab] /\ jar' \in Tokens \cup {None}
    BY <1>2 DEF Inv, TypeOK
  <2>3. QED BY <1>2, <1>4, <1>6, <1>7, <2>1, <2>2, Step, CookieStays

LEMMA UserKeeps ==
    ASSUME Inv, NEW x \in Tabs,
           Login(x) \/ Logout(x) \/ Reset(x) \/ Work(x) \/ GoogleLink(x) \/ Deny(x),
           UNCHANGED bound
    PROVE  Inv'
<1>1. PICK r \in Request : r.op \in Ops /\ r.code = None /\ Send(x, r)
  <2>1. CASE Login(x)
    <3>1. PICK u \in bound.accounts : Send(x, [Call("login") EXCEPT !.user = u])
      BY <2>1 DEF Login
    <3>2. u \in Accounts
      BY BoundsAssumption DEF Inv, TypeOK
    <3>3. Call("login") \in Request /\ Call("login").op = "login" /\ Call("login").code = None
      BY Calls DEF Ops
    <3> DEFINE r == [Call("login") EXCEPT !.user = u]
    <3>4. r \in Request /\ r.op = "login" /\ r.code = None
      BY <3>2, <3>3 DEF Request
    <3>5. QED BY <3>1, <3>4 DEF Ops
  <2>2. CASE Logout(x) \/ Reset(x) \/ Work(x) \/ GoogleLink(x) \/ Deny(x)
    <3>1. PICK op \in {"logout", "reset", "call", "start", "callback"} : Send(x, Call(op))
      BY <2>2 DEF Logout, Reset, Work, GoogleLink, Deny
    <3>2. op \in Ops
      BY DEF Ops
    <3>3. QED BY <3>1, <3>2, Calls
  <2>3. QED BY <2>1, <2>2
<1>2. UNCHANGED <<cookies, server, approval>>
  BY DEF Login, Logout, Reset, Work, GoogleLink, Deny, Act
<1>3. approval' \in [Codes -> Approval \cup {None}]
  BY <1>2 DEF Inv, TypeOK
<1>4. QED BY <1>1, <1>2, <1>3, SendKeeps

\* Tab x begins another document, page q: of the slots, its own and free ones change.
LEMMA ReplaceKeeps ==
    ASSUME Inv, Onward, NEW x \in Tabs, NEW q \in Tab, q.page # "app",
           jar' \in Tokens \cup {None},
           stateCookie' \in States \cup {None},
           stateCookie' # None => begun'[stateCookie'] = "here",
           tab' \in [Tabs -> Tab], tab'[x] = q,
           \A y \in Tabs \ {x} : PageFits(y, tab'[y], jar', session', exchange),
           exchange' \in [Slots -> RoundTrip],
           \A i \in Slots :
              \/ exchange'[i] = exchange[i]
              \/ /\ exchange[i].tab \in {None, x}
                 /\ SlotFits(exchange'[i], session', begun', approval')
    PROVE  Inv'
<1>1. ASSUME NEW y \in Tabs
      PROVE  PageFits(y, tab'[y], jar', session', exchange')
  <2>1. CASE y = x
    BY <2>1 DEF PageFits
  <2>2. CASE y # x
    <3>1. Loads(y, exchange) => Loads(y, exchange')
      <4> SUFFICES ASSUME Loads(y, exchange) PROVE Loads(y, exchange')
        OBVIOUS
      <4>1. PICK k \in Slots : /\ exchange[k].tab = y
                               /\ exchange[k].request.op \in {"logout", "session"}
        BY DEF Loads
      <4>2. exchange'[k] = exchange[k]
        BY <2>2, <4>1
      <4>3. QED BY <4>1, <4>2 DEF Loads
    <3>2. QED BY <2>2, <3>1 DEF PageFits
  <2>3. QED BY <2>1, <2>2
<1>2. QED BY <1>1, Step

\* The slots after the document of tab x has gone, and after App has been mounted.
LEMMA DroppedFits ==
    ASSUME Inv, NEW x \in Tabs, NEW m, NEW b, NEW a
    PROVE  /\ Dropped(x) \in [Slots -> RoundTrip]
           /\ \A i \in Slots : \/ Dropped(x)[i] = exchange[i]
                               \/ /\ exchange[i].tab \in {None, x}
                                  /\ SlotFits(Dropped(x)[i], m, b, a)
<1>1. \A i \in Slots : Dropped(x)[i] = IF exchange[i].tab = x THEN Free ELSE exchange[i]
  BY DEF Dropped
<1>2. Dropped(x) \in [Slots -> RoundTrip]
  BY FreeFields DEF Dropped, Inv, TypeOK
<1>3. SlotFits(Free, m, b, a)
  BY FreeFits
<1>4. QED BY <1>1, <1>2, <1>3

LEMMA MountedFits ==
    ASSUME Inv, NEW x \in Tabs, NEW k \in Slots, exchange[k].tab \in {None, x},
           NEW t \in Tokens \cup {None}
    PROVE  /\ MountedIn(k, x, t) \in [Slots -> RoundTrip]
           /\ \A i \in Slots :
                 \/ MountedIn(k, x, t)[i] = exchange[i]
                 \/ /\ exchange[i].tab \in {None, x}
                    /\ SlotFits(MountedIn(k, x, t)[i], session, begun, approval)
<1> DEFINE e == Sent(x, t, Call("session"))
<1>1. e \in RoundTrip /\ SlotFits(e, session, begun, approval)
  <2>1. Call("session") \in Request /\ Call("session").op \in Ops /\ Call("session").code = None
    BY Calls DEF Ops
  <2>2. QED BY <2>1, SentFits
<1> HIDE DEF e
<1>2. /\ Dropped(x) \in [Slots -> RoundTrip]
      /\ \A i \in Slots : \/ Dropped(x)[i] = exchange[i]
                          \/ /\ exchange[i].tab \in {None, x}
                             /\ SlotFits(Dropped(x)[i], session, begun, approval)
  BY DroppedFits
<1>3. MountedIn(k, x, t) = [Dropped(x) EXCEPT ![k] = e]
  BY DEF MountedIn, e
<1>4. QED BY <1>1, <1>2, <1>3

LEMMA OpenKeeps ==
    ASSUME Inv, NEW x \in Tabs, Open(x) \/ Leave(x), UNCHANGED bound
    PROVE  Inv'
<1>1. UNCHANGED <<jar, stateCookie, session, begun, approval, bound>>
  BY DEF Open, Leave, Act, cookies, server
<1>2. Onward
  BY <1>1 DEF Onward, Sessions, Inv, TypeOK
<1>3. PICK page \in {"loading", "away"} : tab' = [tab EXCEPT ![x] = Page(page)]
  BY DEF Open, Leave
<1>4. Page(page) \in Tab /\ Page(page).page # "app"
  BY PageFields DEF Pages
<1>5. /\ tab' \in [Tabs -> Tab] /\ tab'[x] = Page(page)
      /\ \A y \in Tabs \ {x} : tab'[y] = tab[y]
  BY <1>3, <1>4 DEF Inv, TypeOK
<1>6. \A y \in Tabs \ {x} : PageFits(y, tab'[y], jar', session', exchange)
  BY <1>1, <1>5 DEF Inv
<1>7. /\ exchange' \in [Slots -> RoundTrip]
      /\ \A i \in Slots : \/ exchange'[i] = exchange[i]
                          \/ /\ exchange[i].tab \in {None, x}
                             /\ SlotFits(exchange'[i], session', begun', approval')
  <2>1. CASE Leave(x)
    BY <1>1, <2>1, DroppedFits DEF Leave
  <2>2. CASE Open(x)
    <3>1. PICK k \in Slots : exchange[k].tab \in {None, x} /\ exchange' = MountedIn(k, x, jar)
      BY <2>2 DEF Open
    <3>2. jar \in Tokens \cup {None}
      BY DEF Inv, TypeOK
    <3>3. QED BY <1>1, <3>1, <3>2, MountedFits
  <2>3. QED BY <2>1, <2>2
<1>8. jar' \in Tokens \cup {None}
  BY <1>1 DEF Inv, TypeOK
<1>9. QED BY <1>1, <1>2, <1>4, <1>5, <1>6, <1>7, <1>8, ReplaceKeeps, CookieStays

LEMMA CallbackCall ==
    ASSUME NEW c \in Codes
    PROVE  LET r == [Call("callback") EXCEPT !.code = c] IN
           r \in Request /\ r.op = "callback" /\ r.code = c /\ r.op \in Ops
<1>1. Call("callback") \in Request /\ Call("callback").op = "callback"
  BY Calls DEF Ops
<1>2. QED BY <1>1 DEF Request, Ops

LEMMA RevisitKeeps ==
    ASSUME Inv, NEW x \in Tabs, Revisit(x), UNCHANGED bound
    PROVE  Inv'
<1>1. PICK c \in Codes : approval[c] # None /\ Send(x, [Call("callback") EXCEPT !.code = c])
  BY DEF Revisit
<1> DEFINE r == [Call("callback") EXCEPT !.code = c]
<1>2. r \in Request /\ r.op = "callback" /\ r.code = c /\ r.op \in Ops
  BY CallbackCall
<1>3. UNCHANGED <<cookies, server, approval>>
  BY DEF Revisit, Act
<1>4. approval' \in [Codes -> Approval \cup {None}] /\ approval'[c] \in Approval /\ Send(x, r)
  BY <1>1, <1>3 DEF Inv, TypeOK
<1> HIDE DEF r
<1>5. QED BY <1>1, <1>2, <1>3, <1>4, SendKeeps

\* What Google's approval leaves of the approvals.
LEMMA Granted ==
    ASSUME Inv, NEW s \in States, Grant(s)
    PROVE  /\ approval' \in [Codes -> Approval \cup {None}]
           /\ \A c \in Codes : /\ approval[c] \in Approval => approval'[c] \in Approval
                               /\ approval'[c] # approval[c] => approval'[c] \in Approval
<1>1. PICK c \in Codes, e \in Addresses \cup {Unverified} :
         /\ approval[c] = None
         /\ approval' = [approval EXCEPT ![c] = [state |-> s, email |-> e]]
  BY DEF Grant
<1>2. [state |-> s, email |-> e] \in Approval
  BY DEF Approval
<1>3. approval \in [Codes -> Approval \cup {None}]
  BY DEF Inv, TypeOK
<1>4. QED BY <1>1, <1>2, <1>3

LEMMA ApproveKeeps ==
    ASSUME Inv, NEW x \in Tabs, Approve(x), UNCHANGED bound
    PROVE  Inv'
<1>1. PICK c \in Codes : /\ approval'[c] # approval[c]
                         /\ Send(x, [Call("callback") EXCEPT !.code = c])
  BY DEF Approve
<1> DEFINE r == [Call("callback") EXCEPT !.code = c]
<1>2. r \in Request /\ r.op = "callback" /\ r.code = c /\ r.op \in Ops
  BY CallbackCall
<1>3. PICK s \in States : Grant(s)
  BY DEF Approve
<1>4. /\ approval' \in [Codes -> Approval \cup {None}]
      /\ \A d \in Codes : /\ approval[d] \in Approval => approval'[d] \in Approval
                          /\ approval'[d] # approval[d] => approval'[d] \in Approval
  BY <1>3, Granted
<1>5. UNCHANGED <<cookies, server>> /\ Send(x, r)
  BY <1>1 DEF Approve
<1> HIDE DEF r
<1>6. QED BY <1>1, <1>2, <1>4, <1>5, SendKeeps

-----------------------------------------------------------------------------
(* The handlers *)

\* What an answer n to the request r may say, with sessions m and handshakes b.
Honest(r, n, m, b) ==
    /\ n.state # None => b[n.state] = "here"
    /\ n.user # None =>
          \/ /\ n.cookie = Keep /\ r.op \in {"session", "call", "reset"}
             /\ Agrees(r.token, n.user, m)
          \/ n.cookie \in Tokens /\ Agrees(n.cookie, n.user, m)
    /\ n.cookie = Clear /\ r.op # "logout" =>
          r.op \in {"session", "call", "reset"} /\ r.token # None /\ m[r.token] = None

LEMMA RespondKeeps ==
    ASSUME Inv, NEW i \in Slots, NEW n \in Answer, exchange[i].phase # "idle", Respond(i, n),
           Honest(exchange[i].request, n, session', begun'), Onward, UNCHANGED cookies
    PROVE  Inv'
<1> DEFINE e == Responded(exchange[i], n)
<1>1. exchange[i] \in RoundTrip /\ exchange[i].request.op \in Ops /\ exchange[i].tab \in Tabs
  BY SlotTypes DEF SlotFits
<1>2. /\ e \in RoundTrip /\ e.phase = "answered" /\ e.answer = n /\ e.tab = exchange[i].tab
      /\ e.request.op = exchange[i].request.op /\ e.request.code = None
      /\ e.request.state = None
      /\ exchange[i].request.op \in {"session", "call", "reset"} /\ n # NoAnswer
           => e.request.token = exchange[i].request.token
  BY <1>1, RespondedFields
<1>3. /\ exchange' \in [Slots -> RoundTrip] /\ exchange'[i] = e
      /\ \A k \in Slots \ {i} : exchange'[k] = exchange[k]
  BY <1>2 DEF Respond, Responded, Inv, TypeOK
<1> HIDE DEF e
<1>4. SlotFits(e, session', begun', approval')
  <2>1. e.answer.user # None \/ e.answer.cookie = Clear => n # NoAnswer
    BY <1>2, Answers
  <2>2. e.answer.user # None =>
            \/ e.answer.cookie = Keep /\ Agrees(e.request.token, e.answer.user, session')
            \/ e.answer.cookie \in Tokens /\ Agrees(e.answer.cookie, e.answer.user, session')
    BY <1>2, <2>1 DEF Honest
  <2>3. /\ e.answer.state # None => begun'[e.answer.state] = "here"
        /\ e.answer.cookie = Clear /\ e.request.op # "logout" =>
              e.request.token # None /\ session'[e.request.token] = None
    BY <1>2, <2>1 DEF Honest
  <2>4. QED BY <1>1, <1>2, <2>2, <2>3 DEF SlotFits
<1>5. tab' = tab /\ jar' = jar /\ stateCookie' = stateCookie
  BY DEF Respond, cookies
<1>6. ASSUME NEW y \in Tabs
      PROVE  PageFits(y, tab'[y], jar', session', exchange')
  <2>1. Loads(y, exchange) => Loads(y, exchange')
    BY <1>2, <1>3 DEF Loads
  <2>2. QED BY <1>5, <2>1, PageStays DEF Onward
<1>7. tab' \in [Tabs -> Tab] /\ jar' \in Tokens \cup {None}
  BY <1>5 DEF Inv, TypeOK
<1>8. \A k \in Slots : \/ exchange'[k] = exchange[k]
                       \/ SlotFits(exchange'[k], session', begun', approval')
  BY <1>3, <1>4
<1>9. QED BY <1>3, <1>5, <1>6, <1>7, <1>8, Step, CookieStays

\* An answer to a request that changes nothing at the server.
LEMMA AnswerKeeps ==
    ASSUME Inv, NEW i \in Slots, NEW n \in Answer, exchange[i].phase # "idle", Respond(i, n),
           Honest(exchange[i].request, n, session, begun),
           UNCHANGED <<cookies, server, approval, bound>>
    PROVE  Inv'
<1>1. Onward /\ UNCHANGED <<session, begun>>
  BY DEF Onward, Sessions, server, Inv, TypeOK
<1>2. Honest(exchange[i].request, n, session', begun')
  BY <1>1
<1>3. QED BY <1>1, <1>2, RespondKeeps

LEMMA FailsKeeps ==
    ASSUME Inv, NEW i \in Slots, exchange[i].phase # "idle", Respond(i, NoAnswer),
           UNCHANGED <<cookies, server, approval, bound>>
    PROVE  Inv'
<1>1. Honest(exchange[i].request, NoAnswer, session, begun) /\ NoAnswer \in Answer
  BY Answers DEF Honest
<1>2. QED BY <1>1, AnswerKeeps

LEMMA FoundType ==
    ASSUME Inv, NEW i \in Slots
    PROVE  /\ Found(i) \in Accounts \cup {None}
           /\ Found(i) # None => Agrees(exchange[i].request.token, Found(i), session)
           /\ Found(i) = None /\ exchange[i].request.token # None
                => session[exchange[i].request.token] = None
BY SlotTypes DEF Inv, TypeOK, Found, Agrees

\* An answer by whether the token is None: the cookie is kept, or cleared.
LEMMA ClearsDead ==
    ASSUME Inv, NEW i \in Slots, NEW n \in Answer, Found(i) = None, n.user = None,
           n.state = None, exchange[i].request.op \in {"session", "call", "reset"}
    PROVE  LET c == IF exchange[i].request.token = None THEN Keep ELSE Clear IN
           /\ [n EXCEPT !.cookie = c] \in Answer
           /\ Honest(exchange[i].request, [n EXCEPT !.cookie = c], session, begun)
<1> DEFINE c == IF exchange[i].request.token = None THEN Keep ELSE Clear
           a == [n EXCEPT !.cookie = c]
<1>1. c \in {Keep, Clear} /\ (c = Clear => exchange[i].request.token # None)
  BY Answers
<1> HIDE DEF c
<1>2. a \in Answer /\ a.user = None /\ a.cookie = c /\ a.state = None
  BY <1>1, WithCookie
<1> HIDE DEF a
<1>3. Honest(exchange[i].request, a, session, begun)
  BY <1>1, <1>2, FoundType, Answers DEF Honest
<1>4. QED BY <1>2, <1>3 DEF a, c

LEMMA HandleSessionKeeps ==
    ASSUME Inv, NEW i \in Slots, HandleSession(i) \/ RequireSession(i),
           UNCHANGED <<cookies, approval, bound>>
    PROVE  Inv'
<1>1. /\ exchange[i].phase # "idle" /\ exchange[i].request.op \in {"session", "call", "reset"}
      /\ UNCHANGED <<cookies, server, approval, bound>>
  BY DEF HandleSession, RequireSession, Serving, Fails
<1>2. CASE Respond(i, NoAnswer)
  BY <1>1, <1>2, FailsKeeps
<1>3. CASE Found(i) # None /\ Respond(i, SignedIn(Found(i)))
  <2> DEFINE n == SignedIn(Found(i))
  <2>1. n \in Answer /\ n.user = Found(i) /\ n.cookie = Keep /\ n.state = None
    BY FoundType, Answers
  <2>2. Honest(exchange[i].request, n, session, begun)
    <3> HIDE DEF n
    <3>1. QED BY <1>1, <1>3, <2>1, FoundType, Answers DEF Honest
  <2>3. QED BY <1>1, <1>3, <2>1, <2>2, AnswerKeeps
<1>4. CASE /\ Found(i) = None
           /\ \E n \in {NoAnswer, SignedOut} :
                 Respond(i, [n EXCEPT !.cookie =
                                IF exchange[i].request.token = None THEN Keep ELSE Clear])
  <2>1. PICK n \in {NoAnswer, SignedOut} :
           Respond(i, [n EXCEPT !.cookie =
                          IF exchange[i].request.token = None THEN Keep ELSE Clear])
    BY <1>4
  <2>2. n \in Answer /\ n.user = None /\ n.state = None
    BY Answers
  <2>3. LET c == IF exchange[i].request.token = None THEN Keep ELSE Clear IN
        /\ [n EXCEPT !.cookie = c] \in Answer
        /\ Honest(exchange[i].request, [n EXCEPT !.cookie = c], session, begun)
    BY <1>1, <1>4, <2>2, ClearsDead
  <2>4. QED BY <1>1, <2>1, <2>3, AnswerKeeps
<1>5. QED BY <1>1, <1>2, <1>3, <1>4 DEF HandleSession, RequireSession, Fails

\* A new session, in an answer that may name its user.
LEMMA CreateKeeps ==
    ASSUME Inv, NEW i \in Slots, NEW t \in Tokens, NEW u \in Accounts \cup {None},
           NEW n \in Answer, CreateSession(t, u), exchange[i].phase # "idle",
           Respond(i, [n EXCEPT !.cookie = t]),
           n.user \in {u, None}, n.state = None,
           exchange[i].request.op \in {"login", "callback"},
           approval' \in [Codes -> Approval \cup {None}],
           \A c \in Codes : approval[c] \in Approval => approval'[c] \in Approval,
           UNCHANGED <<cookies, bound>>
    PROVE  Inv'
<1> DEFINE a == [n EXCEPT !.cookie = t]
<1>1. a \in Answer /\ a.user = n.user /\ a.state = None /\ a.cookie = t
  BY WithCookie
<1> HIDE DEF a
<1>2. Sessions /\ session'[t] = u /\ begun' = begun
  BY DEF Sessions, CreateSession, Inv, TypeOK
<1>3. Honest(exchange[i].request, a, session', begun')
  BY <1>1, <1>2, Answers DEF Honest, Agrees
<1>4. Respond(i, a) /\ Onward
  BY <1>2 DEF a, Onward, Inv, TypeOK
<1>5. QED BY <1>1, <1>3, <1>4, RespondKeeps

LEMMA HandleLoginKeeps ==
    ASSUME Inv, NEW i \in Slots, HandleLogin(i), UNCHANGED <<cookies, approval, bound>>
    PROVE  Inv'
<1> DEFINE u == exchange[i].request.user
<1>1. /\ exchange[i].phase # "idle" /\ exchange[i].request.op = "login"
      /\ u \in Accounts \cup {None}
  BY SlotTypes DEF HandleLogin, Serving
<1>2. CASE Fails(i)
  BY <1>1, <1>2, FailsKeeps DEF Fails
<1>3. ASSUME NEW t \in Tokens, CreateSession(t, u),
             NEW n \in {SignedIn(u), NoAnswer}, Respond(i, [n EXCEPT !.cookie = t])
      PROVE  Inv'
  <2>1. n \in Answer /\ n.user \in {u, None} /\ n.state = None
    BY <1>1, Answers
  <2>2. approval' \in [Codes -> Approval \cup {None}]
    BY DEF Inv, TypeOK
  <2>3. QED BY <1>1, <1>3, <2>1, <2>2, CreateKeeps
<1>4. QED BY <1>2, <1>3 DEF HandleLogin

LEMMA HandleLogoutKeeps ==
    ASSUME Inv, NEW i \in Slots, HandleLogout(i), UNCHANGED <<cookies, approval, bound>>
    PROVE  Inv'
<1> DEFINE n == [SignedOut EXCEPT !.cookie = Clear]
<1>1. n \in Answer /\ n.user = None /\ n.state = None /\ n.cookie = Clear
  BY WithCookie, Answers
<1>2. Respond(i, n) /\ exchange[i].phase # "idle" /\ exchange[i].request.op = "logout"
  BY DEF HandleLogout, Serving
<1> HIDE DEF n
<1>3. Onward
  BY DEF HandleLogout, Onward, Sessions, Inv, TypeOK
<1>4. Honest(exchange[i].request, n, session', begun')
  BY <1>1, <1>2, Answers DEF Honest
<1>5. QED BY <1>1, <1>2, <1>3, <1>4, RespondKeeps

\* A handshake begun leaves the others as they are.
LEMMA Begun ==
    ASSUME Inv, NEW s \in States, NEW where \in {"here", "elsewhere"}, Begins(s, where)
    PROVE  /\ begun' \in [States -> {"here", "elsewhere", None}] /\ begun'[s] = where
           /\ \A v \in States : begun[v] # None => begun'[v] = begun[v]
BY DEF Begins, Inv, TypeOK

LEMMA HandleStartKeeps ==
    ASSUME Inv, NEW i \in Slots, HandleGoogleLoginStart(i),
           UNCHANGED <<cookies, approval, bound>>
    PROVE  Inv'
<1>1. exchange[i].phase # "idle" /\ exchange[i].request.op = "start"
  BY DEF HandleGoogleLoginStart, Serving
<1>2. CASE Fails(i)
  BY <1>1, <1>2, FailsKeeps DEF Fails
<1>3. ASSUME NEW s \in States, Begins(s, "here"),
             Respond(i, [SignedOut EXCEPT !.state = s]), UNCHANGED session
      PROVE  Inv'
  <2> DEFINE n == [SignedOut EXCEPT !.state = s]
  <2>1. n \in Answer /\ n.user = None /\ n.state = s /\ n.cookie = Keep
    BY WithState, Answers
  <2> HIDE DEF n
  <2>2. Onward /\ begun'[s] = "here"
    BY <1>3, Begun DEF Onward, Sessions, Inv, TypeOK
  <2>3. Honest(exchange[i].request, n, session', begun')
    BY <1>1, <2>1, <2>2, Answers DEF Honest
  <2>4. Respond(i, n)
    BY <1>3 DEF n
  <2>5. QED BY <1>1, <2>1, <2>2, <2>3, <2>4, RespondKeeps
<1>4. QED BY <1>2, <1>3 DEF HandleGoogleLoginStart

\* Exchanging a code leaves its approval in place.
LEMMA Exchanged ==
    ASSUME Inv, NEW c \in Codes, Exchange(c)
    PROVE  /\ approval' \in [Codes -> Approval \cup {None}]
           /\ \A d \in Codes : approval[d] \in Approval => approval'[d] \in Approval
<1>1. Spent \in Approval
  BY DEF Approval
<1>2. QED BY <1>1 DEF Exchange, Inv, TypeOK

LEMMA HandleCallbackKeeps ==
    ASSUME Inv, NEW i \in Slots, HandleGoogleLoginCallback(i), UNCHANGED <<cookies, bound>>
    PROVE  Inv'
<1> DEFINE c == exchange[i].request.code
<1>1. exchange[i].phase # "idle" /\ exchange[i].request.op = "callback"
  BY DEF HandleGoogleLoginCallback, Serving
<1>2. StateMatches(i) => c \in Codes
  BY SlotTypes DEF StateMatches
<1>3. /\ approval' \in [Codes -> Approval \cup {None}]
      /\ \A d \in Codes : approval[d] \in Approval => approval'[d] \in Approval
  <2>1. CASE UNCHANGED approval
    BY <2>1 DEF Inv, TypeOK
  <2>2. CASE StateMatches(i) /\ Exchange(c)
    BY <1>2, <2>2, Exchanged
  <2>3. QED BY <2>1, <2>2 DEF HandleGoogleLoginCallback
<1>4. ASSUME NEW n \in {SignedOut, NoAnswer}, Respond(i, n), UNCHANGED server
      PROVE  Inv'
  <2>1. n \in Answer /\ Honest(exchange[i].request, n, session', begun')
    BY <1>1, Answers DEF Honest
  <2>2. Onward
    BY <1>3, <1>4 DEF Onward, Sessions, server, Inv, TypeOK
  <2>3. QED BY <1>1, <1>4, <2>1, <2>2, RespondKeeps
<1>5. ASSUME NEW t \in Tokens, CreateSession(t, approval[c].email), Admitted(approval[c]),
             Respond(i, [SignedOut EXCEPT !.cookie = t])
      PROVE  Inv'
  <2>1. approval[c].email \in Accounts \cup {None}
    BY <1>5 DEF Admitted
  <2>2. SignedOut \in Answer /\ SignedOut.user = None /\ SignedOut.state = None
    BY Answers
  <2>3. QED BY <1>1, <1>3, <1>5, <2>1, <2>2, CreateKeeps
<1>6. QED BY <1>4, <1>5 DEF HandleGoogleLoginCallback, Fails

LEMMA LoseKeeps ==
    ASSUME Inv, NEW i \in Slots, Lose(i), UNCHANGED bound
    PROVE  Inv'
BY FailsKeeps DEF Lose

-----------------------------------------------------------------------------
(* The answers *)

LEMMA CookieType ==
    ASSUME Inv, NEW i \in Slots
    PROVE  /\ Cookie(i) \in Tokens \cup {None}
           /\ exchange[i].answer.cookie = Keep => Cookie(i) = jar
           /\ exchange[i].answer.cookie = Clear => Cookie(i) = None
           /\ exchange[i].answer.cookie \in Tokens => Cookie(i) = exchange[i].answer.cookie
<1> DEFINE cookie == exchange[i].answer.cookie
<1>1. cookie \in Tokens \cup {Keep, Clear} /\ jar \in Tokens \cup {None}
  BY SlotTypes DEF Inv, TypeOK
<1>2. Keep \notin Tokens /\ Clear \notin Tokens /\ Keep # Clear
  BY Answers
<1>3. CASE cookie = Keep
  BY <1>1, <1>2, <1>3 DEF Cookie
<1>4. CASE cookie = Clear
  BY <1>1, <1>2, <1>4 DEF Cookie
<1>5. CASE cookie \in Tokens
  BY <1>1, <1>2, <1>5 DEF Cookie
<1>6. QED BY <1>1, <1>3, <1>4, <1>5

\* A page that stays as it is agrees with the cookie an answer leaves, if it loads no
\* less, or has been touched.
LEMMA StaysFits ==
    ASSUME Inv, NEW i \in Slots, NEW y \in Tabs, NEW e, Loads(y, exchange) => Loads(y, e)
    PROVE  /\ Stays(y, i) \in Tab
           /\ PageFits(y, Stays(y, i), Cookie(i), session, e)
<1> DEFINE touched == tab[y].touched \/ (tab[y].page = "app" /\ Cookie(i) # jar)
<1>1. tab[y] \in Tab /\ PageFits(y, tab[y], jar, session, exchange)
  BY DEF Inv, TypeOK
<1>2. touched \in BOOLEAN
  BY <1>1 DEF Tab
<1>3. Stays(y, i) = [tab[y] EXCEPT !.touched = touched]
  BY DEF Stays
<1>4. ~touched => ~tab[y].touched /\ (tab[y].page = "app" => Cookie(i) = jar)
  OBVIOUS
<1> HIDE DEF touched
<1>5. /\ Stays(y, i) \in Tab /\ Stays(y, i).page = tab[y].page
      /\ Stays(y, i).user = tab[y].user /\ Stays(y, i).touched = touched
  BY <1>1, <1>2, <1>3 DEF Tab
<1>6. QED BY <1>1, <1>4, <1>5 DEF PageFits

\* The page of a session state agrees with the cookie the answer has left.
LEMMA ShowsSessionFits ==
    ASSUME Inv, NEW i \in Slots, NEW x \in Tabs, NEW e, NEW u \in Accounts \cup {None},
           u # None => u = exchange[i].answer.user
    PROVE  /\ ShowsSession(i, u) \in Tab
           /\ PageFits(x, ShowsSession(i, u), Cookie(i), session, e)
<1>1. PICK page \in Pages : page = IF u = None THEN "login" ELSE "app"
  BY DEF Pages
<1> DEFINE touched == /\ u # None /\ exchange[i].answer.cookie = Keep
                      /\ exchange[i].request.token # jar
           q == [Page(page) EXCEPT !.user = u, !.touched = touched]
<1>2. u # None /\ ~touched => Agrees(Cookie(i), u, session)
  <2> SUFFICES ASSUME u # None, ~touched PROVE Agrees(Cookie(i), u, session)
    OBVIOUS
  <2>1. SlotFits(exchange[i], session, begun, approval)
    BY DEF Inv
  <2>2. CASE exchange[i].answer.cookie = Keep /\ Agrees(exchange[i].request.token, u, session)
    BY <2>2, CookieType
  <2>3. CASE /\ exchange[i].answer.cookie \in Tokens
             /\ Agrees(exchange[i].answer.cookie, u, session)
    BY <2>3, CookieType
  <2>4. QED BY <2>1, <2>2, <2>3 DEF SlotFits
<1>3. Page(page) \in Tab /\ Page(page).page = page
  BY PageFields
<1>4. q = ShowsSession(i, u) /\ touched \in BOOLEAN
  BY <1>1 DEF ShowsSession
<1> HIDE DEF touched
<1>5. q \in Tab /\ q.page = page /\ q.user = u /\ q.touched = touched
  BY <1>3, <1>4 DEF Tab
<1> HIDE DEF q
<1>6. page = "app" => u # None
  BY <1>1
<1>7. PageFits(x, q, Cookie(i), session, e)
  BY <1>2, <1>5, <1>6 DEF PageFits
<1>8. QED BY <1>4, <1>5, <1>7

\* What is under way once an answer has come: the tab's own slots change only.
LEMMA LeftFits ==
    ASSUME Inv, NEW i \in Slots, exchange[i].phase = "answered"
    PROVE  LET x == exchange[i].tab IN
           /\ Left(x, i) \in [Slots -> RoundTrip]
           /\ \A k \in Slots :
                 \/ Left(x, i)[k] = exchange[k]
                 \/ /\ exchange[k].tab \in {None, x}
                    /\ SlotFits(Left(x, i)[k], session, begun, approval)
           /\ exchange[i].request.op = "logout" => Loads(x, Left(x, i))
           /\ exchange[i].request.op \in {"login", "call", "reset"}
                => (Loads(x, exchange) => Loads(x, Left(x, i)))
<1> DEFINE x == exchange[i].tab
           op == exchange[i].request.op
<1>1. x \in Tabs /\ op \in Ops /\ exchange \in [Slots -> RoundTrip]
  BY SlotTypes DEF SlotFits, Inv, TypeOK
<1>2. CASE op = "logout"
  <2> DEFINE e == Sent(x, Cookie(i), Call("session"))
  <2>1. Call("session") \in Request /\ Call("session").op = "session"
        /\ Call("session").code = None /\ "session" \in Ops
    BY Calls DEF Ops
  <2>2. /\ e \in RoundTrip /\ SlotFits(e, session, begun, approval)
        /\ e.tab = x /\ e.request.op = "session"
    BY <1>1, <2>1, CookieType, SentFits, SentFields DEF Inv
  <2>3. Left(x, i) = [exchange EXCEPT ![i] = e]
    BY <1>2 DEF Left, AfterLogout
  <2> HIDE DEF e
  <2>4. Left(x, i)[i] = e /\ \A k \in Slots \ {i} : Left(x, i)[k] = exchange[k]
    BY <1>1, <2>3
  <2>5. Left(x, i) \in [Slots -> RoundTrip]
    BY <1>1, <2>2, <2>3
  <2>6. QED BY <1>2, <2>2, <2>4, <2>5 DEF Loads
<1>3. CASE op = "callback" /\ exchange[i].answer.ok
  <2>1. Left(x, i) = MountedIn(i, x, Cookie(i))
    BY <1>3 DEF Left
  <2>2. QED BY <1>1, <1>3, <2>1, CookieType, MountedFits
<1>4. CASE op = "start" \/ (op = "callback" /\ ~exchange[i].answer.ok)
  <2>1. Left(x, i) = Dropped(x)
    BY <1>4 DEF Left
  <2>2. /\ Dropped(x) \in [Slots -> RoundTrip]
        /\ \A k \in Slots : \/ Dropped(x)[k] = exchange[k]
                            \/ /\ exchange[k].tab \in {None, x}
                               /\ SlotFits(Dropped(x)[k], session, begun, approval)
    BY <1>1, DroppedFits
  <2>3. op \notin {"logout", "login", "call", "reset"}
    BY <1>4
  <2>4. QED BY <2>1, <2>2, <2>3
<1>5. CASE op \in {"session", "login", "call", "reset"}
  <2>1. Left(x, i) = [exchange EXCEPT ![i] = Free]
    BY <1>5 DEF Left
  <2>2. Left(x, i)[i] = Free /\ \A k \in Slots \ {i} : Left(x, i)[k] = exchange[k]
    BY <1>1, <2>1
  <2>3. Left(x, i) \in [Slots -> RoundTrip]
    BY <1>1, <2>1, FreeFields
  <2>4. op # "session" => (Loads(x, exchange) => Loads(x, Left(x, i)))
    BY <1>5, <2>2 DEF Loads
  <2>5. QED BY <1>5, <2>2, <2>3, <2>4, FreeFits
<1>6. QED BY <1>1, <1>2, <1>3, <1>4, <1>5 DEF Ops

LEMMA AfterFits ==
    ASSUME Inv, NEW i \in Slots, exchange[i].phase = "answered"
    PROVE  LET x == exchange[i].tab IN
           /\ After(x, i) \in Tab
           /\ PageFits(x, After(x, i), Cookie(i), session, Left(x, i))
<1> DEFINE x == exchange[i].tab
           a == exchange[i].answer
           op == exchange[i].request.op
<1>1. x \in Tabs /\ op \in Ops /\ a.user \in Accounts \cup {None} /\ tab[x] \in Tab
  BY SlotTypes DEF SlotFits, Inv, TypeOK
<1>2. CASE op = "session"
  <2>1. After(x, i) = ShowsSession(i, IF a.ok THEN a.user ELSE None)
    BY <1>2 DEF After, Navigations
  <2>2. QED BY <1>1, <2>1, ShowsSessionFits
<1>3. CASE op \in {"login", "reset"} /\ a.ok
  <2>1. After(x, i) = ShowsSession(i, a.user)
    BY <1>3 DEF After, Navigations
  <2>2. QED BY <1>1, <2>1, ShowsSessionFits
<1>4. CASE (op \in {"login", "reset"} /\ ~a.ok) \/ op = "call"
  <2>1. After(x, i) = Stays(x, i)
    BY <1>4 DEF After, Navigations
  <2>2. Loads(x, exchange) => Loads(x, Left(x, i))
    BY <1>4, LeftFits
  <2>3. QED BY <1>1, <2>1, <2>2, StaysFits
<1>5. CASE op = "logout"
  <2>1. After(x, i) = tab[x]
    BY <1>5 DEF After, Navigations
  <2>2. Loads(x, Left(x, i))
    BY <1>5, LeftFits
  <2>3. QED BY <1>1, <2>1, <2>2 DEF PageFits
<1>6. CASE op \in Navigations
  <2>1. PICK page \in {"loading", "away"} : After(x, i) = Page(page)
    BY <1>6 DEF After, Navigations
  <2>2. QED BY <2>1, PageFields DEF PageFits, Pages
<1>7. QED BY <1>1, <1>2, <1>3, <1>4, <1>5, <1>6 DEF Ops, Navigations

LEMMA ArriveKeeps ==
    ASSUME Inv, NEW i \in Slots, Arrive(i), UNCHANGED bound
    PROVE  Inv'
<1> DEFINE x == exchange[i].tab
<1>1. /\ exchange[i].phase = "answered" /\ x \in Tabs
      /\ SlotFits(exchange[i], session, begun, approval)
      /\ exchange[i].answer.state \in States \cup {None}
  BY SlotTypes DEF Arrive, SlotFits
<1>2. /\ jar' = Cookie(i) /\ exchange' = Left(x, i) /\ UNCHANGED <<session, begun, approval>>
      /\ tab' = [y \in Tabs |-> IF y = x THEN After(x, i) ELSE Stays(y, i)]
      /\ stateCookie' \in {stateCookie, exchange[i].answer.state}
  BY DEF Arrive, server
<1>3. Onward
  BY <1>2 DEF Onward, Sessions, Inv, TypeOK
<1>4. /\ After(x, i) \in Tab
      /\ PageFits(x, After(x, i), jar', session', exchange')
  BY <1>1, <1>2, AfterFits
<1>5. /\ exchange' \in [Slots -> RoundTrip]
      /\ \A k \in Slots : \/ exchange'[k] = exchange[k]
                          \/ /\ exchange[k].tab \in {None, x}
                             /\ SlotFits(exchange'[k], session', begun', approval')
  BY <1>1, <1>2, LeftFits
<1>6. ASSUME NEW y \in Tabs \ {x}
      PROVE  Stays(y, i) \in Tab /\ PageFits(y, Stays(y, i), jar', session', exchange')
  <2>1. Loads(y, exchange) => Loads(y, exchange')
    <3> SUFFICES ASSUME Loads(y, exchange) PROVE Loads(y, exchange')
      OBVIOUS
    <3>1. PICK k \in Slots : /\ exchange[k].tab = y
                             /\ exchange[k].request.op \in {"logout", "session"}
      BY DEF Loads
    <3>2. exchange'[k] = exchange[k]
      BY <1>5, <3>1
    <3>3. QED BY <3>1, <3>2 DEF Loads
  <2>2. QED BY <1>2, <2>1, StaysFits
<1>7. tab' \in [Tabs -> Tab] /\ \A y \in Tabs : PageFits(y, tab'[y], jar', session', exchange')
  <2>1. \A y \in Tabs : tab'[y] = IF y = x THEN After(x, i) ELSE Stays(y, i)
    BY <1>2
  <2>2. tab' \in [Tabs -> Tab]
    BY <1>2, <1>4, <1>6
  <2>3. QED BY <1>4, <1>6, <2>1, <2>2
<1>8. /\ jar' \in Tokens \cup {None} /\ stateCookie' \in States \cup {None}
      /\ stateCookie' # None => begun'[stateCookie'] = "here"
  <2>1. jar' \in Tokens \cup {None}
    BY <1>2, CookieType
  <2>2. CASE stateCookie' = stateCookie
    BY <1>2, <2>1, <2>2 DEF Inv, TypeOK
  <2>3. CASE stateCookie' = exchange[i].answer.state
    BY <1>1, <1>2, <2>1, <2>3 DEF SlotFits
  <2>4. QED BY <1>2, <2>2, <2>3
<1>9. QED BY <1>3, <1>5, <1>7, <1>8, Step

-----------------------------------------------------------------------------
(* The others *)

\* Steps at the server that no request takes part in.
LEMMA ServerKeeps ==
    ASSUME Inv, UNCHANGED <<jar, tab, exchange>>, stateCookie' \in {stateCookie, None}, Onward
    PROVE  Inv'
<1>1. \A x \in Tabs : PageFits(x, tab'[x], jar', session', exchange')
  BY PageStays DEF Onward
<1>2. /\ jar' \in Tokens \cup {None} /\ tab' \in [Tabs -> Tab]
      /\ exchange' \in [Slots -> RoundTrip]
  BY DEF Inv, TypeOK
<1>3. QED BY <1>1, <1>2, CookieStays, Step

LEMMA OthersKeep ==
    ASSUME Inv, ExpireState \/ Elsewhere \/ \E t \in Tokens : Expire(t), UNCHANGED bound
    PROVE  Inv'
<1>1. CASE ExpireState
  <2>1. Onward
    BY <1>1 DEF ExpireState, server, Onward, Sessions, Inv, TypeOK
  <2>2. QED BY <1>1, <2>1, ServerKeeps DEF ExpireState
<1>2. ASSUME NEW t \in Tokens, Expire(t)
      PROVE  Inv'
  <2>1. Onward
    BY <1>2 DEF Expire, Onward, Sessions, Inv, TypeOK
  <2>2. QED BY <1>2, <2>1, ServerKeeps DEF Expire, cookies
<1>3. ASSUME NEW s \in States, Begins(s, "elsewhere"),
             UNCHANGED <<cookies, tab, exchange, session, approval>>
      PROVE  Inv'
  <2>1. Onward
    BY <1>3, Begun DEF Onward, Sessions, Inv, TypeOK
  <2>2. QED BY <1>3, <2>1, ServerKeeps DEF cookies
<1>4. ASSUME NEW s \in States, Grant(s), UNCHANGED <<cookies, tab, exchange, server>>
      PROVE  Inv'
  <2>1. Onward
    BY <1>4, Granted DEF Onward, Sessions, server, Inv, TypeOK
  <2>2. QED BY <1>4, <2>1, ServerKeeps DEF cookies
<1>5. QED BY <1>1, <1>2, <1>3, <1>4 DEF Elsewhere

-----------------------------------------------------------------------------
(* Invariance *)

LEMMA InitInv == Init => Inv
<1> SUFFICES ASSUME Init PROVE Inv
  OBVIOUS
<1>1. Page("away") \in Tab /\ Page("away").page # "app"
  BY PageFields DEF Pages
<1>2. TypeOK
  BY <1>1, FreeFields DEF Init, TypeOK
<1>3. \A i \in Slots : SlotFits(exchange[i], session, begun, approval)
  BY FreeFits DEF Init
<1>4. \A x \in Tabs : PageFits(x, tab[x], jar, session, exchange)
  BY <1>1 DEF Init, PageFits
<1>5. QED BY <1>2, <1>3, <1>4 DEF Init, Inv

LEMMA NextInv == Inv /\ [Next]_vars => Inv'
<1> SUFFICES ASSUME Inv, [Next]_vars PROVE Inv'
  OBVIOUS
<1>1. ASSUME NEW x \in Tabs, Use(x), UNCHANGED bound PROVE Inv'
  BY <1>1, OpenKeeps, UserKeeps, RevisitKeeps, ApproveKeeps DEF Use
<1>2. ASSUME NEW i \in Slots, Handle(i), UNCHANGED bound PROVE Inv'
  BY <1>2, HandleSessionKeeps, HandleLoginKeeps, HandleLogoutKeeps, HandleStartKeeps,
     HandleCallbackKeeps DEF Handle
<1>3. ASSUME NEW i \in Slots, Arrive(i) \/ Lose(i), UNCHANGED bound PROVE Inv'
  BY <1>3, ArriveKeeps, LoseKeeps
<1>4. CASE UNCHANGED vars
  <2>1. Onward /\ UNCHANGED <<jar, tab, exchange, stateCookie>>
    BY <1>4 DEF vars, Onward, Sessions, Inv, TypeOK
  <2>2. QED BY <2>1, ServerKeeps
<1>5. QED BY <1>1, <1>2, <1>3, <1>4, OthersKeep DEF Next

\* The invariant of the tabs, their requests, their cookies and the auth handlers.
THEOREM Invariance == Spec => []Inv
BY InitInv, NextInv, PTL DEF Spec

\* Every reachable state is well typed.
THEOREM TypeCorrect == Spec => []TypeOK
<1>1. Inv => TypeOK
  BY DEF Inv
<1>2. QED BY <1>1, Invariance, PTL

\* A page that shows a user is in a browser with that user's session, unless its
\* logout or a load of the session is under way, the cookie has changed since the
\* page learnt of it, or what it shows was asked for with another cookie, as that of
\* a password reset answered after its own tab has signed out.
THEOREM PagesAgree == Spec => []PageAgreesWithCookie
<1>1. Inv => PageAgreesWithCookie
  BY DEF Inv, PageFits, Loads, UnderWay, Agrees, PageAgreesWithCookie
<1>2. QED BY <1>1, Invariance, PTL

\* A session is opened by handleGoogleLoginCallback for an admitted address, by a
\* request that carries the state its browser began the handshake with.
LEMMA CallbackOpens ==
    ASSUME Inv, NEW i \in Slots, HandleGoogleLoginCallback(i),
           exchange'[i].answer.cookie \in Tokens
    PROVE  LET a == approval[exchange[i].request.code] IN
           begun[a.state] = "here" /\ a.email \in Gmail \cap Accounts
<1>1. ASSUME NEW n \in {SignedOut, NoAnswer}, Respond(i, n)
      PROVE  FALSE
  <2>1. exchange'[i].answer = n
    BY <1>1 DEF Respond, Inv, TypeOK, RoundTrip
  <2>2. QED BY <2>1, Answers
<1>2. StateMatches(i) /\ Admitted(approval[exchange[i].request.code])
  BY <1>1 DEF HandleGoogleLoginCallback, Fails
<1>3. begun[exchange[i].request.state] = "here"
  BY <1>2 DEF StateMatches, Inv, SlotFits
<1>4. QED BY <1>2, <1>3 DEF StateMatches, Admitted

\* A request just sent, or a slot that is free, opens no session; nor does a request
\* that is not answered.
LEMMA Unopened ==
    ASSUME Inv, NEW i \in Slots, exchange[i].phase # "answered", NEW r, NEW x,
           NEW t, \/ exchange'[i] \in {exchange[i], Free}
                  \/ exchange'[i] = Sent(x, t, r)
                  \/ exchange'[i].answer = NoAnswer
    PROVE  exchange'[i].answer.cookie \notin Tokens
<1>1. exchange[i].answer = NoAnswer /\ Free.answer = NoAnswer /\ Sent(x, t, r).answer = NoAnswer
  BY FreeFields DEF Inv, SlotFits, Sent
<1>2. QED BY <1>1, Answers

\* Google signs in only the browser that began the handshake, and only a verified
\* Gmail address with an account, however tabs, codes and addresses are mixed up.
THEOREM HandshakesBound == Spec => HandshakeBound
<1>1. ASSUME Inv, Next, NEW i \in Slots
      PROVE  OpensForAdmitted(i)
  <2> SUFFICES ASSUME exchange[i].phase = "sent", exchange[i].request.op = "callback",
                      exchange'[i].answer.cookie \in Tokens
               PROVE  LET a == approval[exchange[i].request.code] IN
                      begun[a.state] = "here" /\ a.email \in Gmail \cap Accounts
    BY DEF OpensForAdmitted
  <2> exchange \in [Slots -> RoundTrip]
    BY <1>1 DEF Inv, TypeOK
  <2>1. exchange[i].answer = NoAnswer
    BY <1>1 DEF Inv, SlotFits
  <2>2. ASSUME exchange'[i] = exchange[i] PROVE FALSE
    BY <2>1, <2>2, Answers
  <2>3. ASSUME NEW k \in Slots \ {i}, NEW n, Respond(k, n) PROVE FALSE
    BY <2>2, <2>3 DEF Respond
  <2>4. CASE ExpireState \/ Elsewhere \/ \E t \in Tokens : Expire(t)
    BY <2>2, <2>4 DEF ExpireState, Elsewhere, Expire
  <2>5. CASE \E x \in Tabs : Use(x)
    <3>1. PICK x \in Tabs : Use(x)
      BY <2>5
    <3>2. ASSUME NEW r, Send(x, r) PROVE FALSE
      <4>1. exchange'[i] = exchange[i]
        BY <3>2 DEF Send, Busy
      <4>2. QED BY <2>2, <4>1
    <3>3. Open(x) \/ Leave(x)
      BY <3>1, <3>2 DEF Use, Login, Logout, Reset, Work, GoogleLink, Revisit, Approve, Deny
    <3>4. exchange'[i] \in {exchange[i], Free} \/ exchange'[i] = Sent(x, jar, Call("session"))
      BY <3>3 DEF Open, Leave, MountedIn, Dropped
    <3>5. QED BY <1>1, <3>4, Unopened
  <2>6. CASE \E k \in Slots : Handle(k)
    <3>1. PICK k \in Slots : Handle(k)
      BY <2>6
    <3>2. CASE k = i
      BY <1>1, <3>1, <3>2, CallbackOpens
         DEF Handle, HandleSession, RequireSession, HandleLogin, HandleLogout,
             HandleGoogleLoginStart, Serving
    <3>3. CASE k # i
      BY <2>3, <3>1, <3>3
         DEF Handle, HandleSession, RequireSession, HandleLogin, HandleLogout,
             HandleGoogleLoginStart, HandleGoogleLoginCallback, Fails
    <3>4. QED BY <3>2, <3>3
  <2>7. CASE \E k \in Slots : Arrive(k)
    <3>1. PICK k \in Slots : Arrive(k)
      BY <2>7
    <3>2. k # i /\ exchange' = Left(exchange[k].tab, k) /\ exchange[k].request.op \in Ops
      BY <1>1, <3>1 DEF Arrive, Inv, SlotFits
    <3>3. exchange'[i] \in {exchange[i], Free}
      BY <3>2 DEF Left, AfterLogout, MountedIn, Dropped, Ops
    <3>4. QED BY <1>1, <3>3, Unopened
  <2>8. CASE \E k \in Slots : Lose(k)
    <3>1. PICK k \in Slots : Lose(k)
      BY <2>8
    <3>2. k = i
      BY <2>3, <3>1 DEF Lose
    <3>3. exchange'[i].answer = NoAnswer
      BY <3>1, <3>2 DEF Lose, Respond, RoundTrip
    <3>4. QED BY <3>3, Answers
  <2>9. QED BY <1>1, <2>4, <2>5, <2>6, <2>7, <2>8 DEF Next
<1>2. ASSUME Inv, [Next]_vars
      PROVE  [\A i \in Slots : OpensForAdmitted(i)]_vars
  BY <1>1, <1>2
<1>3. QED BY <1>2, Invariance, PTL DEF Spec, HandshakeBound

\* No failure at the server takes a live session from the browser.
THEOREM SignedOutWithCause == Spec => SignedOutForCause
<1>1. ASSUME Inv, NEW i \in Slots
      PROVE  TakesForCause(i)
  <2> SUFFICES ASSUME jar # None, jar' = None, session[jar] # None, Arrive(i),
                      exchange[i].request.op # "logout", exchange[i].request.token = jar
               PROVE  FALSE
    BY DEF TakesForCause
  <2>1. Cookie(i) = None
    BY DEF Arrive
  <2>2. exchange[i].answer.cookie = Clear
    BY <1>1, <2>1, CookieType, SlotTypes
  <2>3. QED BY <1>1, <2>2 DEF Inv, SlotFits
<1>2. ASSUME Inv, [Next]_vars
      PROVE  [\A i \in Slots : TakesForCause(i)]_vars
  BY <1>1, <1>2
<1>3. QED BY <1>2, Invariance, PTL DEF Spec, SignedOutForCause

=============================================================================
