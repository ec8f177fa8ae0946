----------------------------- MODULE ShellProofs -----------------------------
(***************************************************************************)
(* Proofs about Shell, for any workspaces and apps, any number of requests *)
(* under way and a history of any length.                                  *)
(*                                                                         *)
(* The argument: every handler leaves an address that names the selection  *)
(* it leaves, and the effect of the next render moves both (Rendered).  A  *)
(* handler takes the app it writes from the render it runs in, but for the *)
(* answers to a create, delete or leave, which bring the app of the render *)
(* that asked; and it edits the list it finds, but for the answers to a    *)
(* delete or leave, which bring the list of that render.                   *)
(***************************************************************************)
EXTENDS Shell, SequenceTheorems, TLAPS

USE AppsAssumption, NoWorkspaceAssumption, BoundsAssumption

Inv == TypeOK /\ AddressNamesSelection /\ ListIsOwn

\* A step that takes the address away from the app shown is a stale answer.
Accounted ==
    AddressNamesApp /\ ~AddressNamesApp' =>
        \E r \in requests \ requests' :
            r.op \in {"create"} \cup Removals /\ r.app # app

\* What a step leaves of the variables that Render does not set.
Rest ==
    /\ back' \in Seq(Address) /\ forward' \in Seq(Address)
    /\ Len(back') + Len(forward') <= MaxHistory
    /\ form' \in BOOLEAN /\ leaving' \in BOOLEAN /\ astray' \in BOOLEAN
    /\ deleting' \in Workspaces \cup {NoWorkspace}
    /\ requests' \in SUBSET Request
    /\ own' \in SUBSET Workspaces
    /\ ListIsOwn'

-----------------------------------------------------------------------------
(* Addresses, the history and the list *)

LEMMA PathReads ==
    ASSUME NEW w \in Workspaces \cup {NoWorkspace}, NEW a \in Apps
    PROVE  /\ Path(w, a) \in Address /\ Path(w, a).workspace = w
           /\ w # NoWorkspace => Path(w, a).app = a
BY DEF Path, Root, Address

LEMMA AddressFields ==
    ASSUME NEW to \in Address
    PROVE  to.workspace \in Workspaces \cup {NoWorkspace} /\ to.app \in Apps
BY DEF Address, Root

\* An entry put before the entries of a history.
LEMMA ConsEntries ==
    ASSUME NEW s \in Seq(Address), NEW to \in Address
    PROVE  <<to>> \o s \in Seq(Address) /\ Len(<<to>> \o s) = Len(s) + 1
OBVIOUS

LEMMA KeptEntries ==
    ASSUME NEW s \in Seq(Address)
    PROVE  Kept(s) \in Seq(Address) /\ Len(Kept(s)) <= MaxHistory
<1>1. CASE Len(s) <= MaxHistory
  BY <1>1 DEF Kept
<1>2. CASE Len(s) > MaxHistory
  <2>1. Kept(s) = SubSeq(s, 1, MaxHistory)
    BY <1>2 DEF Kept
  <2>2. SubSeq(s, 1, MaxHistory) \in Seq(Address)
    BY <1>2
  <2>3. Len(SubSeq(s, 1, MaxHistory)) = MaxHistory
    BY <1>2
  <2>4. QED BY <2>1, <2>2, <2>3
<1>3. QED BY <1>1, <1>2

LEMMA PushKeeps ==
    ASSUME TypeOK, NEW to \in Address, Push(to)
    PROVE  /\ back' \in Seq(Address) /\ forward' \in Seq(Address)
           /\ Len(back') + Len(forward') <= MaxHistory
<1>1. CASE to = address
  BY <1>1 DEF Push, TypeOK, history
<1>2. CASE to # address
  <2>1. back' = Kept(<<address>> \o back) /\ forward' = <<>>
    BY <1>2 DEF Push
  <2>2. <<address>> \o back \in Seq(Address)
    BY ConsEntries DEF TypeOK
  <2>3. back' \in Seq(Address) /\ Len(back') <= MaxHistory
    BY <2>1, <2>2, KeptEntries
  <2>4. forward' \in Seq(Address) /\ Len(forward') = 0
    BY <2>1
  <2>5. QED BY <2>3, <2>4
<1>3. QED BY <1>1, <1>2

\* Whatever the effect does, the address follows the selection, which is one of
\* the list; and it follows the app if the handler had it do so.
LEMMA Rendered ==
    ASSUME NEW p \in Pages, NEW list \in SUBSET Workspaces,
           NEW w \in Workspaces \cup {NoWorkspace}, NEW a \in Apps, NEW to \in Address,
           to.workspace = w, Render(p, list, w, a, to)
    PROVE  /\ page' = p /\ listed' = list /\ app' = a
           /\ selected' \in Workspaces \cup {NoWorkspace} /\ address' \in Address
           /\ AddressNamesSelection'
           /\ (w # NoWorkspace => to.app = a) => AddressNamesApp'
<1>1. page' = p /\ listed' = list /\ app' = a
  BY DEF Render
<1>2. CASE p \in {"setup", "shell"} /\ w \notin list
  <2>1. PICK first \in FirstOf(list) : selected' = first /\ address' = Path(first, a)
    BY <1>2 DEF Render
  <2>2. first \in Workspaces \cup {NoWorkspace}
    BY DEF FirstOf
  <2>3. /\ address' \in Address /\ address'.workspace = selected'
        /\ selected' # NoWorkspace => address'.app = a
    BY <2>1, <2>2, PathReads
  <2>4. selected' \in FirstOf(listed')
    BY <1>1, <2>1
  <2>5. FirstOf(listed)' = FirstOf(listed')
    BY DEF FirstOf
  <2>6. QED BY <1>1, <2>1, <2>2, <2>3, <2>4, <2>5 DEF AddressNamesSelection, AddressNamesApp
<1>3. CASE ~(p \in {"setup", "shell"} /\ w \notin list)
  <2>1. selected' = w /\ address' = to
    BY <1>3 DEF Render
  <2>2. page' \in {"setup", "shell"} => selected' \in FirstOf(listed)'
    BY <1>1, <1>3, <2>1 DEF FirstOf
  <2>3. QED BY <1>1, <2>1, <2>2 DEF AddressNamesSelection, AddressNamesApp
<1>4. QED BY <1>2, <1>3

\* A handler that renders and leaves the rest in order keeps the invariant.
LEMMA RenderKeeps ==
    ASSUME Rest, NEW p \in Pages, NEW list \in SUBSET Workspaces,
           NEW w \in Workspaces \cup {NoWorkspace}, NEW a \in Apps, NEW to \in Address,
           to.workspace = w, Render(p, list, w, a, to)
    PROVE  Inv'
<1>1. /\ page' \in Pages /\ listed' \in SUBSET Workspaces /\ app' \in Apps
      /\ selected' \in Workspaces \cup {NoWorkspace} /\ address' \in Address
      /\ AddressNamesSelection'
  BY Rendered
<1>2. TypeOK'
  BY <1>1 DEF Rest, TypeOK
<1>3. QED BY <1>1, <1>2 DEF Inv, Rest

-----------------------------------------------------------------------------
(* What the user does *)

LEMMA StepToKeeps ==
    ASSUME Inv, NEW to \in Address, StepTo(to),
           back' \in Seq(Address), forward' \in Seq(Address),
           Len(back') + Len(forward') <= MaxHistory
    PROVE  Inv' /\ AddressNamesApp'
<1>1. /\ Render(page, listed, to.workspace, to.app, to)
      /\ form' = FALSE /\ leaving' = FALSE
      /\ UNCHANGED <<deleting, requests, own, astray>>
  BY DEF StepTo, ghosts
<1>2. page \in Pages /\ listed \in SUBSET Workspaces
  BY DEF Inv, TypeOK
<1>3. to.workspace \in Workspaces \cup {NoWorkspace} /\ to.app \in Apps
  BY AddressFields
<1>4. listed' = listed /\ AddressNamesApp'
  BY <1>1, <1>2, <1>3, Rendered
<1>5. Rest
  BY <1>1, <1>4 DEF Rest, Inv, TypeOK, ListIsOwn
<1>6. QED BY <1>1, <1>2, <1>3, <1>4, <1>5, RenderKeeps

LEMMA BackKeeps ==
    ASSUME Inv, Back
    PROVE  Inv' /\ AddressNamesApp'
<1>1. /\ back \in Seq(Address) /\ forward \in Seq(Address) /\ address \in Address
      /\ Len(back) + Len(forward) <= MaxHistory
  BY DEF Inv, TypeOK
<1>2. /\ back # <<>> /\ StepTo(Head(back))
      /\ back' = Tail(back) /\ forward' = <<address>> \o forward
  BY DEF Back
<1>3. /\ Head(back) \in Address /\ back' \in Seq(Address) /\ Len(back') = Len(back) - 1
  BY <1>1, <1>2
<1>4. forward' \in Seq(Address) /\ Len(forward') = Len(forward) + 1
  BY <1>1, <1>2, ConsEntries
<1>5. Len(back') + Len(forward') <= MaxHistory
  BY <1>1, <1>3, <1>4
<1>6. QED BY <1>2, <1>3, <1>4, <1>5, StepToKeeps

LEMMA ForwardKeeps ==
    ASSUME Inv, Forward
    PROVE  Inv' /\ AddressNamesApp'
<1>1. /\ back \in Seq(Address) /\ forward \in Seq(Address) /\ address \in Address
      /\ Len(back) + Len(forward) <= MaxHistory
  BY DEF Inv, TypeOK
<1>2. /\ forward # <<>> /\ StepTo(Head(forward))
      /\ forward' = Tail(forward) /\ back' = <<address>> \o back
  BY DEF Forward
<1>3. /\ Head(forward) \in Address /\ forward' \in Seq(Address)
      /\ Len(forward') = Len(forward) - 1
  BY <1>1, <1>2
<1>4. back' \in Seq(Address) /\ Len(back') = Len(back) + 1
  BY <1>1, <1>2, ConsEntries
<1>5. Len(back') + Len(forward') <= MaxHistory
  BY <1>1, <1>3, <1>4
<1>6. QED BY <1>2, <1>3, <1>4, <1>5, StepToKeeps

\* A handler that goes where it selects.
LEMMA GoingKeeps ==
    ASSUME Inv, NEW w \in Workspaces \cup {NoWorkspace}, NEW a \in Apps,
           Render(page, listed, w, a, Path(w, a)), Push(Path(w, a)),
           leaving' \in BOOLEAN,
           UNCHANGED <<form, deleting, requests, own, astray>>
    PROVE  Inv' /\ AddressNamesApp'
<1>1. page \in Pages /\ listed \in SUBSET Workspaces
  BY DEF Inv, TypeOK
<1>2. /\ Path(w, a) \in Address /\ Path(w, a).workspace = w
      /\ w # NoWorkspace => Path(w, a).app = a
  BY PathReads
<1>3. listed' = listed /\ AddressNamesApp'
  BY <1>1, <1>2, Rendered
<1>4. Rest
  <2>1. /\ back' \in Seq(Address) /\ forward' \in Seq(Address)
        /\ Len(back') + Len(forward') <= MaxHistory
    BY <1>2, PushKeeps DEF Inv
  <2>2. QED BY <1>3, <2>1 DEF Rest, Inv, TypeOK, ListIsOwn
<1>5. QED BY <1>1, <1>2, <1>3, <1>4, RenderKeeps

LEMMA SelectKeeps ==
    ASSUME Inv,
           \/ \E w \in Workspaces : SelectWorkspace(w)
           \/ \E a \in Apps : SelectApp(a)
    PROVE  Inv' /\ AddressNamesApp'
<1>1. CASE \E w \in Workspaces : SelectWorkspace(w)
  <2>1. PICK w \in Workspaces : SelectWorkspace(w)
    BY <1>1
  <2>2. app \in Apps
    BY DEF Inv, TypeOK
  <2>3. QED BY <2>1, <2>2, GoingKeeps DEF SelectWorkspace, ghosts
<1>2. CASE \E a \in Apps : SelectApp(a)
  <2>1. PICK a \in Apps : SelectApp(a)
    BY <1>2
  <2>2. selected \in Workspaces \cup {NoWorkspace} /\ leaving \in BOOLEAN
    BY DEF Inv, TypeOK
  <2>3. QED BY <2>1, <2>2, GoingKeeps DEF SelectApp, ghosts, marks
<1>3. QED BY <1>1, <1>2

\* Asking moves nothing the page shows.
LEMMA AskKeeps ==
    ASSUME Inv,
           \/ AskCreate \/ AskDelete \/ AskLeave
           \/ AskLogin \/ AskReset \/ AskLogout
    PROVE  Inv' /\ (AddressNamesApp => AddressNamesApp')
<1>1. PICK op \in {"create", "delete", "leave", "login", "reset", "logout"} : Ask(op)
  BY DEF AskCreate, AskDelete, AskLeave, AskLogin, AskReset, AskLogout
<1>2. /\ UNCHANGED <<page, listed, selected, app, address, back, forward, own, astray>>
      /\ requests' = requests \cup {[op |-> op, workspace |-> selected, list |-> listed,
                                     app |-> app, late |-> FALSE]}
  BY <1>1 DEF Ask, history, ghosts
<1>3. requests' \in SUBSET Request
  <2>1. /\ selected \in Workspaces \cup {NoWorkspace} /\ listed \in SUBSET Workspaces
        /\ app \in Apps /\ requests \in SUBSET Request
    BY DEF Inv, TypeOK
  <2>2. [op |-> op, workspace |-> selected, list |-> listed, app |-> app, late |-> FALSE]
           \in Request
    BY <2>1 DEF Request, Removals
  <2>3. QED BY <1>2, <2>1, <2>2
<1>4. /\ form' \in BOOLEAN /\ leaving' \in BOOLEAN
      /\ deleting' \in Workspaces \cup {NoWorkspace}
  BY DEF AskCreate, AskDelete, AskLeave, AskLogin, AskReset, AskLogout, marks, Inv, TypeOK
<1>5. TypeOK'
  BY <1>2, <1>3, <1>4 DEF Inv, TypeOK
<1>6. (AddressNamesSelection /\ ListIsOwn)'
  BY <1>2 DEF Inv, AddressNamesSelection, ListIsOwn, FirstOf
<1>7. AddressNamesApp => AddressNamesApp'
  BY <1>2 DEF AddressNamesApp
<1>8. QED BY <1>5, <1>6, <1>7 DEF Inv

\* The request of a page that has just been loaded at the address to.
LEMMA FirstRequest ==
    ASSUME NEW to \in Address
    PROVE  [op |-> "session", workspace |-> NoWorkspace, list |-> {},
            app |-> to.app, late |-> FALSE] \in Request
<1>1. to.app \in Apps
  BY AddressFields
<1>2. QED BY <1>1 DEF Request

LEMMA ReloadKeeps ==
    ASSUME Inv, Reload
    PROVE  Inv' /\ AddressNamesApp'
<1>1. /\ page' = "loading" /\ listed' = {} /\ own' = {} /\ astray' = FALSE
      /\ selected' = address.workspace /\ app' = address.app
      /\ UNCHANGED <<address, back, forward>>
      /\ form' = FALSE /\ deleting' = NoWorkspace /\ leaving' = FALSE
      /\ requests' = {[op |-> "session", workspace |-> NoWorkspace, list |-> {},
                       app |-> address.app, late |-> FALSE]}
  BY DEF Reload, history
<1>2. address \in Address /\ address.workspace \in Workspaces \cup {NoWorkspace}
      /\ address.app \in Apps
  BY AddressFields DEF Inv, TypeOK
<1>3. requests' \in SUBSET Request
  BY <1>1, <1>2, FirstRequest
<1>4. TypeOK'
  BY <1>1, <1>2, <1>3 DEF Inv, TypeOK, Pages
<1>5. (AddressNamesSelection /\ ListIsOwn /\ AddressNamesApp)'
  BY <1>1 DEF AddressNamesSelection, ListIsOwn, AddressNamesApp
<1>6. QED BY <1>4, <1>5 DEF Inv

-----------------------------------------------------------------------------
(* What answers do *)

LEMMA OutdatedRequests ==
    ASSUME Inv, NEW r \in requests
    PROVE  Outdated \ {r} \in SUBSET Request
<1>1. \A q \in requests : q \in Request /\ [q EXCEPT !.late = TRUE] \in Request
  BY DEF Inv, TypeOK, Request
<1>2. QED BY <1>1 DEF Outdated

LEMMA SignedInKeeps ==
    ASSUME Inv, NEW r \in requests, NEW ws \in SUBSET Workspaces, SignedIn(r, ws)
    PROVE  Inv' /\ (AddressNamesApp => AddressNamesApp')
<1>1. PICK p \in {"setup", "shell"} : Render(p, ws, selected, app, address)
  BY DEF SignedIn
<1>2. /\ form' = FALSE /\ requests' = requests \ {r}
      /\ own' = ws /\ astray' = r.late
      /\ UNCHANGED <<back, forward, deleting, leaving>>
  BY DEF SignedIn, history, marks
<1>3. /\ selected \in Workspaces \cup {NoWorkspace} /\ app \in Apps /\ address \in Address
      /\ address.workspace = selected /\ p \in Pages
  BY DEF Inv, TypeOK, AddressNamesSelection, Pages
<1>4. /\ listed' = ws
      /\ (selected # NoWorkspace => address.app = app) => AddressNamesApp'
  BY <1>1, <1>3, Rendered
<1>5. Rest
  <2>1. r.late \in BOOLEAN
    BY DEF Inv, TypeOK, Request
  <2>2. QED BY <1>2, <1>4, <2>1 DEF Rest, Inv, TypeOK, ListIsOwn
<1>6. Inv'
  BY <1>1, <1>3, <1>5, RenderKeeps
<1>7. QED BY <1>4, <1>6 DEF AddressNamesApp

LEMMA SignedOutKeeps ==
    ASSUME Inv, NEW r \in requests, SignedOut(r)
    PROVE  Inv' /\ AddressNamesApp'
<1>1. /\ Render("login", {}, NoWorkspace, app, Root)
      /\ form' = FALSE /\ deleting' = NoWorkspace /\ leaving' = FALSE
      /\ requests' = Outdated \ {r}
      /\ own' = {} /\ astray' = FALSE
      /\ UNCHANGED <<back, forward>>
  BY DEF SignedOut, history
<1>2. Root \in Address /\ Root.workspace = NoWorkspace /\ "login" \in Pages /\ app \in Apps
  BY DEF Root, Address, Pages, Inv, TypeOK
<1>3. listed' = {} /\ AddressNamesApp'
  BY <1>1, <1>2, Rendered
<1>4. Rest
  <2>1. requests' \in SUBSET Request
    BY <1>1, OutdatedRequests
  <2>2. QED BY <1>1, <1>3, <2>1 DEF Rest, Inv, TypeOK, ListIsOwn
<1>5. Inv'
  BY <1>1, <1>2, <1>4, RenderKeeps
<1>6. QED BY <1>3, <1>5

LEMMA SessionFailsKeeps ==
    ASSUME Inv, NEW r \in requests, SessionFails(r)
    PROVE  Inv' /\ (AddressNamesApp => AddressNamesApp')
<1>1. /\ Render("login", {}, selected, app, address)
      /\ requests' = Outdated \ {r}
      /\ own' = {} /\ astray' = FALSE
      /\ UNCHANGED <<back, forward, form, deleting, leaving>>
  BY DEF SessionFails, history, marks
<1>2. /\ selected \in Workspaces \cup {NoWorkspace} /\ app \in Apps /\ address \in Address
      /\ address.workspace = selected /\ "login" \in Pages
  BY DEF Inv, TypeOK, AddressNamesSelection, Pages
<1>3. /\ listed' = {}
      /\ (selected # NoWorkspace => address.app = app) => AddressNamesApp'
  BY <1>1, <1>2, Rendered
<1>4. Rest
  <2>1. requests' \in SUBSET Request
    BY <1>1, OutdatedRequests
  <2>2. QED BY <1>1, <1>3, <2>1 DEF Rest, Inv, TypeOK, ListIsOwn
<1>5. Inv'
  BY <1>1, <1>2, <1>4, RenderKeeps
<1>6. QED BY <1>3, <1>5 DEF AddressNamesApp

LEMMA ArriveSessionKeeps ==
    ASSUME Inv, NEW r \in requests, ArriveSession(r)
    PROVE  Inv' /\ (AddressNamesApp => AddressNamesApp')
<1>1. CASE \E ws \in SUBSET Workspaces : SignedIn(r, ws)
  BY <1>1, SignedInKeeps
<1>2. CASE SignedOut(r)
  BY <1>2, SignedOutKeeps
<1>3. CASE SessionFails(r)
  BY <1>3, SessionFailsKeeps
<1>4. QED BY <1>1, <1>2, <1>3 DEF ArriveSession

LEMMA FailsKeeps ==
    ASSUME Inv, NEW r \in requests, Fails(r)
    PROVE  Inv' /\ (AddressNamesApp => AddressNamesApp')
<1>1. /\ requests' = requests \ {r}
      /\ form' \in BOOLEAN /\ leaving' \in BOOLEAN
      /\ deleting' \in Workspaces \cup {NoWorkspace}
      /\ UNCHANGED <<page, listed, selected, app, address, back, forward, own, astray>>
  BY DEF Fails, Inv, TypeOK, history, ghosts
<1>2. TypeOK'
  BY <1>1 DEF Inv, TypeOK
<1>3. (AddressNamesSelection /\ ListIsOwn)'
  BY <1>1 DEF Inv, AddressNamesSelection, ListIsOwn, FirstOf
<1>4. AddressNamesApp => AddressNamesApp'
  BY <1>1 DEF AddressNamesApp
<1>5. QED BY <1>2, <1>3, <1>4 DEF Inv

\* An answer that brings the app of the render that asked it: either that is
\* still the app shown, or the answer is what accounts for the address.
LEMMA StaleAnswer ==
    ASSUME Inv, NEW r \in requests, r.op \in {"create"} \cup Removals,
           requests' = requests \ {r}, r.app = app => AddressNamesApp'
    PROVE  Accounted
<1>1. r \in requests \ requests'
  OBVIOUS
<1>2. CASE r.app = app
  BY <1>2 DEF Accounted
<1>3. CASE r.app # app
  BY <1>1, <1>3 DEF Accounted
<1>4. QED BY <1>2, <1>3

LEMMA ArriveCreateKeeps ==
    ASSUME Inv, NEW r \in requests, ArriveCreate(r)
    PROVE  Inv' /\ Accounted
<1>1. PICK w \in Workspaces :
         /\ Render(page, listed \cup {w}, w, app, Path(w, r.app)) /\ Push(Path(w, r.app))
         /\ own' = IF r.late THEN own ELSE own \cup {w}
  BY DEF ArriveCreate, WithCreated
<1>2. /\ r.op = "create" /\ astray' = (astray \/ r.late) /\ form' = FALSE
      /\ requests' = requests \ {r}
      /\ UNCHANGED <<deleting, leaving>>
  BY DEF ArriveCreate, marks
<1>3. /\ r.app \in Apps /\ r.late \in BOOLEAN
      /\ page \in Pages /\ app \in Apps /\ listed \cup {w} \in SUBSET Workspaces
  BY DEF Inv, TypeOK, Request
<1>4. /\ Path(w, r.app) \in Address /\ Path(w, r.app).workspace = w
      /\ w # NoWorkspace => Path(w, r.app).app = r.app
  BY <1>3, PathReads
<1>5. listed' = listed \cup {w} /\ (r.app = app => AddressNamesApp')
  BY <1>1, <1>3, <1>4, Rendered
<1>6. Rest
  <2>1. /\ back' \in Seq(Address) /\ forward' \in Seq(Address)
        /\ Len(back') + Len(forward') <= MaxHistory
    BY <1>1, <1>4, PushKeeps DEF Inv
  <2>2. astray' \in BOOLEAN /\ own' \in SUBSET Workspaces
    BY <1>1, <1>2, <1>3 DEF Inv, TypeOK
  <2>3. ListIsOwn'
    BY <1>1, <1>2, <1>3, <1>5 DEF Inv, ListIsOwn
  <2>4. QED BY <1>2, <2>1, <2>2, <2>3 DEF Rest, Inv, TypeOK
<1>7. Inv'
  BY <1>1, <1>3, <1>4, <1>6, RenderKeeps
<1>8. Accounted
  BY <1>2, <1>5, StaleAnswer
<1>9. QED BY <1>7, <1>8

LEMMA ArriveRemovalKeeps ==
    ASSUME Inv, NEW r \in requests, ArriveRemoval(r)
    PROVE  Inv' /\ Accounted
<1> DEFINE rest == r.list \ {r.workspace}
<1>1. PICK next \in FirstOf(rest) : Render(page, rest, next, app, Path(next, r.app))
  BY DEF ArriveRemoval
<1>2. /\ r.op \in Removals
      /\ own' = IF r.late THEN own ELSE own \ {r.workspace}
      /\ astray' = (astray \/ r.late \/ r.list # listed)
      /\ leaving' = FALSE /\ requests' = requests \ {r}
      /\ UNCHANGED <<back, forward, form>>
  BY DEF ArriveRemoval, history
<1>3. /\ r.app \in Apps /\ r.late \in BOOLEAN /\ r.list \in SUBSET Workspaces
      /\ page \in Pages /\ app \in Apps
  BY DEF Inv, TypeOK, Request
<1>4. rest \in SUBSET Workspaces /\ next \in Workspaces \cup {NoWorkspace}
  BY <1>3 DEF FirstOf
<1>5. /\ Path(next, r.app) \in Address /\ Path(next, r.app).workspace = next
      /\ next # NoWorkspace => Path(next, r.app).app = r.app
  BY <1>3, <1>4, PathReads
<1>6. listed' = rest /\ (r.app = app => AddressNamesApp')
  BY <1>1, <1>3, <1>4, <1>5, Rendered
<1>7. Rest
  <2>1. astray' \in BOOLEAN /\ own' \in SUBSET Workspaces
    BY <1>2, <1>3 DEF Inv, TypeOK
  <2>2. deleting' \in Workspaces \cup {NoWorkspace}
    BY DEF ArriveRemoval, Inv, TypeOK
  <2>3. ListIsOwn'
    BY <1>2, <1>3, <1>6 DEF Inv, ListIsOwn
  <2>4. QED BY <1>2, <2>1, <2>2, <2>3 DEF Rest, Inv, TypeOK
<1>8. Inv'
  BY <1>1, <1>3, <1>4, <1>5, <1>7, RenderKeeps
<1>9. Accounted
  BY <1>2, <1>6, StaleAnswer
<1>10. QED BY <1>8, <1>9

-----------------------------------------------------------------------------
(* The invariant *)

LEMMA InitHolds == Init => Inv
<1> SUFFICES ASSUME Init PROVE Inv
  OBVIOUS
<1>1. address \in Address /\ address.workspace \in Workspaces \cup {NoWorkspace}
      /\ address.app \in Apps
  BY AddressFields DEF Init
<1>2. requests \in SUBSET Request
  BY <1>1, FirstRequest DEF Init
<1>3. back \in Seq(Address) /\ forward \in Seq(Address) /\ Len(back) + Len(forward) <= MaxHistory
  BY DEF Init
<1>4. TypeOK
  BY <1>1, <1>2, <1>3 DEF Init, TypeOK, Pages
<1>5. QED BY <1>4 DEF Inv, Init, AddressNamesSelection, ListIsOwn

LEMMA StepKeeps ==
    ASSUME Inv, Next
    PROVE  Inv' /\ Accounted
<1>1. CASE Back \/ Forward \/ Reload
  BY <1>1, BackKeeps, ForwardKeeps, ReloadKeeps DEF Accounted
<1>2. CASE \/ \E w \in Workspaces : SelectWorkspace(w)
           \/ \E a \in Apps : SelectApp(a)
  BY <1>2, SelectKeeps DEF Accounted
<1>3. CASE AskCreate \/ AskDelete \/ AskLeave \/ AskLogin \/ AskReset \/ AskLogout
  BY <1>3, AskKeeps DEF Accounted
<1>4. ASSUME NEW r \in requests, ArriveSession(r) \/ Fails(r)
      PROVE  Inv' /\ Accounted
  BY <1>4, ArriveSessionKeeps, FailsKeeps DEF Accounted
<1>5. ASSUME NEW r \in requests, ArriveCreate(r) \/ ArriveRemoval(r)
      PROVE  Inv' /\ Accounted
  BY <1>5, ArriveCreateKeeps, ArriveRemovalKeeps
<1>6. QED BY <1>1, <1>2, <1>3, <1>4, <1>5 DEF Next

LEMMA StutterKeeps ==
    ASSUME Inv, UNCHANGED vars
    PROVE  Inv'
<1>1. TypeOK'
  BY DEF vars, history, marks, ghosts, Inv, TypeOK
<1>2. (AddressNamesSelection /\ ListIsOwn)'
  BY DEF vars, history, marks, ghosts, Inv, AddressNamesSelection, ListIsOwn, FirstOf
<1>3. QED BY <1>1, <1>2 DEF Inv

\* The invariant of the page.
THEOREM Invariance == Spec => []Inv
<1>1. Inv /\ [Next]_vars => Inv'
  BY StepKeeps, StutterKeeps
<1>2. QED BY <1>1, InitHolds, PTL DEF Spec

\* The page, its address and its history keep their types: no handler goes to
\* an address that the router would not read back.
THEOREM TypeCorrect == Spec => []TypeOK
<1>1. Inv => TypeOK
  BY DEF Inv
<1>2. QED BY <1>1, Invariance, PTL

\* However answers, sign-outs and steps through the history interleave, the
\* address names the selected workspace, and a page that is signed in has
\* selected one that it lists.
THEOREM AddressFollowsSelection == Spec => []AddressNamesSelection
<1>1. Inv => AddressNamesSelection
  BY DEF Inv
<1>2. QED BY <1>1, Invariance, PTL

\* Nothing but the answer to a create, delete or leave asked in another app
\* leaves the address with an app that is not the one shown.
THEOREM AppLeftByStaleAnswersOnly == Spec => OnlyStaleAnswersMislead
<1>1. ASSUME Inv, [Next]_vars
      PROVE  [Accounted]_vars
  BY <1>1, StepKeeps
<1>2. QED BY <1>1, Invariance, PTL DEF Spec, OnlyStaleAnswersMislead, Accounted

\* The list is that of the last session read, with what this sign-in created and
\* without what it removed since, unless an answer of an earlier sign-in, or one
\* asked with another list, was handled in between.
THEOREM ListFollowsAnswers == Spec => []ListIsOwn
<1>1. Inv => ListIsOwn
  BY DEF Inv
<1>2. QED BY <1>1, Invariance, PTL

=============================================================================
