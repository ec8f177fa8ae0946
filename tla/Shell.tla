------------------------------- MODULE Shell -------------------------------
(***************************************************************************)
(* The page of the shell, App.tsx: the workspaces it lists, the one it has *)
(* selected, the app it shows it in, and the address and history of its    *)
(* tab.  They move when the user chooses, steps through the history or     *)
(* reloads, and when an answer arrives; the answer to a create, a delete or*)
(* a leave is handled with what the page showed when it was asked.         *)
(*                                                                         *)
(* The server is whatever the answers say: others share and delete         *)
(* workspaces, sessions end and the account may change between any two     *)
(* answers.  An address is what readWorkspaceLocationFromPath reads in it. *)
(* The order of the list is left out: the first of it is any of it.        *)
(***************************************************************************)
EXTENDS Naturals, Sequences, FiniteSets

CONSTANTS
    Workspaces, Apps,
    DefaultApp,   \* DEFAULT_WORKSPACE_APP_ID
    NoWorkspace,  \* the empty id
    MaxHistory,   \* the entries a browser keeps besides the address
    MaxRequests   \* bound on the requests under way

ASSUME AppsAssumption == DefaultApp \in Apps
ASSUME NoWorkspaceAssumption == NoWorkspace \notin Workspaces
ASSUME BoundsAssumption == {MaxHistory, MaxRequests} \subseteq Nat

VARIABLES
    page,      \* isBootstrapping, authenticated and passwordResetRequired
    listed,    \* sessionState.accessibleWorkspaces
    selected,  \* selectedWorkspaceId
    app,       \* selectedAppId
    address,   \* window.location
    back,      \* the entries of the history behind the address, nearest first
    forward,   \* and ahead of it
    form,      \* the form of a create under way covers the page
    deleting,  \* deletingWorkspaceId
    leaving,   \* removingCollaboratorEmails has the user's own address
    requests,  \* the requests under way
    own,       \* the workspaces of this sign-in, as its answers told them
    astray     \* see ListIsOwn

history == <<back, forward>>
marks   == <<deleting, leaving>>
ghosts  == <<own, astray>>
vars    == <<page, listed, selected, app, address, history, form, marks, requests, ghosts>>

Pages == {"loading", "login", "setup", "shell"}
Removals == {"delete", "leave"}

\* A request with the workspace, list and app of the render that asked it;
\* late: the page has been signed out since.
Request == [op : {"session", "login", "reset", "logout", "create"} \cup Removals,
            workspace : Workspaces \cup {NoWorkspace}, list : SUBSET Workspaces,
            app : Apps, late : BOOLEAN]

Root == [workspace |-> NoWorkspace, app |-> DefaultApp]
\* Mutant: no workspace has no address of its own.
PathAlways(w, a) == [workspace |-> w, app |-> a]

Path(w, a) == IF w = NoWorkspace THEN Root ELSE [workspace |-> w, app |-> a]
Address == {Root} \cup [workspace : Workspaces, app : Apps]

TypeOK ==
    /\ page \in Pages
    /\ listed \in SUBSET Workspaces /\ own \in SUBSET Workspaces
    /\ selected \in Workspaces \cup {NoWorkspace}
    /\ app \in Apps
    /\ address \in Address
    /\ back \in Seq(Address) /\ forward \in Seq(Address)
    /\ Len(back) + Len(forward) <= MaxHistory
    /\ form \in BOOLEAN /\ leaving \in BOOLEAN /\ astray \in BOOLEAN
    /\ deleting \in Workspaces \cup {NoWorkspace}
    /\ requests \in SUBSET Request

-----------------------------------------------------------------------------
(* The address and the list *)

Kept(entries) == IF Len(entries) > MaxHistory THEN SubSeq(entries, 1, MaxHistory) ELSE entries

\* updateWorkspaceLocation with "push"; with "replace" the history stays.
Push(to) ==
    IF to = address
    THEN UNCHANGED history
    ELSE back' = Kept(<<address>> \o back) /\ forward' = <<>>

FirstOf(list) == IF list = {} THEN {NoWorkspace} ELSE list

\* What a handler leaves, the address `to` included, and then the effect of the
\* render that follows: signed in, the selected workspace is one of the list.
Render(p, list, w, a, to) ==
    /\ page' = p /\ listed' = list /\ app' = a
    /\ IF p \in {"setup", "shell"} /\ w \notin list
       THEN \E first \in FirstOf(list) : selected' = first /\ address' = Path(first, a)
       ELSE selected' = w /\ address' = to

-----------------------------------------------------------------------------
(* What the user does *)

\* handlePopState: the selection is read from the address stepped to.
StepTo(to) ==
    /\ Render(page, listed, to.workspace, to.app, to)
    /\ form' = FALSE /\ leaving' = FALSE
    /\ UNCHANGED <<deleting, requests, ghosts>>

Back ==
    /\ back # <<>>
    /\ back' = Tail(back) /\ forward' = <<address>> \o forward
    /\ StepTo(Head(back))

Forward ==
    /\ forward # <<>>
    /\ forward' = Tail(forward) /\ back' = <<address>> \o back
    /\ StepTo(Head(forward))

\* handleWorkspaceChange
SelectWorkspace(w) ==
    /\ page = "shell" /\ ~form /\ w \in listed
    /\ Render(page, listed, w, app, Path(w, app)) /\ Push(Path(w, app))
    /\ leaving' = FALSE
    /\ UNCHANGED <<form, deleting, requests, ghosts>>

\* Mutant: the address is written with the app of the last render.
SelectAppStale(a) ==
    /\ page = "shell" /\ ~form
    /\ Render(page, listed, selected, a, Path(selected, app)) /\ Push(Path(selected, app))
    /\ UNCHANGED <<form, marks, requests, ghosts>>

\* handleAppChange
SelectApp(a) ==
    /\ page = "shell" /\ ~form
    /\ Render(page, listed, selected, a, Path(selected, a)) /\ Push(Path(selected, a))
    /\ UNCHANGED <<form, marks, requests, ghosts>>

Ask(op) ==
    /\ Cardinality(requests) < MaxRequests
    /\ requests' = requests \cup {[op |-> op, workspace |-> selected, list |-> listed,
                                   app |-> app, late |-> FALSE]}
    /\ UNCHANGED <<page, listed, selected, app, address, history, ghosts>>

UnderWay(op) == \E r \in requests : r.op = op

AskCreate ==
    /\ page = "shell" /\ ~form /\ ~UnderWay("create")
    /\ Ask("create") /\ form' = TRUE
    /\ UNCHANGED marks

AskDelete ==
    /\ page = "shell" /\ ~form /\ selected # NoWorkspace /\ deleting # selected
    /\ Ask("delete") /\ deleting' = selected
    /\ UNCHANGED <<form, leaving>>

AskLeave ==
    /\ page = "shell" /\ ~form /\ selected # NoWorkspace /\ ~leaving
    /\ Ask("leave") /\ leaving' = TRUE
    /\ UNCHANGED <<form, deleting>>

AskLogin ==
    /\ page = "login" /\ ~UnderWay("login")
    /\ Ask("login")
    /\ UNCHANGED <<form, marks>>

AskReset ==
    /\ page \in {"setup", "shell"} /\ ~form /\ ~UnderWay("reset")
    /\ Ask("reset")
    /\ UNCHANGED <<form, marks>>

AskLogout ==
    /\ page \in {"setup", "shell"} /\ ~form
    /\ Ask("logout") /\ leaving' = FALSE
    /\ UNCHANGED <<form, deleting>>

\* The page starts over at its address and asks for the session.
Reload ==
    /\ page' = "loading" /\ listed' = {} /\ selected' = address.workspace
    /\ app' = address.app
    /\ form' = FALSE /\ deleting' = NoWorkspace /\ leaving' = FALSE
    /\ requests' = {[op |-> "session", workspace |-> NoWorkspace, list |-> {},
                     app |-> address.app, late |-> FALSE]}
    /\ own' = {} /\ astray' = FALSE
    /\ UNCHANGED <<address, history>>

-----------------------------------------------------------------------------
(* What answers do *)

Outdated == {IF r.op \in {"reset", "create"} \cup Removals THEN [r EXCEPT !.late = TRUE] ELSE r :
             r \in requests}

\* applySessionState with a session of an account that has the workspaces ws.
SignedIn(r, ws) ==
    /\ \E p \in {"setup", "shell"} : Render(p, ws, selected, app, address)
    /\ form' = FALSE
    /\ requests' = requests \ {r}
    /\ own' = ws /\ astray' = r.late
    /\ UNCHANGED <<history, marks>>

\* Mutant: the address of the workspace stays.
SignedOutInPlace(r) ==
    /\ Render("login", {}, NoWorkspace, app, address)
    /\ form' = FALSE /\ deleting' = NoWorkspace /\ leaving' = FALSE
    /\ requests' = Outdated \ {r}
    /\ own' = {} /\ astray' = FALSE
    /\ UNCHANGED history

\* applySessionState without a session.
SignedOut(r) ==
    /\ Render("login", {}, NoWorkspace, app, Root)
    /\ form' = FALSE /\ deleting' = NoWorkspace /\ leaving' = FALSE
    /\ requests' = Outdated \ {r}
    /\ own' = {} /\ astray' = FALSE
    /\ UNCHANGED history

\* The session cannot be read: the page takes it for signed out.
SessionFails(r) ==
    /\ Render("login", {}, selected, app, address)
    /\ requests' = Outdated \ {r}
    /\ own' = {} /\ astray' = FALSE
    /\ UNCHANGED <<history, form, marks>>

\* A login or reset refused, or a create, delete or leave that failed.
Fails(r) ==
    /\ r.op \notin {"session", "logout"}
    /\ requests' = requests \ {r}
    /\ form' = (form /\ r.op # "create")
    /\ deleting' = IF r.op = "delete" THEN NoWorkspace ELSE deleting
    /\ leaving' = (leaving /\ r.op # "leave")
    /\ UNCHANGED <<page, listed, selected, app, address, history, ghosts>>

\* The answer of loadSession, on its own or after a logout, of a login or reset.
ArriveSession(r) ==
    \/ /\ r.op \in {"session", "logout", "login", "reset"}
       /\ \E ws \in SUBSET Workspaces : SignedIn(r, ws)
    \/ /\ r.op \in {"session", "logout"}
       /\ SignedOut(r) \/ SessionFails(r)

\* Mutant: it is added to the list of the render that asked.
WithCreatedStale(r, w) == r.list \cup {w}

\* A workspace created is added to the list there is when the answer arrives.
WithCreated(r, w) == listed \cup {w}

\* handleCreateWorkspace lists, selects and goes to the workspace created.
ArriveCreate(r) ==
    /\ r.op = "create"
    /\ \E w \in Workspaces :
          /\ Render(page, WithCreated(r, w), w, app, Path(w, r.app))
          /\ Push(Path(w, r.app))
          /\ own' = IF r.late THEN own ELSE own \cup {w}
    /\ astray' = (astray \/ r.late)
    /\ form' = FALSE
    /\ requests' = requests \ {r}
    /\ UNCHANGED marks

\* handleDeleteWorkspace, and handleRemoveCollaborator for the user's own
\* address, list what is left of the list of the render that asked.
ArriveRemoval(r) ==
    /\ r.op \in Removals
    /\ LET rest == r.list \ {r.workspace} IN
       \E next \in FirstOf(rest) : Render(page, rest, next, app, Path(next, r.app))
    /\ own' = IF r.late THEN own ELSE own \ {r.workspace}
    /\ astray' = (astray \/ r.late \/ r.list # listed)
    /\ deleting' = IF r.op = "delete" THEN NoWorkspace ELSE deleting
    /\ leaving' = FALSE
    /\ requests' = requests \ {r}
    /\ UNCHANGED <<history, form>>

-----------------------------------------------------------------------------

Init ==
    /\ page = "loading" /\ listed = {} /\ address \in Address
    /\ selected = address.workspace /\ app = address.app
    /\ back = <<>> /\ forward = <<>>
    /\ form = FALSE /\ deleting = NoWorkspace /\ leaving = FALSE
    /\ requests = {[op |-> "session", workspace |-> NoWorkspace, list |-> {},
                    app |-> address.app, late |-> FALSE]}
    /\ own = {} /\ astray = FALSE

Next ==
    \/ Back \/ Forward \/ Reload
    \/ \E w \in Workspaces : SelectWorkspace(w)
    \/ \E a \in Apps : SelectApp(a)
    \/ AskCreate \/ AskDelete \/ AskLeave \/ AskLogin \/ AskReset \/ AskLogout
    \/ \E r \in requests : ArriveSession(r) \/ ArriveCreate(r) \/ ArriveRemoval(r) \/ Fails(r)

Spec == Init /\ [][Next]_vars

-----------------------------------------------------------------------------
(* Properties *)

\* The address names the selected workspace, whatever answers come when; and
\* once signed in, that is one of the list, unless the list is empty.
AddressNamesSelection ==
    /\ address.workspace = selected
    /\ page \in {"setup", "shell"} => selected \in FirstOf(listed)

\* The address is that of the app shown.
AddressNamesApp == selected # NoWorkspace => address.app = app

\* Only the answer to a create, delete or leave asked in another app takes the
\* address away from the app shown (App.tsx 561, 605, 704).
OnlyStaleAnswersMislead ==
    [][ AddressNamesApp /\ ~AddressNamesApp' =>
          \E r \in requests \ requests' :
              r.op \in {"create"} \cup Removals /\ r.app # app ]_vars

\* The list is what the answers of this sign-in told: the workspaces of the last
\* session read, with those created and without those deleted or left since.
\* astray: an answer asked before the last sign-out, or with another list, has
\* been handled since a session was read.
ListIsOwn == astray \/ listed = own

=============================================================================
