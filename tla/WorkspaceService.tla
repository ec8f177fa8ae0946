-------------------------- MODULE WorkspaceService --------------------------
(***************************************************************************)
(* The workspace, share and todo handlers of app-shell and app-todo over   *)
(* PostgresStore.  Both services share one database and run any number of  *)
(* requests at once; the store opens no transaction around a request, so   *)
(* every SQL statement is a step of its own and anything may happen        *)
(* between two statements of one request.                                  *)
(*                                                                         *)
(* A request is past requireReadySession when it arrives here.  It goes    *)
(* through the statements of its route to "done", and keeps its answer     *)
(* until its slot serves another request.                                  *)
(***************************************************************************)
CONSTANTS
    Users,        \* normalised emails
    Workspaces,   \* the UUIDs the database may generate for workspaces
    Todos,        \* the UUIDs the database may generate for todos
    Requests,     \* slots of the requests served at the same time
    Routes,       \* the routes exercised, a subset of AllRoutes
    NoUser, NoWorkspace, NoTodo

AllRoutes == {"createWorkspace", "deleteWorkspace", "listShares",
              "createShare", "deleteShare", "listTodos", "createTodo",
              "updateTodo", "deleteTodo"}

ASSUME RoutesAssumption == Routes \subseteq AllRoutes
ASSUME NullsAssumption ==
    /\ NoUser \notin Users
    /\ NoWorkspace \notin Workspaces
    /\ NoTodo \notin Todos
    /\ NoTodo \notin [workspace : Workspaces, workspaceOwner : Users,
                      author : Users, completed : BOOLEAN]

VARIABLES
    \* the tables
    users,    \* the rows of users, by email
    owner,    \* workspaces.owner_email by id, NoUser where there is no row
    members,  \* workspace_memberships: the collaborators of each workspace
    todo,     \* todos by id, NoTodo where there is no row
    born,     \* the UUIDs generated so far; none is generated twice
    \* the handlers
    req       \* the state of each request

tables == <<users, owner, members, todo, born>>
vars   == <<users, owner, members, todo, born, req>>

TodoRow == [workspace : Workspaces, workspaceOwner : Users,
            author : Users, completed : BOOLEAN]

\* The SQL statement a request executes next.
Statements == {"fallback", "lookup", "authorize", "userExists", "todoRow",
               "effect"}

\* HTTP status classes: 200/201/204, 400, 403, 404, 500.
Statuses == {"ok", "badRequest", "denied", "notFound", "error"}

Request ==
    [pc : Statements \cup {"idle", "done"},
     op : AllRoutes, actor : Users \cup {NoUser},
     workspace : Workspaces \cup {NoWorkspace},  \* NoWorkspace: blank
     target : Users \cup {NoUser},               \* NoUser: blank
     id : Todos \cup {NoTodo},
     completed : BOOLEAN,
     seenOwner : Users \cup {NoUser},            \* what workspaceByID returned
     status : Statuses \cup {"none"},
     rows : SUBSET (Users \cup Todos)]

Idle == [pc |-> "idle", op |-> "listTodos", actor |-> NoUser,
         workspace |-> NoWorkspace, target |-> NoUser, id |-> NoTodo,
         completed |-> FALSE, seenOwner |-> NoUser, status |-> "none",
         rows |-> {}]

TypeOK ==
    /\ users \subseteq Users
    /\ owner \in [Workspaces -> Users \cup {NoUser}]
    /\ members \in [Workspaces -> SUBSET Users]
    /\ todo \in [Todos -> TodoRow \cup {NoTodo}]
    /\ born \subseteq Workspaces \cup Todos
    /\ req \in [Requests -> Request]

-----------------------------------------------------------------------------
(* Queries *)

IsLive(w) == owner[w] # NoUser

OwnedBy(u)    == {w \in Workspaces : owner[w] = u}
SharedWith(u) == {w \in Workspaces : u \in members[w] /\ owner[w] # u}

\* The predicate of authorizeWorkspace.
HasAccess(u, w) ==
    /\ w \in Workspaces
    /\ IsLive(w)
    /\ u = owner[w] \/ u \in members[w]

\* ListAccessibleWorkspaces lists owned workspaces before shared ones; the
\* order among the owned, or among the shared, is by email, name and id and is
\* left open here.
FirstAccessible(u) == IF OwnedBy(u) # {} THEN OwnedBy(u) ELSE SharedWith(u)

TodosOf(w) == {t \in Todos : todo[t] # NoTodo /\ todo[t].workspace = w}

-----------------------------------------------------------------------------
(* Control *)

Continue(r, statement) == req' = [req EXCEPT ![r].pc = statement]

Answer(r, status, rows) ==
    req' = [req EXCEPT ![r].pc = "done", ![r].status = status,
                       ![r].rows = rows]

Reject(r, status) == Answer(r, status, {}) /\ UNCHANGED tables

\* Mutant: CreateTodo leaves out authorizeWorkspace.
FirstStatementUnauthorized(op) ==
    CASE op = "createWorkspace"                              -> "userExists"
      [] op \in {"deleteWorkspace", "createShare", "deleteShare", "createTodo"} -> "lookup"
      [] op \in {"listShares", "listTodos"}                  -> "authorize"
      [] op \in {"updateTodo", "deleteTodo"}                 -> "todoRow"

\* The first statement of the store method behind each route.
FirstStatement(op) ==
    CASE op = "createWorkspace"                              -> "userExists"
      [] op \in {"deleteWorkspace", "createShare", "deleteShare"} -> "lookup"
      [] op \in {"listShares", "listTodos", "createTodo"}    -> "authorize"
      [] op \in {"updateTodo", "deleteTodo"}                 -> "todoRow"

\* The routes whose workspace may be left out of the query or the body.
FallbackRoutes == {"listShares", "createShare", "deleteShare", "listTodos",
                   "createTodo"}

Start(r, call) ==
    /\ req[r].pc \in {"idle", "done"}
    /\ call.op \in Routes
    /\ call.actor \in users
    /\ req' = [req EXCEPT ![r] = call]
    /\ UNCHANGED tables

Call(op, a) == [Idle EXCEPT !.pc = FirstStatement(op), !.op = op, !.actor = a]

\* A blank workspace is replaced by the first accessible one, one statement
\* earlier (workspaceFromQuery, workspaceFromBody).
In(call, w) ==
    [call EXCEPT !.workspace = w,
                 !.pc = IF w = NoWorkspace THEN "fallback" ELSE @]

-----------------------------------------------------------------------------
(* Arrivals, one per route *)

CreateWorkspace(r, a) == Start(r, Call("createWorkspace", a))

DeleteWorkspace(r, a) ==
    \E w \in Workspaces : Start(r, [Call("deleteWorkspace", a) EXCEPT !.workspace = w])

List(r, a) ==
    \E w \in Workspaces \cup {NoWorkspace}, op \in {"listShares", "listTodos"} :
        Start(r, In(Call(op, a), w))

ChangeShare(r, a) ==
    \E w \in Workspaces \cup {NoWorkspace}, u \in Users \cup {NoUser},
       op \in {"createShare", "deleteShare"} :
        Start(r, [In(Call(op, a), w) EXCEPT !.target = u])

CreateTodo(r, a) ==
    \E w \in Workspaces \cup {NoWorkspace} : Start(r, In(Call("createTodo", a), w))

UpdateTodo(r, a) ==
    \E t \in Todos, b \in BOOLEAN :
        Start(r, [Call("updateTodo", a) EXCEPT !.id = t, !.completed = b])

DeleteTodo(r, a) ==
    \E t \in Todos : Start(r, [Call("deleteTodo", a) EXCEPT !.id = t])

-----------------------------------------------------------------------------
(* Reading statements *)

\* ListAccessibleWorkspaces on behalf of a request that names no workspace.
Fallback(r) ==
    LET q == req[r] IN
    /\ q.pc = "fallback"
    /\ \/ /\ FirstAccessible(q.actor) = {}
          /\ Reject(r, "denied")
       \/ /\ \E w \in FirstAccessible(q.actor) :
                 req' = [req EXCEPT ![r].workspace = w,
                                    ![r].pc = FirstStatement(q.op)]
          /\ UNCHANGED tables

\* workspaceByID in DeleteWorkspace: only the owner goes on.
LookupForDelete(r) ==
    LET q == req[r] IN
    /\ q.pc = "lookup" /\ q.op = "deleteWorkspace"
    /\ \/ ~IsLive(q.workspace) /\ Reject(r, "notFound")
       \/ /\ IsLive(q.workspace) /\ owner[q.workspace] # q.actor
          /\ Reject(r, "denied")
       \/ /\ owner[q.workspace] = q.actor
          /\ Continue(r, "effect")
          /\ UNCHANGED tables

\* Mutant: the owner check of CreateWorkspaceShare is missing.
LookupForShareUnchecked(r) ==
    LET q == req[r] IN
    /\ q.pc = "lookup" /\ q.op = "createShare"
    /\ \/ q.target = NoUser /\ Reject(r, "badRequest")
       \/ /\ q.target # NoUser /\ ~IsLive(q.workspace)
          /\ Reject(r, "denied")
       \/ /\ q.target # NoUser /\ IsLive(q.workspace)
          /\ Continue(r, "authorize")
          /\ UNCHANGED tables

\* CreateWorkspaceShare up to workspaceByID: the target is named, and is not
\* the owner.
LookupForShare(r) ==
    LET q == req[r] IN
    /\ q.pc = "lookup" /\ q.op = "createShare"
    /\ \/ q.target = NoUser /\ Reject(r, "badRequest")
       \/ /\ q.target # NoUser /\ ~IsLive(q.workspace)
          /\ Reject(r, "denied")
       \/ /\ q.target # NoUser /\ owner[q.workspace] = q.target
          /\ Reject(r, "badRequest")
       \/ /\ q.target # NoUser /\ IsLive(q.workspace)
          /\ owner[q.workspace] # q.target
          /\ Continue(r, "authorize")
          /\ UNCHANGED tables

\* DeleteWorkspaceShare up to workspaceByID, which keeps the owner for later.
LookupForUnshare(r) ==
    LET q == req[r] IN
    /\ q.pc = "lookup" /\ q.op = "deleteShare"
    /\ \/ q.target = NoUser /\ Reject(r, "badRequest")
       \/ /\ q.target # NoUser /\ ~IsLive(q.workspace)
          /\ Reject(r, "denied")
       \/ /\ q.target # NoUser /\ IsLive(q.workspace)
          /\ req' = [req EXCEPT ![r].pc = "authorize",
                                ![r].seenOwner = owner[q.workspace]]
          /\ UNCHANGED tables

\* workspaceByID in CreateTodo, after the access check.
LookupForTodo(r) ==
    LET q == req[r] IN
    /\ q.pc = "lookup" /\ q.op = "createTodo"
    /\ \/ ~IsLive(q.workspace) /\ Reject(r, "denied")
       \/ /\ IsLive(q.workspace)
          /\ req' = [req EXCEPT ![r].pc = "effect",
                                ![r].seenOwner = owner[q.workspace]]
          /\ UNCHANGED tables

\* SELECT workspace_id FROM todos, the first statement of UpdateTodo and
\* DeleteTodo.
TodoWorkspace(r) ==
    LET q == req[r] IN
    /\ q.pc = "todoRow"
    /\ \/ todo[q.id] = NoTodo /\ Reject(r, "notFound")
       \/ /\ todo[q.id] # NoTodo
          /\ req' = [req EXCEPT ![r].pc = "authorize",
                                ![r].workspace = todo[q.id].workspace]
          /\ UNCHANGED tables

\* Mutant: CreateTodo leaves out workspaceByID.
AfterAuthorizeNoLookup(op) == IF op = "createShare" THEN "userExists" ELSE "effect"

\* What follows a successful authorizeWorkspace.
AfterAuthorize(op) ==
    CASE op = "createShare" -> "userExists"
      [] op = "createTodo"  -> "lookup"
      [] OTHER              -> "effect"

\* Mutant: the result of authorizeWorkspace is ignored.
AuthorizeWorkspaceIgnored(r) ==
    /\ req[r].pc = "authorize"
    /\ Continue(r, AfterAuthorize(req[r].op))
    /\ UNCHANGED tables

\* authorizeWorkspace; DeleteWorkspaceShare then compares its target with the
\* owner it read before.
AuthorizeWorkspace(r) ==
    LET q == req[r] IN
    /\ q.pc = "authorize"
    /\ \/ ~HasAccess(q.actor, q.workspace) /\ Reject(r, "denied")
       \/ /\ HasAccess(q.actor, q.workspace)
          /\ q.op = "deleteShare" /\ q.target = q.seenOwner
          /\ Reject(r, "badRequest")
       \/ /\ HasAccess(q.actor, q.workspace)
          /\ ~(q.op = "deleteShare" /\ q.target = q.seenOwner)
          /\ Continue(r, AfterAuthorize(q.op))
          /\ UNCHANGED tables

\* userExists: the owner in CreateWorkspace, the target in
\* CreateWorkspaceShare.  The handler has no 404 for the former.
UserExists(r) ==
    LET q == req[r]
        subject == IF q.op = "createShare" THEN q.target ELSE q.actor IN
    /\ q.pc = "userExists"
    /\ \/ /\ subject \notin users
          /\ Reject(r, IF q.op = "createShare" THEN "notFound" ELSE "error")
       \/ /\ subject \in users
          /\ Continue(r, "effect")
          /\ UNCHANGED tables

-----------------------------------------------------------------------------
(* Final statements *)

\* insertWorkspace: the database generates the id.
InsertWorkspace(r) ==
    LET q == req[r] IN
    /\ q.pc = "effect" /\ q.op = "createWorkspace"
    /\ \E w \in Workspaces \ born :
        /\ owner' = [owner EXCEPT ![w] = q.actor]
        /\ born' = born \cup {w}
        /\ req' = [req EXCEPT ![r].pc = "done", ![r].status = "ok",
                              ![r].workspace = w]
    /\ UNCHANGED <<users, members, todo>>

\* DELETE FROM workspaces; the foreign keys of workspace_memberships and todos
\* cascade.
CascadeDelete(w) ==
    /\ owner' = [owner EXCEPT ![w] = NoUser]
    /\ members' = [members EXCEPT ![w] = {}]
    /\ todo' = [t \in Todos |-> IF t \in TodosOf(w) THEN NoTodo ELSE todo[t]]
    /\ UNCHANGED <<users, born>>

\* Mutant: DeleteWorkspace answers success without looking at rowsAffected.
RemoveWorkspaceUncounted(r) ==
    /\ req[r].pc = "effect" /\ req[r].op = "deleteWorkspace"
    /\ Answer(r, "ok", {})
    /\ CascadeDelete(req[r].workspace)

\* No affected row, no workspace.
RemoveWorkspace(r) ==
    LET q == req[r] IN
    /\ q.pc = "effect" /\ q.op = "deleteWorkspace"
    /\ \/ ~IsLive(q.workspace) /\ Reject(r, "notFound")
       \/ /\ IsLive(q.workspace)
          /\ Answer(r, "ok", {})
          /\ CascadeDelete(q.workspace)

SelectShares(r) ==
    /\ req[r].pc = "effect" /\ req[r].op = "listShares"
    /\ Answer(r, "ok", members[req[r].workspace])
    /\ UNCHANGED tables

\* INSERT INTO workspace_memberships ... ON CONFLICT DO NOTHING; the foreign
\* key to workspaces refuses the row when the workspace is gone.
InsertShare(r) ==
    LET q == req[r] IN
    /\ q.pc = "effect" /\ q.op = "createShare"
    /\ \/ ~IsLive(q.workspace) /\ Reject(r, "error")
       \/ /\ IsLive(q.workspace)
          /\ Answer(r, "ok", {})
          /\ members' = [members EXCEPT ![q.workspace] = @ \cup {q.target}]
          /\ UNCHANGED <<users, owner, todo, born>>

RemoveShare(r) ==
    LET q == req[r] IN
    /\ q.pc = "effect" /\ q.op = "deleteShare"
    /\ Answer(r, "ok", {})
    /\ members' = [members EXCEPT ![q.workspace] = @ \ {q.target}]
    /\ UNCHANGED <<users, owner, todo, born>>

SelectTodos(r) ==
    /\ req[r].pc = "effect" /\ req[r].op = "listTodos"
    /\ Answer(r, "ok", TodosOf(req[r].workspace))
    /\ UNCHANGED tables

\* Mutant: the actor is written where the workspace's owner belongs.
NewTodoForActor(q) == [workspace |-> q.workspace, workspaceOwner |-> q.actor,
                       author |-> q.actor, completed |-> FALSE]

\* The owner workspaceByID returned becomes workspace_email.
NewTodo(q) == [workspace |-> q.workspace, workspaceOwner |-> q.seenOwner,
               author |-> q.actor, completed |-> FALSE]

PutTodo(r) ==
    /\ \E t \in Todos \ born :
        /\ todo' = [todo EXCEPT ![t] = NewTodo(req[r])]
        /\ born' = born \cup {t}
        /\ req' = [req EXCEPT ![r].pc = "done", ![r].status = "ok", ![r].id = t]
    /\ UNCHANGED <<users, owner, members>>

\* Mutant: todos.workspace_id has no foreign key.
InsertTodoUnreferenced(r) ==
    /\ req[r].pc = "effect" /\ req[r].op = "createTodo"
    /\ PutTodo(r)

\* INSERT INTO todos; refused by the foreign key when the workspace is gone.
InsertTodo(r) ==
    LET q == req[r] IN
    /\ q.pc = "effect" /\ q.op = "createTodo"
    /\ \/ ~IsLive(q.workspace) /\ Reject(r, "error")
       \/ IsLive(q.workspace) /\ PutTodo(r)

\* UPDATE todos ... RETURNING: no row, no todo.
ChangeTodo(r) ==
    LET q == req[r] IN
    /\ q.pc = "effect" /\ q.op = "updateTodo"
    /\ \/ todo[q.id] = NoTodo /\ Reject(r, "notFound")
       \/ /\ todo[q.id] # NoTodo
          /\ Answer(r, "ok", {})
          /\ todo' = [todo EXCEPT ![q.id].completed = q.completed]
          /\ UNCHANGED <<users, owner, members, born>>

\* DELETE FROM todos: no affected row, no todo.
RemoveTodo(r) ==
    LET q == req[r] IN
    /\ q.pc = "effect" /\ q.op = "deleteTodo"
    /\ \/ todo[q.id] = NoTodo /\ Reject(r, "notFound")
       \/ /\ todo[q.id] # NoTodo
          /\ Answer(r, "ok", {})
          /\ todo' = [todo EXCEPT ![q.id] = NoTodo]
          /\ UNCHANGED <<users, owner, members, born>>

-----------------------------------------------------------------------------
\* The transaction of ProvisionUser: the account and its default workspace.
ProvisionUser(u) ==
    /\ u \notin users
    /\ users' = users \cup {u}
    /\ \E w \in Workspaces \ born :
        /\ owner' = [owner EXCEPT ![w] = u]
        /\ born' = born \cup {w}
    /\ UNCHANGED <<members, todo, req>>

\* The client goes away, the database fails or the service stops between two
\* statements: the statements already executed stay, and the 500, if anybody is
\* there to read it, says nothing of them.
Interrupt(r) ==
    /\ req[r].pc \in Statements
    /\ req' = [req EXCEPT ![r] = [Idle EXCEPT !.pc = "done", !.status = "error"]]
    /\ UNCHANGED tables

Init ==
    /\ users = {}
    /\ owner = [w \in Workspaces |-> NoUser]
    /\ members = [w \in Workspaces |-> {}]
    /\ todo = [t \in Todos |-> NoTodo]
    /\ born = {}
    /\ req = [r \in Requests |-> Idle]

Arrive(r) ==
    \E a \in users :
        \/ CreateWorkspace(r, a) \/ DeleteWorkspace(r, a)
        \/ List(r, a) \/ ChangeShare(r, a)
        \/ CreateTodo(r, a) \/ UpdateTodo(r, a) \/ DeleteTodo(r, a)

Read(r) ==
    \/ Fallback(r)
    \/ LookupForDelete(r) \/ LookupForShare(r)
    \/ LookupForUnshare(r) \/ LookupForTodo(r)
    \/ TodoWorkspace(r) \/ AuthorizeWorkspace(r) \/ UserExists(r)

Effect(r) ==
    \/ InsertWorkspace(r) \/ RemoveWorkspace(r)
    \/ SelectShares(r) \/ InsertShare(r) \/ RemoveShare(r)
    \/ SelectTodos(r) \/ InsertTodo(r) \/ ChangeTodo(r) \/ RemoveTodo(r)

Next ==
    \/ \E u \in Users : ProvisionUser(u)
    \/ \E r \in Requests : Arrive(r) \/ Read(r) \/ Effect(r) \/ Interrupt(r)

Spec == Init /\ [][Next]_vars

-----------------------------------------------------------------------------
(* Properties *)

\* No workspace lists its owner among its collaborators.  The CHECK constraint
\* that said so was dropped with the move to named workspaces, so it rests on
\* CreateWorkspaceShare comparing its target with an owner read two statements
\* before the INSERT.
OwnerNotMember == \A w \in Workspaces : owner[w] \notin members[w]

\* Every todo belongs to a live workspace and carries that workspace's owner as
\* workspace_email, although CreateTodo reads the owner in one statement and
\* inserts in another, with deletions of the workspace in between.
TodosBelong ==
    \A t \in Todos : todo[t] # NoTodo =>
        /\ IsLive(todo[t].workspace)
        /\ owner[todo[t].workspace] = todo[t].workspaceOwner
        /\ todo[t].author \in users

Deleted(r) == req[r].status = "ok" /\ req[r].op \in {"deleteWorkspace", "deleteTodo"}
Removed(q) == IF q.op = "deleteTodo" THEN q.id ELSE q.workspace

\* A deletion is reported once and for good: of the requests racing to delete
\* one workspace or todo a single one is told it did (the others get 404), and
\* no request still under way brings the row, its shares or its todos back.
DeletionsFinal ==
    \A r \in Requests : Deleted(r) =>
        /\ \A s \in Requests \ {r} : Deleted(s) /\ req[s].op = req[r].op
                                        => Removed(req[s]) # Removed(req[r])
        /\ req[r].op = "deleteTodo" => todo[req[r].id] = NoTodo
        /\ req[r].op = "deleteWorkspace" =>
              /\ ~IsLive(req[r].workspace)
              /\ members[req[r].workspace] = {}
              /\ TodosOf(req[r].workspace) = {}

\* A request may act on the workspace authorizeWorkspace let it through to.
Authorized(q) ==
    \/ q.pc = "userExists" /\ q.op = "createShare"
    \/ q.pc = "lookup" /\ q.op = "createTodo"
    \/ q.pc = "effect" /\ q.op \notin {"createWorkspace", "deleteWorkspace"}

CallerOf(q) == IF q.pc \in Statements THEN q.actor ELSE NoUser
PermitOf(q) == IF Authorized(q) THEN {q.workspace} ELSE {}
ShownBy(q)  == IF q.pc = "done" /\ q.op \in {"listShares", "listTodos"}
               THEN q.rows ELSE {}

callers == [r \in Requests |-> CallerOf(req[r])]
permits == [r \in Requests |-> PermitOf(req[r])]
shows   == [r \in Requests |-> ShownBy(req[r])]

Contract == INSTANCE WorkspaceContract
                WITH caller <- callers, permit <- permits, shown <- shows

\* Requests in any interleaving keep the contract: a change or a disclosure is
\* made only for a caller that had access during that same request, and a
\* workspace is deleted only by its owner.
KeepsContract == Contract!Spec

-----------------------------------------------------------------------------
(* The inductive invariant behind the properties above *)

\* Rows carry generated ids and refer to rows.
RowsReferToRows ==
    /\ \A w \in Workspaces : IsLive(w) => w \in born /\ owner[w] \in users
    /\ \A w \in Workspaces : members[w] \subseteq users
    /\ \A w \in Workspaces : ~IsLive(w) => members[w] = {}
    /\ \A t \in Todos : todo[t] # NoTodo => t \in born

\* Which routes execute which statements, and with what.
Placed(q) ==
    /\ q.pc \in Statements => q.actor \in users
    /\ q.pc = "fallback" => q.op \in FallbackRoutes
    /\ q.pc = "authorize" => q.op \notin {"createWorkspace", "deleteWorkspace"}
    /\ q.pc = "userExists" => q.op \in {"createWorkspace", "createShare"}
    /\ q.pc \in {"authorize", "effect"} /\ q.op = "deleteShare" => q.target \in Users
    /\ q.pc = "todoRow" => q.op \in {"updateTodo", "deleteTodo"} /\ q.id \in Todos
    /\ q.pc \in {"lookup", "authorize", "userExists", "effect"} /\ q.op # "createWorkspace"
          => q.workspace \in Workspaces

\* What a request read is still true, or the workspace or the todo it read it
\* of is gone for good.
Grounded(q) ==
    /\ q.op = "deleteWorkspace" /\ q.pc = "effect" =>
          q.workspace \in born /\ owner[q.workspace] \in {q.actor, NoUser}
    /\ q.op = "createShare" /\ q.pc \in {"authorize", "userExists", "effect"} =>
          /\ q.workspace \in born /\ owner[q.workspace] # q.target
          /\ q.target \in Users
          /\ q.pc = "effect" => q.target \in users
    /\ q.op = "createTodo" /\ q.pc = "effect" =>
          /\ q.workspace \in born /\ q.seenOwner \in Users
          /\ owner[q.workspace] \in {q.seenOwner, NoUser}
    /\ q.op \in {"updateTodo", "deleteTodo"} /\ q.pc \in {"authorize", "effect"} =>
          /\ q.id \in Todos \cap born
          /\ todo[q.id] # NoTodo => todo[q.id].workspace = q.workspace
    /\ q.op = "deleteWorkspace" /\ q.status = "ok" =>
          q.workspace \in Workspaces \cap born
    /\ q.op = "deleteTodo" /\ q.status = "ok" => q.id \in Todos \cap born
    /\ q.status = "ok" => q.pc = "done"

Inv ==
    /\ TypeOK
    /\ RowsReferToRows
    /\ OwnerNotMember
    /\ TodosBelong
    /\ DeletionsFinal
    /\ \A r \in Requests : Placed(req[r]) /\ Grounded(req[r])

=============================================================================
