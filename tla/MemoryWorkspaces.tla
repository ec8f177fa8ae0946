-------------------------- MODULE MemoryWorkspaces --------------------------
(***************************************************************************)
(* The workspace, share and todo operations of memoryStore, the store the  *)
(* repository's handler tests run on: one mutex, so one operation is one   *)
(* step, from arguments to answer.  It is what the tests take PostgresStore*)
(* to do; WorkspaceConformance compares the two.                           *)
(***************************************************************************)
CONSTANTS Users, Workspaces, Todos, Requests, Routes,
          NoUser, NoWorkspace, NoTodo

VARIABLES users, owner, members, todo, born,
          answer  \* what each request was answered, NoAnswer before

vars == <<users, owner, members, todo, born, answer>>

NoAnswer == [status |-> "none"]

Init ==
    /\ users = {}
    /\ owner = [w \in Workspaces |-> NoUser]
    /\ members = [w \in Workspaces |-> {}]
    /\ todo = [t \in Todos |-> NoTodo]
    /\ born = {}
    /\ answer = [r \in Requests |-> NoAnswer]

-----------------------------------------------------------------------------
Exists(w) == w \in Workspaces /\ owner[w] # NoUser

\* hasAccessLocked
HasAccess(u, w) == Exists(w) /\ (owner[w] = u \/ u \in members[w])

OwnedBy(u)    == {w \in Workspaces : owner[w] = u}
SharedWith(u) == {w \in Workspaces : owner[w] # u /\ u \in members[w]}

\* The workspace an operation is called with: the one named, or the first of
\* ListAccessibleWorkspaces (owned before shared); none if there is none.
Resolve(u, named) ==
    LET found == IF OwnedBy(u) # {} THEN OwnedBy(u) ELSE SharedWith(u) IN
    IF named # NoWorkspace THEN {named}
    ELSE IF found # {} THEN found ELSE {NoWorkspace}

TodosOf(w) == {t \in Todos : todo[t] # NoTodo /\ todo[t].workspace = w}

Reply(r, op, u, w, target, t, status, rows) ==
    /\ op \in Routes /\ u \in users /\ answer[r] = NoAnswer
    /\ answer' = [answer EXCEPT ![r] =
                     [op |-> op, actor |-> u, workspace |-> w,
                      target |-> target, id |-> t,
                      status |-> status, rows |-> rows]]

Same == UNCHANGED <<users, owner, members, todo, born>>

-----------------------------------------------------------------------------
\* addUser, called by ProvisionUser.
AddUser(u) ==
    /\ u \notin users
    /\ users' = users \cup {u}
    /\ \E w \in Workspaces \ born :
        /\ owner' = [owner EXCEPT ![w] = u] /\ born' = born \cup {w}
    /\ UNCHANGED <<members, todo, answer>>

CreateWorkspace(r, u) ==
    \E w \in Workspaces \ born :
        /\ Reply(r, "createWorkspace", u, w, NoUser, NoTodo, "ok", {})
        /\ owner' = [owner EXCEPT ![w] = u] /\ born' = born \cup {w}
        /\ UNCHANGED <<users, members, todo>>

DeleteWorkspace(r, u, w) ==
    LET Say(status) == Reply(r, "deleteWorkspace", u, w, NoUser, NoTodo, status, {})
    IN  \/ ~Exists(w) /\ Say("notFound") /\ Same
        \/ Exists(w) /\ owner[w] # u /\ Say("denied") /\ Same
        \/ /\ owner[w] = u /\ Say("ok")
           /\ owner' = [owner EXCEPT ![w] = NoUser]
           /\ members' = [members EXCEPT ![w] = {}]
           /\ todo' = [t \in Todos |-> IF t \in TodosOf(w) THEN NoTodo ELSE todo[t]]
           /\ UNCHANGED <<users, born>>

ListWorkspaceShares(r, u, w) ==
    /\ Reply(r, "listShares", u, w, NoUser, NoTodo,
             IF HasAccess(u, w) THEN "ok" ELSE "denied",
             IF HasAccess(u, w) THEN members[w] ELSE {})
    /\ Same

CreateWorkspaceShare(r, u, w, target) ==
    LET Say(status) == Reply(r, "createShare", u, w, target, NoTodo, status, {})
    IN  \/ w # NoWorkspace /\ target = NoUser /\ Say("badRequest") /\ Same
        \/ /\ w = NoWorkspace \/ (target # NoUser /\ ~Exists(w))
           /\ Say("denied") /\ Same
        \/ /\ target # NoUser /\ Exists(w) /\ target = owner[w]
           /\ Say("badRequest") /\ Same
        \/ /\ target # NoUser /\ Exists(w) /\ target # owner[w]
           /\ \/ ~HasAccess(u, w) /\ Say("denied") /\ Same
              \/ HasAccess(u, w) /\ target \notin users /\ Say("notFound") /\ Same
              \/ /\ HasAccess(u, w) /\ target \in users /\ Say("ok")
                 /\ members' = [members EXCEPT ![w] = @ \cup {target}]
                 /\ UNCHANGED <<users, owner, todo, born>>

DeleteWorkspaceShare(r, u, w, target) ==
    LET Say(status) == Reply(r, "deleteShare", u, w, target, NoTodo, status, {})
    IN  \/ w # NoWorkspace /\ target = NoUser /\ Say("badRequest") /\ Same
        \/ /\ w = NoWorkspace \/ (target # NoUser /\ ~HasAccess(u, w))
           /\ Say("denied") /\ Same
        \/ /\ target # NoUser /\ HasAccess(u, w) /\ target = owner[w]
           /\ Say("badRequest") /\ Same
        \/ /\ target # NoUser /\ HasAccess(u, w) /\ target # owner[w] /\ Say("ok")
           /\ members' = [members EXCEPT ![w] = @ \ {target}]
           /\ UNCHANGED <<users, owner, todo, born>>

ListTodos(r, u, w) ==
    /\ Reply(r, "listTodos", u, w, NoUser, NoTodo,
             IF HasAccess(u, w) THEN "ok" ELSE "denied",
             IF HasAccess(u, w) THEN TodosOf(w) ELSE {})
    /\ Same

CreateTodo(r, u, w) ==
    \/ /\ ~HasAccess(u, w)
       /\ Reply(r, "createTodo", u, w, NoUser, NoTodo, "denied", {})
       /\ Same
    \/ \E t \in Todos \ born :
        /\ HasAccess(u, w)
        /\ Reply(r, "createTodo", u, w, NoUser, t, "ok", {})
        /\ todo' = [todo EXCEPT ![t] = [workspace |-> w, workspaceOwner |-> owner[w],
                                        author |-> u, completed |-> FALSE]]
        /\ born' = born \cup {t}
        /\ UNCHANGED <<users, owner, members>>

\* UpdateTodo and DeleteTodo look the todo up first and then its workspace.
OnTodo(r, op, u, t, row) ==
    LET Say(status) == Reply(r, op, u, NoWorkspace, NoUser, t, status, {})
    IN  \/ todo[t] = NoTodo /\ Say("notFound") /\ Same
        \/ /\ todo[t] # NoTodo /\ ~HasAccess(u, todo[t].workspace)
           /\ Say("denied") /\ Same
        \/ /\ todo[t] # NoTodo /\ HasAccess(u, todo[t].workspace) /\ Say("ok")
           /\ todo' = [todo EXCEPT ![t] = row]
           /\ UNCHANGED <<users, owner, members, born>>

UpdateTodo(r, u, t) ==
    \E b \in BOOLEAN :
        OnTodo(r, "updateTodo", u, t,
               IF todo[t] = NoTodo THEN NoTodo
               ELSE [todo[t] EXCEPT !.completed = b])

DeleteTodo(r, u, t) == OnTodo(r, "deleteTodo", u, t, NoTodo)

\* The request is given up before the operation.
Cancel(r) ==
    /\ answer[r] = NoAnswer
    /\ answer' = [answer EXCEPT ![r] = [status |-> "error"]]
    /\ Same

\* The answer is delivered, and the slot takes another request.
Forget(r) ==
    /\ answer' = [answer EXCEPT ![r] = NoAnswer]
    /\ Same

Next ==
    \/ \E u \in Users : AddUser(u)
    \/ \E r \in Requests :
        \/ Cancel(r) \/ Forget(r)
        \/ \E u \in users :
            \/ CreateWorkspace(r, u)
            \/ \E w \in Workspaces : DeleteWorkspace(r, u, w)
            \/ \E named \in Workspaces \cup {NoWorkspace} :
               \E w \in Resolve(u, named) :
                \/ ListWorkspaceShares(r, u, w)
                \/ ListTodos(r, u, w)
                \/ CreateTodo(r, u, w)
                \/ \E target \in Users \cup {NoUser} :
                    \/ CreateWorkspaceShare(r, u, w, target)
                    \/ DeleteWorkspaceShare(r, u, w, target)
            \/ \E t \in Todos : UpdateTodo(r, u, t) \/ DeleteTodo(r, u, t)

Spec == Init /\ [][Next]_vars

=============================================================================
