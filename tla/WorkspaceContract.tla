-------------------------- MODULE WorkspaceContract --------------------------
(***************************************************************************)
(* What the workspace API promises about who may do what, without saying   *)
(* how a request is split into statements.                                 *)
(*                                                                         *)
(* A caller is given a permit for a workspace only while it has access to  *)
(* it, the permit lasts no longer than the request it was given to, and    *)
(* nobody changes or sees the shares and todos of a workspace without one. *)
(* So losing access stops every request begun later at once, and a request *)
(* under way at most once more.  Creating and deleting a workspace need no *)
(* permit: only its owner deletes it, at the moment it is deleted.         *)
(***************************************************************************)
CONSTANTS Users, Workspaces, Todos, Requests, NoUser, NoTodo

VARIABLES
    users, owner, members, todo,
    caller,  \* who each open request acts for, NoUser when it is not open
    permit,  \* the workspaces each open request may act on
    shown    \* the shares and todos the last request was answered with

vars == <<users, owner, members, todo, caller, permit, shown>>

HasAccess(u, w) == owner[w] # NoUser /\ (u = owner[w] \/ u \in members[w])

Init ==
    /\ users = {}
    /\ owner = [w \in Workspaces |-> NoUser]
    /\ members = [w \in Workspaces |-> {}]
    /\ todo = [t \in Todos |-> NoTodo]
    /\ caller = [r \in Requests |-> NoUser]
    /\ permit = [r \in Requests |-> {}]
    /\ shown = [r \in Requests |-> {}]

\* An account comes with a workspace of its own.
Register(u, w) ==
    /\ u \notin users /\ owner[w] = NoUser
    /\ users' = users \cup {u}
    /\ owner' = [owner EXCEPT ![w] = u]
    /\ UNCHANGED <<members, todo, caller, permit, shown>>

Begin(r, u) ==
    /\ caller[r] = NoUser /\ u \in users
    /\ caller' = [caller EXCEPT ![r] = u]
    /\ shown' = [shown EXCEPT ![r] = {}]
    /\ UNCHANGED <<users, owner, members, todo, permit>>

Grant(r, w) ==
    /\ caller[r] # NoUser /\ HasAccess(caller[r], w)
    /\ permit' = [permit EXCEPT ![r] = @ \cup {w}]
    /\ UNCHANGED <<users, owner, members, todo, caller, shown>>

\* Every effect ends the request it belongs to.
End(r) ==
    /\ caller[r] # NoUser
    /\ caller' = [caller EXCEPT ![r] = NoUser]
    /\ permit' = [permit EXCEPT ![r] = {}]

Decline(r) == End(r) /\ UNCHANGED <<users, owner, members, todo, shown>>

Found(r, w) ==
    /\ End(r) /\ owner[w] = NoUser
    /\ owner' = [owner EXCEPT ![w] = caller[r]]
    /\ UNCHANGED <<users, members, todo, shown>>

Disband(r, w) ==
    /\ End(r) /\ owner[w] = caller[r]
    /\ owner' = [owner EXCEPT ![w] = NoUser]
    /\ members' = [members EXCEPT ![w] = {}]
    /\ todo' = [t \in Todos |->
                   IF todo[t] # NoTodo /\ todo[t].workspace = w THEN NoTodo
                   ELSE todo[t]]
    /\ UNCHANGED <<users, shown>>

Admit(r, w, u) ==
    /\ End(r) /\ w \in permit[r]
    /\ owner[w] # NoUser /\ u \in users /\ u # owner[w]
    /\ members' = [members EXCEPT ![w] = @ \cup {u}]
    /\ UNCHANGED <<users, owner, todo, shown>>

Expel(r, w, u) ==
    /\ End(r) /\ w \in permit[r]
    /\ members' = [members EXCEPT ![w] = @ \ {u}]
    /\ UNCHANGED <<users, owner, todo, shown>>

\* A todo records who asked for it and who owns its workspace.
AddTodo(r, w, t) ==
    /\ End(r) /\ w \in permit[r]
    /\ owner[w] # NoUser /\ todo[t] = NoTodo
    /\ todo' = [todo EXCEPT ![t] =
                   [workspace |-> w, workspaceOwner |-> owner[w],
                    author |-> caller[r], completed |-> FALSE]]
    /\ UNCHANGED <<users, owner, members, shown>>

SetTodo(r, t, b) ==
    /\ End(r) /\ todo[t] # NoTodo /\ todo[t].workspace \in permit[r]
    /\ todo' = [todo EXCEPT ![t].completed = b]
    /\ UNCHANGED <<users, owner, members, shown>>

DropTodo(r, t) ==
    /\ End(r) /\ todo[t] # NoTodo /\ todo[t].workspace \in permit[r]
    /\ todo' = [todo EXCEPT ![t] = NoTodo]
    /\ UNCHANGED <<users, owner, members, shown>>

ShowShares(r, w) ==
    /\ End(r) /\ w \in permit[r]
    /\ shown' = [shown EXCEPT ![r] = members[w]]
    /\ UNCHANGED <<users, owner, members, todo>>

ShowTodos(r, w) ==
    /\ End(r) /\ w \in permit[r]
    /\ shown' = [shown EXCEPT ![r] =
                    {t \in Todos : todo[t] # NoTodo /\ todo[t].workspace = w}]
    /\ UNCHANGED <<users, owner, members, todo>>

Next ==
    \/ \E r \in Requests, u \in Users : Begin(r, u)
    \/ \E r \in Requests :
        \/ Decline(r)
        \/ \E w \in Workspaces :
            \/ Grant(r, w) \/ Found(r, w) \/ Disband(r, w)
            \/ ShowShares(r, w) \/ ShowTodos(r, w)
            \/ \E u \in Users : Admit(r, w, u) \/ Expel(r, w, u)
            \/ \E t \in Todos : AddTodo(r, w, t)
        \/ \E t \in Todos :
            \/ DropTodo(r, t)
            \/ \E b \in BOOLEAN : SetTodo(r, t, b)
    \/ \E u \in Users, w \in Workspaces : Register(u, w)

Spec == Init /\ [][Next]_vars

=============================================================================
