--------------------------- MODULE WorkspaceProofs ---------------------------
(***************************************************************************)
(* Proofs about WorkspaceService, for any users, workspaces, todos,        *)
(* requests and routes.                                                    *)
(*                                                                         *)
(* The argument: ids are never generated twice and an owner never changes, *)
(* so a row that a statement has read is, at any later statement, either   *)
(* the same in what matters or gone for good (Stable).  What a request     *)
(* read therefore stays Grounded whatever the others do, and each final    *)
(* statement acts on grounds that still hold.                              *)
(*                                                                         *)
(* WorkspaceService implements WorkspaceContract: every statement of a     *)
(* request is a step of the contract or changes nothing it speaks of.  An  *)
(* arrival begins the request, authorizeWorkspace grants its permit, a     *)
(* final statement is the effect of the same name, and any other answer    *)
(* declines.  That a permit was granted, and on what, is what Placed and   *)
(* Grounded keep between the statements.                                   *)
(***************************************************************************)
EXTENDS WorkspaceService, TLAPS

USE RoutesAssumption, NullsAssumption

\* What a step may do to the rows others have read.
Stable ==
    /\ users \subseteq users' /\ born \subseteq born'
    /\ \A w \in Workspaces \cap born : owner'[w] \in {owner[w], NoUser}
    /\ \A t \in Todos \cap born :
          todo'[t] # NoTodo =>
             todo[t] # NoTodo /\ todo'[t].workspace = todo[t].workspace

-----------------------------------------------------------------------------
(* Requests that are not served in a step *)

LEMMA OthersKept ==
    ASSUME Inv, Stable, NEW s \in Requests, req'[s] = req[s]
    PROVE  (Placed(req[s]) /\ Grounded(req[s]))'
<1>1. req[s] \in Request /\ Placed(req[s]) /\ Grounded(req[s])
  BY DEF Inv, TypeOK
<1>2. Placed(req[s])'
  BY <1>1 DEF Placed, Stable
<1>3. Grounded(req[s])'
  <2> DEFINE q == req[s]
  <2>1. (q.op = "deleteWorkspace" /\ q.pc = "effect" =>
          q.workspace \in born /\ owner[q.workspace] \in {q.actor, NoUser})'
    BY <1>1 DEF Placed, Grounded, Stable
  <2>2. (q.op = "createShare" /\ q.pc \in {"authorize", "userExists", "effect"} =>
          /\ q.workspace \in born /\ owner[q.workspace] # q.target
          /\ q.target \in Users
          /\ q.pc = "effect" => q.target \in users)'
    BY <1>1 DEF Placed, Grounded, Stable
  <2>3. (q.op = "createTodo" /\ q.pc = "effect" =>
          /\ q.workspace \in born /\ q.seenOwner \in Users
          /\ owner[q.workspace] \in {q.seenOwner, NoUser})'
    BY <1>1 DEF Placed, Grounded, Stable
  <2>4. (q.op \in {"updateTodo", "deleteTodo"} /\ q.pc \in {"authorize", "effect"} =>
          /\ q.id \in Todos \cap born
          /\ todo[q.id] # NoTodo => todo[q.id].workspace = q.workspace)'
    BY <1>1 DEF Grounded, Stable
  <2>5. (/\ q.op = "deleteWorkspace" /\ q.status = "ok" =>
              q.workspace \in Workspaces \cap born
         /\ q.op = "deleteTodo" /\ q.status = "ok" => q.id \in Todos \cap born
         /\ q.status = "ok" => q.pc = "done")'
    BY <1>1 DEF Grounded, Stable
  <2>6. QED BY <2>1, <2>2, <2>3, <2>4, <2>5 DEF Grounded
<1>4. QED BY <1>2, <1>3

\* Deletions answered before the step stay final.
LEMMA DeletionKept ==
    ASSUME Inv, Stable, (TypeOK /\ RowsReferToRows /\ TodosBelong)',
           NEW s \in Requests, req'[s] = req[s], Deleted(s)
    PROVE  (/\ req[s].op = "deleteTodo" => todo[req[s].id] = NoTodo
            /\ req[s].op = "deleteWorkspace" =>
                  /\ ~IsLive(req[s].workspace)
                  /\ members[req[s].workspace] = {}
                  /\ TodosOf(req[s].workspace) = {})'
<1>1. req[s] \in Request /\ Grounded(req[s])
  BY DEF Inv, TypeOK
<1>2. CASE req[s].op = "deleteTodo"
  <2>1. req[s].id \in Todos \cap born /\ todo[req[s].id] = NoTodo
    BY <1>1, <1>2 DEF Grounded, Inv, DeletionsFinal, Deleted
  <2>2. QED BY <1>2, <2>1 DEF Stable
<1>3. CASE req[s].op = "deleteWorkspace"
  <2>1. req[s].workspace \in Workspaces \cap born /\ owner[req[s].workspace] = NoUser
    BY <1>1, <1>3 DEF Grounded, Inv, DeletionsFinal, Deleted, IsLive
  <2>2. owner'[req[s].workspace] = NoUser
    BY <2>1 DEF Stable
  <2>3. members'[req[s].workspace] = {}
    BY <2>1, <2>2 DEF RowsReferToRows, IsLive
  <2>4. TodosOf(req[s].workspace)' = {}
    BY <2>1, <2>2 DEF TodosBelong, IsLive, TodosOf
  <2>5. QED BY <1>3, <2>2, <2>3, <2>4 DEF IsLive
<1>4. QED BY <1>2, <1>3 DEF Deleted

\* The general step: the tables are sound after it, and the one request it
\* serves is.
LEMMA RequestStep ==
    ASSUME Inv, Stable, (TypeOK /\ RowsReferToRows /\ OwnerNotMember /\ TodosBelong)',
           NEW r \in Requests, \A s \in Requests \ {r} : req'[s] = req[s],
           (Placed(req[r]) /\ Grounded(req[r]))',
           Deleted(r)' =>
               \/ /\ req'[r].op = "deleteTodo"
                  /\ todo[req'[r].id] # NoTodo /\ todo'[req'[r].id] = NoTodo
               \/ /\ req'[r].op = "deleteWorkspace"
                  /\ owner[req'[r].workspace] # NoUser
                  /\ owner'[req'[r].workspace] = NoUser
    PROVE  Inv'
<1>1. \A s \in Requests : (Placed(req[s]) /\ Grounded(req[s]))'
  BY OthersKept
<1>2. DeletionsFinal'
  <2> SUFFICES ASSUME NEW a \in Requests, Deleted(a)'
               PROVE  (/\ \A s \in Requests \ {a} : Deleted(s) /\ req[s].op = req[a].op
                                        => Removed(req[s]) # Removed(req[a])
                       /\ req[a].op = "deleteTodo" => todo[req[a].id] = NoTodo
                       /\ req[a].op = "deleteWorkspace" =>
                             /\ ~IsLive(req[a].workspace)
                             /\ members[req[a].workspace] = {}
                             /\ TodosOf(req[a].workspace) = {})'
    BY DEF DeletionsFinal
  <2>1. (/\ req[a].op = "deleteTodo" => todo[req[a].id] = NoTodo
         /\ req[a].op = "deleteWorkspace" =>
               /\ ~IsLive(req[a].workspace)
               /\ members[req[a].workspace] = {}
               /\ TodosOf(req[a].workspace) = {})'
    <3>1. CASE a # r
      BY <3>1, DeletionKept DEF Deleted
    <3>2. CASE a = r
      <4>1. CASE req'[r].op = "deleteTodo"
        BY <3>2, <4>1
      <4>2. CASE req'[r].op = "deleteWorkspace"
        <5>1. req'[r].workspace \in Workspaces /\ owner'[req'[r].workspace] = NoUser
          BY <3>2, <4>2 DEF Grounded, Deleted
        <5>2. QED BY <3>2, <4>2, <5>1 DEF RowsReferToRows, TodosBelong, IsLive, TodosOf
      <4>3. QED BY <3>2, <4>1, <4>2 DEF Deleted
    <3>3. QED BY <3>1, <3>2
  <2>2. ASSUME NEW b \in Requests \ {r}, Deleted(b)', Deleted(r)', req'[b].op = req'[r].op
        PROVE  Removed(req[b])' # Removed(req[r])'
    <3>1. req'[b] = req[b] /\ Deleted(b)
      BY <2>2 DEF Deleted
    <3>2. CASE req'[r].op = "deleteTodo"
      <4>1. todo[req[b].id] = NoTodo
        BY <2>2, <3>1, <3>2 DEF Inv, DeletionsFinal
      <4>2. QED BY <2>2, <3>1, <3>2, <4>1 DEF Removed
    <3>3. CASE req'[r].op = "deleteWorkspace"
      <4>1. owner[req[b].workspace] = NoUser
        BY <2>2, <3>1, <3>3 DEF Inv, DeletionsFinal, IsLive
      <4>2. QED BY <2>2, <3>1, <3>3, <4>1 DEF Removed
    <3>4. QED BY <2>2, <3>2, <3>3 DEF Deleted
  <2>3. ASSUME NEW b \in Requests \ {a}, Deleted(b)', req'[b].op = req'[a].op
        PROVE  Removed(req[b])' # Removed(req[a])'
    <3>1. CASE a = r BY <2>2, <2>3, <3>1
    <3>2. CASE b = r BY <2>2, <2>3, <3>2
    <3>3. CASE a # r /\ b # r
      BY <2>3, <3>3 DEF Inv, DeletionsFinal, Deleted, Removed
    <3>4. QED BY <3>1, <3>2, <3>3
  <2>4. QED BY <2>1, <2>3
<1>3. QED BY <1>1, <1>2 DEF Inv

\* The step of a request that leaves the tables alone.
LEMMA ReadingStep ==
    ASSUME Inv, UNCHANGED tables, NEW r \in Requests, NEW q \in Request,
           req' = [req EXCEPT ![r] = q],
           Placed(q), Grounded(q),
           ~(q.status = "ok" /\ q.op \in {"deleteWorkspace", "deleteTodo"})
    PROVE  Inv'
<1> USE DEF tables
<1>1. TypeOK'
  BY DEF Inv, TypeOK
<1>2. (RowsReferToRows /\ OwnerNotMember /\ TodosBelong)'
  BY DEF Inv, RowsReferToRows, OwnerNotMember, TodosBelong, IsLive
<1>3. Stable
  BY DEF Stable
<1>4. req'[r] = q /\ \A s \in Requests \ {r} : req'[s] = req[s]
  BY DEF Inv, TypeOK
<1>5. (Placed(req[r]) /\ Grounded(req[r]))'
  BY <1>4 DEF Placed, Grounded
<1>6. ~Deleted(r)'
  BY <1>4 DEF Deleted
<1>7. QED BY <1>1, <1>2, <1>3, <1>4, <1>5, <1>6, RequestStep

-----------------------------------------------------------------------------
(* The steps of one request that leave the tables alone *)

\* A rejection changes nothing but the request's slot.
LEMMA RejectKeeps ==
    ASSUME Inv, NEW r \in Requests, NEW status \in Statuses \ {"ok"},
           Reject(r, status)
    PROVE  Inv'
<1> DEFINE q == [req[r] EXCEPT !.pc = "done", !.status = status, !.rows = {}]
<1>1. req' = [req EXCEPT ![r] = q] /\ UNCHANGED tables
  BY DEF Reject, Answer, Inv, TypeOK
<1>2. q \in Request /\ q.pc = "done" /\ q.status # "ok"
  <2>1. req[r] \in Request /\ status \in Statuses
    BY DEF Inv, TypeOK
  <2>2. q \in Request
    BY <2>1 DEF Request
  <2>3. q.pc = "done" /\ q.status = status
    BY <2>1 DEF Request
  <2>4. QED BY <2>2, <2>3
<1>3. Placed(q) /\ Grounded(q)
  BY <1>2 DEF Placed, Grounded, Statements
<1>4. QED BY <1>1, <1>2, <1>3, ReadingStep

\* Neither does an arrival.
LEMMA StartKeeps ==
    ASSUME Inv, NEW r \in Requests, NEW q \in Request, Start(r, q),
           q.actor \in users, q.status = "none",
           q.pc = "fallback" => q.op \in FallbackRoutes,
           q.pc # "fallback" =>
              /\ q.pc = FirstStatement(q.op)
              /\ q.op # "createWorkspace" /\ q.pc # "todoRow"
                    => q.workspace \in Workspaces
              /\ q.pc = "todoRow" => q.id \in Todos,
           q.op \in {"createShare", "deleteShare"}
              => q.pc \notin {"authorize", "userExists", "effect"}
    PROVE  Inv'
<1>1. req' = [req EXCEPT ![r] = q] /\ UNCHANGED tables
  BY DEF Start
<1>2. q.op \in AllRoutes
  BY DEF Request
<1>3. Placed(q) /\ Grounded(q)
  BY <1>2 DEF Placed, Grounded, FirstStatement, AllRoutes, FallbackRoutes
<1>4. QED BY <1>1, <1>3, ReadingStep

\* What the arrivals hand to Start.
LEMMA CallFields ==
    ASSUME NEW op \in AllRoutes, NEW a \in Users,
           NEW w \in Workspaces \cup {NoWorkspace}
    PROVE  LET q == In(Call(op, a), w) IN
           /\ q \in Request
           /\ q.op = op /\ q.actor = a /\ q.workspace = w /\ q.id = NoTodo
           /\ q.status = "none"
           /\ q.pc = IF w = NoWorkspace THEN "fallback" ELSE FirstStatement(op)
<1>1. FirstStatement(op) \in Statements
  BY DEF FirstStatement, AllRoutes, Statements
<1>2. Idle \in Request
  BY DEF Idle, Request, AllRoutes
<1> DEFINE c == [Idle EXCEPT !.pc = FirstStatement(op), !.op = op, !.actor = a]
<1>3. c \in Request /\ c.op = op /\ c.actor = a /\ c.id = NoTodo
      /\ c.status = "none" /\ c.pc = FirstStatement(op)
  BY <1>1, <1>2 DEF Request, Idle
<1>4. Call(op, a) = c
  BY DEF Call
<1> HIDE DEF c
<1>5. "fallback" \in Statements
  BY DEF Statements
<1> DEFINE d == [c EXCEPT !.workspace = w,
                          !.pc = IF w = NoWorkspace THEN "fallback" ELSE c.pc]
<1>6. /\ d \in Request
      /\ d.op = op /\ d.actor = a /\ d.workspace = w /\ d.id = NoTodo
      /\ d.status = "none"
      /\ d.pc = IF w = NoWorkspace THEN "fallback" ELSE FirstStatement(op)
  <2> DEFINE pc == IF w = NoWorkspace THEN "fallback" ELSE c.pc
  <2>1. pc \in Statements /\ pc = IF w = NoWorkspace THEN "fallback" ELSE FirstStatement(op)
    BY <1>1, <1>3, <1>5
  <2>2. d = [c EXCEPT !.workspace = w, !.pc = pc]
    OBVIOUS
  <2> HIDE DEF pc, d
  <2> DEFINE e == [c EXCEPT !.workspace = w]
  <2>3. /\ e \in Request /\ e.op = c.op /\ e.actor = c.actor /\ e.workspace = w
        /\ e.id = c.id /\ e.status = c.status
    BY <1>3 DEF Request
  <2>4. d = [e EXCEPT !.pc = pc]
    BY <2>2
  <2> HIDE DEF e
  <2>5. /\ d \in Request /\ d.op = e.op /\ d.actor = e.actor /\ d.workspace = e.workspace
        /\ d.id = e.id /\ d.status = e.status /\ d.pc = pc
    BY <2>1, <2>3, <2>4 DEF Request
  <2>6. QED BY <1>3, <2>1, <2>3, <2>5
<1>7. In(Call(op, a), w) = d
  BY <1>4 DEF In
<1>8. QED BY <1>6, <1>7

LEMMA ArriveKeeps ==
    ASSUME Inv, NEW r \in Requests, Arrive(r)
    PROVE  Inv'
<1>1. PICK a \in users :
        \/ CreateWorkspace(r, a) \/ DeleteWorkspace(r, a)
        \/ List(r, a) \/ ChangeShare(r, a)
        \/ CreateTodo(r, a) \/ UpdateTodo(r, a) \/ DeleteTodo(r, a)
  BY DEF Arrive
<1>2. a \in Users
  BY <1>1 DEF Inv, TypeOK
<1>3. CASE CreateWorkspace(r, a)
  BY <1>1, <1>2, <1>3, StartKeeps
  DEF CreateWorkspace, Call, Idle, Request, FirstStatement, AllRoutes, Statements,
      Statuses, FallbackRoutes
<1>4. CASE DeleteWorkspace(r, a)
  <2>1. PICK w \in Workspaces : Start(r, [Call("deleteWorkspace", a) EXCEPT !.workspace = w])
    BY <1>4 DEF DeleteWorkspace
  <2>2. "deleteWorkspace" \in AllRoutes /\ FirstStatement("deleteWorkspace") = "lookup"
    BY DEF AllRoutes, FirstStatement
  <2> DEFINE q == In(Call("deleteWorkspace", a), w)
  <2>3. /\ q \in Request
        /\ q.op = "deleteWorkspace" /\ q.actor = a /\ q.workspace = w /\ q.status = "none"
        /\ q.pc = "lookup"
    BY <1>2, <2>2, CallFields, NullsAssumption
  <2>4. Start(r, q)
    <3>1. q = [Call("deleteWorkspace", a) EXCEPT !.workspace = w]
      BY NullsAssumption DEF In, Call, Idle
    <3>2. QED BY <2>1, <3>1
  <2> HIDE DEF q
  <2>5. QED BY <1>1, <2>2, <2>3, <2>4, StartKeeps
<1>5. CASE List(r, a)
  <2>1. PICK w \in Workspaces \cup {NoWorkspace}, op \in {"listShares", "listTodos"} :
           Start(r, In(Call(op, a), w))
    BY <1>5 DEF List
  <2>2. op \in AllRoutes /\ op \in FallbackRoutes /\ FirstStatement(op) = "authorize"
    BY DEF AllRoutes, FallbackRoutes, FirstStatement
  <2> DEFINE q == In(Call(op, a), w)
  <2>3. /\ q \in Request
        /\ q.op = op /\ q.actor = a /\ q.workspace = w /\ q.status = "none"
        /\ q.pc = IF w = NoWorkspace THEN "fallback" ELSE "authorize"
    BY <1>2, <2>2, CallFields
  <2>4. Start(r, q)
    BY <2>1
  <2> HIDE DEF q
  <2>5. QED BY <1>1, <2>2, <2>3, <2>4, StartKeeps
<1>6. CASE ChangeShare(r, a)
  <2>1. PICK w \in Workspaces \cup {NoWorkspace}, u \in Users \cup {NoUser},
             op \in {"createShare", "deleteShare"} :
           Start(r, [In(Call(op, a), w) EXCEPT !.target = u])
    BY <1>6 DEF ChangeShare
  <2>2. op \in AllRoutes /\ op \in FallbackRoutes /\ FirstStatement(op) = "lookup"
    BY DEF AllRoutes, FallbackRoutes, FirstStatement
  <2> DEFINE c == In(Call(op, a), w)
             q == [c EXCEPT !.target = u]
  <2>3. /\ c \in Request
        /\ c.op = op /\ c.actor = a /\ c.workspace = w /\ c.status = "none"
        /\ c.pc = IF w = NoWorkspace THEN "fallback" ELSE "lookup"
    BY <1>2, <2>2, CallFields
  <2> HIDE DEF c
  <2>4. /\ q \in Request
        /\ q.op = op /\ q.actor = a /\ q.workspace = w /\ q.status = "none"
        /\ q.pc = IF w = NoWorkspace THEN "fallback" ELSE "lookup"
    BY <2>3 DEF Request
  <2>5. Start(r, q)
    BY <2>1 DEF c
  <2> HIDE DEF q
  <2>6. QED BY <1>1, <2>2, <2>4, <2>5, StartKeeps
<1>7. CASE CreateTodo(r, a)
  <2>1. PICK w \in Workspaces \cup {NoWorkspace} :
           Start(r, In(Call("createTodo", a), w))
    BY <1>7 DEF CreateTodo
  <2>2. /\ "createTodo" \in AllRoutes /\ "createTodo" \in FallbackRoutes
        /\ FirstStatement("createTodo") = "authorize"
    BY DEF AllRoutes, FallbackRoutes, FirstStatement
  <2> DEFINE q == In(Call("createTodo", a), w)
  <2>3. /\ q \in Request
        /\ q.op = "createTodo" /\ q.actor = a /\ q.workspace = w /\ q.status = "none"
        /\ q.pc = IF w = NoWorkspace THEN "fallback" ELSE "authorize"
    BY <1>2, <2>2, CallFields
  <2>4. Start(r, q)
    BY <2>1
  <2> HIDE DEF q
  <2>5. QED BY <1>1, <2>2, <2>3, <2>4, StartKeeps
<1>8. CASE UpdateTodo(r, a)
  <2>1. PICK t \in Todos, b \in BOOLEAN :
           Start(r, [Call("updateTodo", a) EXCEPT !.id = t, !.completed = b])
    BY <1>8 DEF UpdateTodo
  <2> DEFINE c == Call("updateTodo", a)
             q == [c EXCEPT !.id = t, !.completed = b]
  <2>2. c \in Request /\ c.op = "updateTodo" /\ c.actor = a /\ c.status = "none"
           /\ c.pc = "todoRow"
    BY <1>2 DEF Call, Idle, Request, FirstStatement, AllRoutes, Statements
  <2>3. Start(r, q)
    BY <2>1
  <2> HIDE DEF c
  <2>4. q \in Request /\ q.op = "updateTodo" /\ q.actor = a /\ q.status = "none"
           /\ q.pc = "todoRow" /\ q.id = t
    BY <2>2 DEF Request
  <2> HIDE DEF q
  <2>5. QED BY <1>1, <2>3, <2>4, StartKeeps DEF FirstStatement
<1>9. CASE DeleteTodo(r, a)
  <2>1. PICK t \in Todos : Start(r, [Call("deleteTodo", a) EXCEPT !.id = t])
    BY <1>9 DEF DeleteTodo
  <2> DEFINE c == Call("deleteTodo", a)
             q == [c EXCEPT !.id = t]
  <2>2. c \in Request /\ c.op = "deleteTodo" /\ c.actor = a /\ c.status = "none"
           /\ c.pc = "todoRow"
    BY <1>2 DEF Call, Idle, Request, FirstStatement, AllRoutes, Statements
  <2>3. Start(r, q)
    BY <2>1
  <2> HIDE DEF c
  <2>4. q \in Request /\ q.op = "deleteTodo" /\ q.actor = a /\ q.status = "none"
           /\ q.pc = "todoRow" /\ q.id = t
    BY <2>2 DEF Request
  <2> HIDE DEF q
  <2>5. QED BY <1>1, <2>3, <2>4, StartKeeps DEF FirstStatement
<1>10. QED BY <1>1, <1>3, <1>4, <1>5, <1>6, <1>7, <1>8, <1>9

\* A statement that only moves its request on, remembering an owner or a
\* workspace it read.
LEMMA MoveKeeps ==
    ASSUME Inv, UNCHANGED tables, NEW r \in Requests,
           NEW pc \in Statements, NEW w \in Workspaces \cup {NoWorkspace},
           NEW o \in Users \cup {NoUser},
           req[r].pc \in Statements,
           req' = [req EXCEPT ![r] = [req[r] EXCEPT !.pc = pc, !.workspace = w,
                                                   !.seenOwner = o]],
           Placed([req[r] EXCEPT !.pc = pc, !.workspace = w, !.seenOwner = o]),
           Grounded([req[r] EXCEPT !.pc = pc, !.workspace = w, !.seenOwner = o])
    PROVE  Inv'
<1> DEFINE q == [req[r] EXCEPT !.pc = pc, !.workspace = w, !.seenOwner = o]
<1>1. req[r] \in Request /\ Grounded(req[r])
  BY DEF Inv, TypeOK
<1>2. q \in Request
  BY <1>1 DEF Request
<1>3. q.status # "ok"
  BY <1>1 DEF Request, Grounded, Statements
<1>4. req' = [req EXCEPT ![r] = q] /\ Placed(q) /\ Grounded(q)
  OBVIOUS
<1> HIDE DEF q
<1>5. QED BY <1>2, <1>3, <1>4, ReadingStep

LEMMA ReadKeeps ==
    ASSUME Inv, NEW r \in Requests, Read(r)
    PROVE  Inv'
<1> DEFINE q == req[r]
<1>1. q \in Request /\ Placed(q) /\ Grounded(q)
  BY DEF Inv, TypeOK
<1>2. req \in [Requests -> Request]
  BY DEF Inv, TypeOK
<1>3. \A s \in {"badRequest", "denied", "notFound", "error"} : s \in Statuses \ {"ok"}
  BY DEF Statuses
<1>4. SUFFICES ASSUME ~\E s \in {"badRequest", "denied", "notFound", "error"} :
                          Reject(r, s)
               PROVE  Inv'
  BY <1>3, RejectKeeps
<1> DEFINE Moved(pc, w, o) == [req[r] EXCEPT !.pc = pc, !.workspace = w, !.seenOwner = o]
<1>5. CASE Fallback(r)
  <2>1. PICK w \in FirstAccessible(q.actor) :
             /\ q.pc = "fallback"
             /\ req' = [req EXCEPT ![r].workspace = w, ![r].pc = FirstStatement(q.op)]
             /\ UNCHANGED tables
    BY <1>4, <1>5 DEF Fallback
  <2>2. w \in Workspaces
    BY <2>1 DEF FirstAccessible, OwnedBy, SharedWith
  <2>3. q.op \in FallbackRoutes /\ q.actor \in users
    BY <1>1, <2>1 DEF Placed, Statements
  <2>4. FirstStatement(q.op) \in {"lookup", "authorize"}
        /\ (q.op \in {"createShare", "deleteShare"} => FirstStatement(q.op) = "lookup")
        /\ (q.op \notin {"createWorkspace", "deleteWorkspace", "updateTodo", "deleteTodo"})
        /\ (q.op = "createTodo" => FirstStatement(q.op) = "authorize")
    BY <2>3 DEF FallbackRoutes, FirstStatement
  <2> DEFINE pc == FirstStatement(q.op)
             n == Moved(pc, w, q.seenOwner)
  <2>5. req' = [req EXCEPT ![r] = n]
    <3>1. n = [q EXCEPT !.workspace = w, !.pc = pc]
      BY <1>1 DEF Request
    <3>2. QED BY <1>2, <2>1, <3>1
  <2>6. n.pc = pc /\ n.workspace = w /\ n.op = q.op /\ n.actor = q.actor
        /\ n.status = q.status
    BY <1>1 DEF Request
  <2>7. q.status # "ok"
    BY <1>1, <2>1 DEF Grounded
  <2> HIDE DEF n, pc
  <2>8. Placed(n) /\ Grounded(n)
    BY <2>2, <2>3, <2>4, <2>6, <2>7 DEF Placed, Grounded, pc
  <2>9. pc \in Statements /\ q.pc \in Statements /\ q.seenOwner \in Users \cup {NoUser}
    BY <1>1, <2>1, <2>4 DEF Statements, Request, pc
  <2>10. QED BY <2>1, <2>2, <2>5, <2>8, <2>9, MoveKeeps DEF n
<1>6. CASE LookupForDelete(r)
  <2>1. /\ q.pc = "lookup" /\ q.op = "deleteWorkspace"
        /\ owner[q.workspace] = q.actor
        /\ req' = [req EXCEPT ![r].pc = "effect"]
        /\ UNCHANGED tables
    BY <1>4, <1>6 DEF LookupForDelete, Continue
  <2> DEFINE n == Moved("effect", q.workspace, q.seenOwner)
  <2>2. req' = [req EXCEPT ![r] = n]
    BY <1>1, <1>2, <2>1 DEF Request
  <2>3. n.pc = "effect" /\ n.workspace = q.workspace /\ n.op = q.op
        /\ n.actor = q.actor /\ n.status = q.status
    BY <1>1 DEF Request
  <2>4. q.actor \in users /\ q.workspace \in Workspaces /\ q.status # "ok"
    BY <1>1, <2>1 DEF Placed, Statements, Grounded
  <2>5. q.workspace \in born
    BY <2>1, <2>4 DEF Inv, RowsReferToRows, IsLive, TypeOK
  <2> HIDE DEF n
  <2>6. Placed(n) /\ Grounded(n)
    BY <2>1, <2>3, <2>4, <2>5 DEF Placed, Grounded
  <2>7. "effect" \in Statements /\ q.pc \in Statements
        /\ q.workspace \in Workspaces /\ q.seenOwner \in Users \cup {NoUser}
    BY <1>1, <2>1, <2>4 DEF Statements, Request
  <2>8. QED BY <2>1, <2>2, <2>6, <2>7, MoveKeeps DEF n
<1>7. CASE LookupForShare(r)
  <2>1. /\ q.pc = "lookup" /\ q.op = "createShare"
        /\ q.target # NoUser /\ IsLive(q.workspace) /\ owner[q.workspace] # q.target
        /\ req' = [req EXCEPT ![r].pc = "authorize"]
        /\ UNCHANGED tables
    BY <1>4, <1>7 DEF LookupForShare, Continue
  <2> DEFINE n == Moved("authorize", q.workspace, q.seenOwner)
  <2>2. req' = [req EXCEPT ![r] = n]
    BY <1>1, <1>2, <2>1 DEF Request
  <2>3. n.pc = "authorize" /\ n.workspace = q.workspace /\ n.op = q.op
        /\ n.actor = q.actor /\ n.status = q.status /\ n.target = q.target
    BY <1>1 DEF Request
  <2>4. q.actor \in users /\ q.workspace \in Workspaces /\ q.status # "ok"
        /\ q.target \in Users
    BY <1>1, <2>1 DEF Placed, Statements, Grounded, Request
  <2>5. q.workspace \in born
    BY <2>1, <2>4 DEF Inv, RowsReferToRows
  <2> HIDE DEF n
  <2>6. Placed(n) /\ Grounded(n)
    BY <2>1, <2>3, <2>4, <2>5 DEF Placed, Grounded
  <2>7. "authorize" \in Statements /\ q.pc \in Statements
        /\ q.workspace \in Workspaces /\ q.seenOwner \in Users \cup {NoUser}
    BY <1>1, <2>1, <2>4 DEF Statements, Request
  <2>8. QED BY <2>1, <2>2, <2>6, <2>7, MoveKeeps DEF n
<1>8. CASE LookupForUnshare(r)
  <2>1. /\ q.pc = "lookup" /\ q.op = "deleteShare" /\ q.target # NoUser
        /\ req' = [req EXCEPT ![r].pc = "authorize",
                              ![r].seenOwner = owner[q.workspace]]
        /\ UNCHANGED tables
    BY <1>4, <1>8 DEF LookupForUnshare
  <2> DEFINE n == Moved("authorize", q.workspace, owner[q.workspace])
  <2>2. req' = [req EXCEPT ![r] = n]
    <3>1. n = [q EXCEPT !.pc = "authorize", !.seenOwner = owner[q.workspace]]
      BY <1>1 DEF Request
    <3> HIDE DEF n
    <3>2. QED BY <1>2, <2>1, <3>1
  <2>3. n.pc = "authorize" /\ n.workspace = q.workspace /\ n.op = q.op
        /\ n.actor = q.actor /\ n.status = q.status /\ n.target = q.target
    BY <1>1 DEF Request
  <2>4. q.actor \in users /\ q.workspace \in Workspaces /\ q.status # "ok"
        /\ q.target \in Users
    BY <1>1, <2>1 DEF Placed, Statements, Grounded, Request
  <2> HIDE DEF n
  <2>5. Placed(n) /\ Grounded(n)
    BY <2>1, <2>3, <2>4 DEF Placed, Grounded
  <2>6. "authorize" \in Statements /\ q.pc \in Statements
        /\ q.workspace \in Workspaces /\ owner[q.workspace] \in Users \cup {NoUser}
    BY <2>1, <2>4 DEF Statements, Inv, TypeOK
  <2>7. QED BY <2>1, <2>2, <2>5, <2>6, MoveKeeps DEF n
<1>9. CASE LookupForTodo(r)
  <2>1. /\ q.pc = "lookup" /\ q.op = "createTodo" /\ IsLive(q.workspace)
        /\ req' = [req EXCEPT ![r].pc = "effect",
                              ![r].seenOwner = owner[q.workspace]]
        /\ UNCHANGED tables
    BY <1>4, <1>9 DEF LookupForTodo
  <2> DEFINE n == Moved("effect", q.workspace, owner[q.workspace])
  <2>2. req' = [req EXCEPT ![r] = n]
    <3>1. n = [q EXCEPT !.pc = "effect", !.seenOwner = owner[q.workspace]]
      BY <1>1 DEF Request
    <3>2. QED BY <1>1, <1>2, <2>1, <3>1
  <2>3. n.pc = "effect" /\ n.workspace = q.workspace /\ n.op = q.op
        /\ n.actor = q.actor /\ n.status = q.status /\ n.seenOwner = owner[q.workspace]
    BY <1>1 DEF Request
  <2>4. q.actor \in users /\ q.workspace \in Workspaces /\ q.status # "ok"
    BY <1>1, <2>1 DEF Placed, Statements, Grounded
  <2>5. q.workspace \in born /\ owner[q.workspace] \in Users
    BY <2>1, <2>4 DEF Inv, RowsReferToRows, TypeOK
  <2> HIDE DEF n
  <2>6. Placed(n) /\ Grounded(n)
    BY <2>1, <2>3, <2>4, <2>5 DEF Placed, Grounded
  <2>7. "effect" \in Statements /\ q.pc \in Statements
    BY <2>1 DEF Statements
  <2>8. QED BY <2>1, <2>2, <2>4, <2>5, <2>6, <2>7, MoveKeeps DEF n
<1>10. CASE TodoWorkspace(r)
  <2>1. /\ q.pc = "todoRow" /\ todo[q.id] # NoTodo
        /\ req' = [req EXCEPT ![r].pc = "authorize",
                              ![r].workspace = todo[q.id].workspace]
        /\ UNCHANGED tables
    BY <1>4, <1>10 DEF TodoWorkspace
  <2>2. q.actor \in users /\ q.status # "ok" /\ q.id \in Todos
        /\ q.op \in {"updateTodo", "deleteTodo"}
    BY <1>1, <2>1 DEF Placed, Statements, Grounded
  <2>3. todo[q.id].workspace \in Workspaces /\ q.id \in born
    BY <2>1, <2>2 DEF Inv, TypeOK, TodoRow, RowsReferToRows
  <2> DEFINE w == todo[q.id].workspace
             n == Moved("authorize", w, q.seenOwner)
  <2>4. req' = [req EXCEPT ![r] = n]
    <3>1. n = [req[r] EXCEPT !.pc = "authorize", !.workspace = w]
      BY <1>1 DEF Request
    <3>2. req' = [req EXCEPT ![r] = [req[r] EXCEPT !.pc = "authorize", !.workspace = w]]
      BY <1>1, <1>2, <2>1
    <3>3. QED BY <3>1, <3>2
  <2>5. n.pc = "authorize" /\ n.workspace = w /\ n.op = q.op
        /\ n.actor = q.actor /\ n.status = q.status /\ n.id = q.id
    BY <1>1 DEF Request
  <2> HIDE DEF n
  <2>6. Placed(n) /\ Grounded(n)
    BY <2>1, <2>2, <2>3, <2>5 DEF Placed, Grounded
  <2>7. "authorize" \in Statements /\ q.pc \in Statements
        /\ q.seenOwner \in Users \cup {NoUser}
    BY <1>1, <2>1 DEF Statements, Request
  <2>8. QED BY <2>1, <2>3, <2>4, <2>6, <2>7, MoveKeeps DEF n
<1>11. CASE AuthorizeWorkspace(r)
  <2>1. /\ q.pc = "authorize" /\ HasAccess(q.actor, q.workspace)
        /\ req' = [req EXCEPT ![r].pc = AfterAuthorize(q.op)]
        /\ UNCHANGED tables
    BY <1>4, <1>11 DEF AuthorizeWorkspace, Continue
  <2>2. q.actor \in users /\ q.workspace \in Workspaces /\ q.status # "ok"
        /\ q.op \notin {"createWorkspace", "deleteWorkspace"}
    BY <1>1, <2>1 DEF Placed, Statements, Grounded
  <2> DEFINE pc == AfterAuthorize(q.op)
             n == Moved(pc, q.workspace, q.seenOwner)
  <2>3. req' = [req EXCEPT ![r] = n]
    BY <1>1, <1>2, <2>1 DEF Request
  <2>4. n.pc = pc /\ n.workspace = q.workspace /\ n.op = q.op
        /\ n.actor = q.actor /\ n.status = q.status /\ n.id = q.id
        /\ n.target = q.target
    BY <1>1 DEF Request
  <2>5. /\ pc \in {"userExists", "lookup", "effect"}
        /\ q.op = "createShare" <=> pc = "userExists"
        /\ q.op = "createTodo" <=> pc = "lookup"
    BY DEF AfterAuthorize
  <2> HIDE DEF n, pc
  <2>6. Placed(n) /\ Grounded(n)
    BY <1>1, <2>1, <2>2, <2>4, <2>5 DEF Placed, Grounded
  <2>7. pc \in Statements /\ q.pc \in Statements
        /\ q.seenOwner \in Users \cup {NoUser}
    BY <1>1, <2>1, <2>5 DEF Statements, Request
  <2>8. QED BY <2>1, <2>2, <2>3, <2>6, <2>7, MoveKeeps DEF n
<1>12. CASE UserExists(r)
  <2>1. /\ q.pc = "userExists"
        /\ (IF q.op = "createShare" THEN q.target ELSE q.actor) \in users
        /\ req' = [req EXCEPT ![r].pc = "effect"]
        /\ UNCHANGED tables
    BY <1>4, <1>12 DEF UserExists, Continue
  <2>2. q.actor \in users /\ q.status # "ok"
        /\ q.op \in {"createWorkspace", "createShare"}
        /\ (q.op = "createShare" => q.workspace \in Workspaces)
    BY <1>1, <2>1 DEF Placed, Statements, Grounded
  <2> DEFINE n == Moved("effect", q.workspace, q.seenOwner)
  <2>3. req' = [req EXCEPT ![r] = n]
    BY <1>1, <1>2, <2>1 DEF Request
  <2>4. n.pc = "effect" /\ n.workspace = q.workspace /\ n.op = q.op
        /\ n.actor = q.actor /\ n.status = q.status /\ n.target = q.target
    BY <1>1 DEF Request
  <2> HIDE DEF n
  <2>5. Placed(n) /\ Grounded(n)
    BY <1>1, <2>1, <2>2, <2>4 DEF Placed, Grounded
  <2>6. "effect" \in Statements /\ q.pc \in Statements
        /\ q.workspace \in Workspaces \cup {NoWorkspace}
        /\ q.seenOwner \in Users \cup {NoUser}
    BY <1>1, <2>1 DEF Statements, Request
  <2>7. QED BY <2>1, <2>3, <2>5, <2>6, MoveKeeps DEF n
<1>13. QED
  BY <1>5, <1>6, <1>7, <1>8, <1>9, <1>10, <1>11, <1>12 DEF Read

-----------------------------------------------------------------------------
(* Final statements *)

\* A request is sound once it is answered, if a deletion it reports is of a
\* generated id.
LEMMA AnsweredIsSound ==
    ASSUME NEW r \in Requests, req'[r].pc = "done",
           req'[r].op = "deleteWorkspace" => req'[r].workspace \in Workspaces \cap born',
           req'[r].op = "deleteTodo" => req'[r].id \in Todos \cap born'
    PROVE  (Placed(req[r]) /\ Grounded(req[r]))'
BY DEF Placed, Grounded, Statements

\* What Answer leaves of a request.
LEMMA AnswerFields ==
    ASSUME Inv, NEW r \in Requests, NEW rows \in SUBSET (Users \cup Todos),
           Answer(r, "ok", rows)
    PROVE  /\ req' \in [Requests -> Request]
           /\ \A s \in Requests \ {r} : req'[s] = req[s]
           /\ req'[r].pc = "done" /\ req'[r].op = req[r].op
           /\ req'[r].workspace = req[r].workspace /\ req'[r].id = req[r].id
           /\ req'[r].rows = rows
<1> DEFINE q == [req[r] EXCEPT !.pc = "done", !.status = "ok", !.rows = rows]
<1>1. req \in [Requests -> Request]
  BY DEF Inv, TypeOK
<1>2. req' = [req EXCEPT ![r] = q]
  BY <1>1 DEF Answer
<1>3. "ok" \in Statuses
  BY DEF Statuses
<1>4. /\ q \in Request /\ q.pc = "done" /\ q.op = req[r].op /\ q.rows = rows
      /\ q.workspace = req[r].workspace /\ q.id = req[r].id
  <2> DEFINE old == req[r]
  <2>1. old \in Request /\ q = [old EXCEPT !.pc = "done", !.status = "ok", !.rows = rows]
    BY <1>1
  <2> HIDE DEF q, old
  <2>2. /\ q \in Request /\ q.pc = "done" /\ q.op = old.op /\ q.rows = rows
        /\ q.workspace = old.workspace /\ q.id = old.id
    BY <1>3, <2>1 DEF Request
  <2>3. QED BY <2>2 DEF old
<1> HIDE DEF q
<1>5. QED BY <1>1, <1>2, <1>4

LEMMA SelectKeeps ==
    ASSUME Inv, NEW r \in Requests, SelectShares(r) \/ SelectTodos(r)
    PROVE  Inv'
<1>1. PICK rows \in SUBSET (Users \cup Todos) :
         Answer(r, "ok", rows) /\ UNCHANGED tables
               /\ req[r].pc = "effect" /\ req[r].op \in {"listShares", "listTodos"}
  <2>1. CASE SelectShares(r)
    <3>1. req[r].workspace \in Workspaces
      BY <2>1 DEF SelectShares, Inv, Placed
    <3>2. members[req[r].workspace] \in SUBSET (Users \cup Todos)
      BY <3>1 DEF Inv, TypeOK
    <3>3. QED BY <2>1, <3>2 DEF SelectShares
  <2>2. CASE SelectTodos(r)
    <3>1. TodosOf(req[r].workspace) \in SUBSET (Users \cup Todos)
      BY DEF TodosOf
    <3>2. QED BY <2>2, <3>1 DEF SelectTodos
  <2>3. QED BY <2>1, <2>2
<1>2. /\ req' \in [Requests -> Request]
      /\ \A s \in Requests \ {r} : req'[s] = req[s]
      /\ req'[r].pc = "done" /\ req'[r].op = req[r].op
  BY <1>1, AnswerFields
<1>3. TypeOK'
  BY <1>1, <1>2 DEF Inv, TypeOK, tables
<1>4. (RowsReferToRows /\ OwnerNotMember /\ TodosBelong)' /\ Stable
  BY <1>1 DEF Inv, RowsReferToRows, OwnerNotMember, TodosBelong, IsLive, tables, Stable
<1>5. (Placed(req[r]) /\ Grounded(req[r]))'
  BY <1>1, <1>2, AnsweredIsSound
<1>6. QED BY <1>1, <1>2, <1>3, <1>4, <1>5, RequestStep DEF Deleted

LEMMA InsertWorkspaceKeeps ==
    ASSUME Inv, NEW r \in Requests, InsertWorkspace(r)
    PROVE  Inv'
<1>1. PICK w \in Workspaces \ born :
        /\ req[r].pc = "effect" /\ req[r].op = "createWorkspace"
        /\ owner' = [owner EXCEPT ![w] = req[r].actor]
        /\ born' = born \cup {w}
        /\ req' = [req EXCEPT ![r].pc = "done", ![r].status = "ok", ![r].workspace = w]
        /\ UNCHANGED <<users, members, todo>>
  BY DEF InsertWorkspace
<1> DEFINE q == [req[r] EXCEPT !.pc = "done", !.status = "ok", !.workspace = w]
<1>2. req[r] \in Request /\ req \in [Requests -> Request] /\ "ok" \in Statuses
  BY DEF Inv, TypeOK, Statuses
<1>3. q \in Request /\ q.pc = "done" /\ q.op = "createWorkspace"
  BY <1>1, <1>2 DEF Request
<1>4. req' = [req EXCEPT ![r] = q]
  BY <1>1, <1>2
<1> HIDE DEF q
<1>5. /\ req' \in [Requests -> Request]
      /\ \A s \in Requests \ {r} : req'[s] = req[s]
      /\ req'[r].pc = "done" /\ req'[r].op = "createWorkspace"
  BY <1>2, <1>3, <1>4
<1>6. req[r].actor \in users /\ req[r].actor \in Users
  BY <1>1 DEF Inv, TypeOK, Placed, Statements
<1>7. owner[w] = NoUser /\ members[w] = {}
  BY <1>1 DEF Inv, RowsReferToRows, IsLive
<1>8. TypeOK'
  BY <1>1, <1>5, <1>6 DEF Inv, TypeOK
<1>9. (RowsReferToRows /\ OwnerNotMember)'
  BY <1>1, <1>6, <1>7 DEF Inv, TypeOK, RowsReferToRows, OwnerNotMember, IsLive
<1>10. TodosBelong'
  BY <1>1, <1>7 DEF Inv, TypeOK, TodosBelong, IsLive
<1>11. Stable
  BY <1>1 DEF Stable, Inv, TypeOK
<1>12. (Placed(req[r]) /\ Grounded(req[r]))'
  BY <1>5, AnsweredIsSound
<1>13. QED BY <1>5, <1>8, <1>9, <1>10, <1>11, <1>12, RequestStep DEF Deleted

LEMMA RemoveWorkspaceKeeps ==
    ASSUME Inv, NEW r \in Requests, RemoveWorkspace(r)
    PROVE  Inv'
<1> DEFINE w == req[r].workspace
<1>1. CASE Reject(r, "notFound")
  BY <1>1, RejectKeeps DEF Statuses
<1>2. CASE /\ req[r].pc = "effect" /\ req[r].op = "deleteWorkspace"
           /\ IsLive(w) /\ Answer(r, "ok", {}) /\ CascadeDelete(w)
  <2>1. /\ req' \in [Requests -> Request]
        /\ \A s \in Requests \ {r} : req'[s] = req[s]
        /\ req'[r].pc = "done" /\ req'[r].op = "deleteWorkspace"
        /\ req'[r].workspace = w
    BY <1>2, AnswerFields
  <2>2. w \in Workspaces /\ w \in born /\ owner[w] # NoUser
    BY <1>2 DEF Inv, Placed, Grounded, IsLive
  <2>3. /\ owner' = [owner EXCEPT ![w] = NoUser]
        /\ members' = [members EXCEPT ![w] = {}]
        /\ todo' = [t \in Todos |-> IF t \in TodosOf(w) THEN NoTodo ELSE todo[t]]
        /\ users' = users /\ born' = born
    BY <1>2 DEF CascadeDelete
  <2>4. TypeOK'
    BY <2>1, <2>2, <2>3 DEF Inv, TypeOK
  <2>5. (RowsReferToRows /\ OwnerNotMember)'
    BY <2>2, <2>3 DEF Inv, TypeOK, RowsReferToRows, OwnerNotMember, IsLive
  <2>6. TodosBelong'
    BY <2>2, <2>3 DEF Inv, TypeOK, TodosBelong, IsLive, TodosOf
  <2>7. Stable
    BY <2>2, <2>3 DEF Stable, Inv, TypeOK
  <2>8. (Placed(req[r]) /\ Grounded(req[r]))'
    BY <2>1, <2>2, <2>3, AnsweredIsSound
  <2>9. owner'[w] = NoUser
    BY <2>2, <2>3 DEF Inv, TypeOK
  <2>10. QED
    BY <2>1, <2>2, <2>4, <2>5, <2>6, <2>7, <2>8, <2>9, RequestStep
<1>3. QED BY <1>1, <1>2 DEF RemoveWorkspace

LEMMA ShareKeeps ==
    ASSUME Inv, NEW r \in Requests, InsertShare(r) \/ RemoveShare(r)
    PROVE  Inv'
<1> DEFINE w == req[r].workspace
<1>1. CASE Reject(r, "error")
  BY <1>1, RejectKeeps DEF Statuses
<1>2. CASE \E m \in SUBSET users :
              /\ req[r].pc = "effect" /\ req[r].op \in {"createShare", "deleteShare"}
              /\ Answer(r, "ok", {})
              /\ w \in Workspaces
              /\ owner[w] \notin m /\ (owner[w] = NoUser => m = {})
              /\ members' = [members EXCEPT ![w] = m]
              /\ UNCHANGED <<users, owner, todo, born>>
  <2>1. /\ req' \in [Requests -> Request]
        /\ \A s \in Requests \ {r} : req'[s] = req[s]
        /\ req'[r].pc = "done" /\ req'[r].op \in {"createShare", "deleteShare"}
    BY <1>2, AnswerFields
  <2>2. TypeOK'
    BY <1>2, <2>1 DEF Inv, TypeOK
  <2>3. (RowsReferToRows /\ OwnerNotMember /\ TodosBelong)'
    BY <1>2 DEF Inv, TypeOK, RowsReferToRows, OwnerNotMember, TodosBelong, IsLive
  <2>4. Stable
    BY <1>2 DEF Stable
  <2>5. (Placed(req[r]) /\ Grounded(req[r]))'
    BY <2>1, AnsweredIsSound
  <2>6. QED BY <2>1, <2>2, <2>3, <2>4, <2>5, RequestStep DEF Deleted
<1>3. CASE RemoveShare(r)
  <2> DEFINE m == members[w] \ {req[r].target}
  <2>1. w \in Workspaces
    BY <1>3 DEF RemoveShare, Inv, Placed
  <2>2. m \in SUBSET users /\ owner[w] \notin m /\ (owner[w] = NoUser => m = {})
    BY <2>1 DEF Inv, RowsReferToRows, OwnerNotMember, IsLive
  <2>3. members' = [members EXCEPT ![w] = m]
    BY <1>3 DEF RemoveShare
  <2>4. QED BY <1>2, <1>3, <2>1, <2>2, <2>3 DEF RemoveShare
<1>4. CASE InsertShare(r)
  <2> DEFINE m == members[w] \cup {req[r].target}
  <2>1. CASE IsLive(w)
    <3>1. w \in Workspaces /\ req[r].target \in users /\ owner[w] # req[r].target
      BY <1>4 DEF InsertShare, Inv, Placed, Grounded
    <3>2. m \in SUBSET users /\ owner[w] \notin m /\ owner[w] # NoUser
      BY <2>1, <3>1 DEF Inv, RowsReferToRows, OwnerNotMember, IsLive
    <3>3. members' = [members EXCEPT ![w] = m]
      BY <1>4, <2>1 DEF InsertShare, Reject, Answer
    <3>4. QED BY <1>2, <1>4, <2>1, <3>1, <3>2, <3>3 DEF InsertShare
  <2>2. CASE ~IsLive(w)
    BY <1>1, <1>4, <2>2 DEF InsertShare
  <2>3. QED BY <2>1, <2>2
<1>5. QED BY <1>3, <1>4

LEMMA InsertTodoKeeps ==
    ASSUME Inv, NEW r \in Requests, InsertTodo(r)
    PROVE  Inv'
<1> DEFINE w == req[r].workspace
<1>1. CASE Reject(r, "error")
  BY <1>1, RejectKeeps DEF Statuses
<1>2. CASE req[r].pc = "effect" /\ req[r].op = "createTodo" /\ IsLive(w) /\ PutTodo(r)
  <2>1. PICK t \in Todos \ born :
          /\ todo' = [todo EXCEPT ![t] = NewTodo(req[r])]
          /\ born' = born \cup {t}
          /\ req' = [req EXCEPT ![r].pc = "done", ![r].status = "ok", ![r].id = t]
          /\ UNCHANGED <<users, owner, members>>
    BY <1>2 DEF PutTodo
  <2> DEFINE q == [req[r] EXCEPT !.pc = "done", !.status = "ok", !.id = t]
  <2>2. req[r] \in Request /\ req \in [Requests -> Request] /\ "ok" \in Statuses
    BY DEF Inv, TypeOK, Statuses
  <2>3. q \in Request /\ q.pc = "done" /\ q.op = "createTodo"
    BY <1>2, <2>1, <2>2 DEF Request
  <2>4. req' = [req EXCEPT ![r] = q]
    BY <2>1, <2>2
  <2> HIDE DEF q
  <2>5. /\ req' \in [Requests -> Request]
        /\ \A s \in Requests \ {r} : req'[s] = req[s]
        /\ req'[r].pc = "done" /\ req'[r].op = "createTodo"
    BY <2>2, <2>3, <2>4
  <2>6. /\ w \in Workspaces \cap born /\ req[r].actor \in users
        /\ owner[w] = req[r].seenOwner /\ owner[w] # NoUser
    BY <1>2 DEF Inv, Placed, Grounded, IsLive, Statements
  <2>7. NewTodo(req[r]) \in TodoRow /\ NewTodo(req[r]).workspace = w
        /\ NewTodo(req[r]).author \in users
        /\ NewTodo(req[r]).workspaceOwner = owner[w]
    BY <2>6 DEF NewTodo, TodoRow, Inv, TypeOK
  <2>8. TypeOK'
    BY <2>1, <2>5, <2>7 DEF Inv, TypeOK
  <2>9. (RowsReferToRows /\ OwnerNotMember)'
    BY <2>1 DEF Inv, TypeOK, RowsReferToRows, OwnerNotMember, IsLive
  <2>10. TodosBelong'
    BY <2>1, <2>6, <2>7 DEF Inv, TypeOK, TodosBelong, IsLive
  <2>11. Stable
    BY <2>1 DEF Stable, Inv, TypeOK
  <2>12. (Placed(req[r]) /\ Grounded(req[r]))'
    BY <2>5, AnsweredIsSound
  <2>13. QED BY <2>5, <2>8, <2>9, <2>10, <2>11, <2>12, RequestStep DEF Deleted
<1>3. QED BY <1>1, <1>2 DEF InsertTodo

LEMMA ChangeTodoKeeps ==
    ASSUME Inv, NEW r \in Requests, ChangeTodo(r)
    PROVE  Inv'
<1> DEFINE t == req[r].id
           row == [todo[t] EXCEPT !.completed = req[r].completed]
<1>1. CASE Reject(r, "notFound")
  BY <1>1, RejectKeeps DEF Statuses
<1>2. CASE /\ req[r].pc = "effect" /\ req[r].op = "updateTodo"
           /\ todo[t] # NoTodo /\ Answer(r, "ok", {})
           /\ todo' = [todo EXCEPT ![t] = row]
           /\ UNCHANGED <<users, owner, members, born>>
  <2>1. /\ req' \in [Requests -> Request]
        /\ \A s \in Requests \ {r} : req'[s] = req[s]
        /\ req'[r].pc = "done" /\ req'[r].op = "updateTodo"
    BY <1>2, AnswerFields
  <2>2. t \in Todos /\ req[r].completed \in BOOLEAN
    BY <1>2 DEF Inv, TypeOK, Grounded, Request
  <2>3. todo[t] \in TodoRow
    BY <1>2, <2>2 DEF Inv, TypeOK
  <2>4. row \in TodoRow /\ row.workspace = todo[t].workspace
        /\ row.author = todo[t].author /\ row.workspaceOwner = todo[t].workspaceOwner
    BY <2>2, <2>3 DEF TodoRow
  <2> HIDE DEF row
  <2>5. TypeOK'
    BY <1>2, <2>1, <2>4 DEF Inv, TypeOK
  <2>6. (RowsReferToRows /\ OwnerNotMember)'
    BY <1>2 DEF Inv, TypeOK, RowsReferToRows, OwnerNotMember, IsLive
  <2>7. TodosBelong'
    BY <1>2, <2>4 DEF Inv, TypeOK, TodosBelong, IsLive
  <2>8. Stable
    BY <1>2, <2>4 DEF Stable, Inv, TypeOK
  <2>9. (Placed(req[r]) /\ Grounded(req[r]))'
    BY <2>1, AnsweredIsSound
  <2>10. QED BY <2>1, <2>5, <2>6, <2>7, <2>8, <2>9, RequestStep DEF Deleted
<1>3. QED BY <1>1, <1>2 DEF ChangeTodo

LEMMA RemoveTodoKeeps ==
    ASSUME Inv, NEW r \in Requests, RemoveTodo(r)
    PROVE  Inv'
<1> DEFINE t == req[r].id
<1>1. CASE Reject(r, "notFound")
  BY <1>1, RejectKeeps DEF Statuses
<1>2. CASE /\ req[r].pc = "effect" /\ req[r].op = "deleteTodo"
           /\ todo[t] # NoTodo /\ Answer(r, "ok", {})
           /\ todo' = [todo EXCEPT ![t] = NoTodo]
           /\ UNCHANGED <<users, owner, members, born>>
  <2>1. /\ req' \in [Requests -> Request]
        /\ \A s \in Requests \ {r} : req'[s] = req[s]
        /\ req'[r].pc = "done" /\ req'[r].op = "deleteTodo" /\ req'[r].id = t
    BY <1>2, AnswerFields
  <2>2. t \in Todos \cap born
    BY <1>2 DEF Inv, Grounded
  <2>3. TypeOK'
    BY <1>2, <2>1 DEF Inv, TypeOK
  <2>4. (RowsReferToRows /\ OwnerNotMember /\ TodosBelong)'
    BY <1>2 DEF Inv, TypeOK, RowsReferToRows, OwnerNotMember, TodosBelong, IsLive
  <2>5. Stable
    BY <1>2 DEF Stable, Inv, TypeOK
  <2>6. (Placed(req[r]) /\ Grounded(req[r]))'
    BY <1>2, <2>1, <2>2, AnsweredIsSound
  <2>7. todo'[t] = NoTodo
    BY <1>2, <2>2 DEF Inv, TypeOK
  <2>8. QED BY <1>2, <2>1, <2>3, <2>4, <2>5, <2>6, <2>7, RequestStep
<1>3. QED BY <1>1, <1>2 DEF RemoveTodo

LEMMA InterruptKeeps ==
    ASSUME Inv, NEW r \in Requests, Interrupt(r)
    PROVE  Inv'
<1> DEFINE q == [Idle EXCEPT !.pc = "done", !.status = "error"]
<1>1. q \in Request /\ q.pc = "done" /\ q.status = "error"
  BY DEF Idle, Request, AllRoutes, Statuses
<1>2. req' = [req EXCEPT ![r] = q] /\ UNCHANGED tables
  BY DEF Interrupt
<1> HIDE DEF q
<1>3. Placed(q) /\ Grounded(q)
  BY <1>1 DEF Placed, Grounded, Statements
<1>4. QED BY <1>1, <1>2, <1>3, ReadingStep

LEMMA ProvisionKeeps ==
    ASSUME Inv, NEW u \in Users, ProvisionUser(u)
    PROVE  Inv'
<1>1. PICK w \in Workspaces \ born :
        /\ users' = users \cup {u}
        /\ owner' = [owner EXCEPT ![w] = u] /\ born' = born \cup {w}
        /\ UNCHANGED <<members, todo, req>>
  BY DEF ProvisionUser
<1>2. owner[w] = NoUser /\ members[w] = {}
  BY <1>1 DEF Inv, RowsReferToRows, IsLive
<1>3. TypeOK'
  BY <1>1 DEF Inv, TypeOK
<1>4. (RowsReferToRows /\ OwnerNotMember)'
  BY <1>1, <1>2 DEF Inv, TypeOK, RowsReferToRows, OwnerNotMember, IsLive
<1>5. TodosBelong'
  BY <1>1, <1>2 DEF Inv, TypeOK, TodosBelong, IsLive
<1>6. Stable
  BY <1>1 DEF Stable, Inv, TypeOK
<1>7. \A s \in Requests : (Placed(req[s]) /\ Grounded(req[s]))'
  BY <1>1, <1>6, OthersKept
<1>8. DeletionsFinal'
  <2> SUFFICES ASSUME NEW a \in Requests, Deleted(a)'
               PROVE  (/\ \A s \in Requests \ {a} : Deleted(s) /\ req[s].op = req[a].op
                                        => Removed(req[s]) # Removed(req[a])
                       /\ req[a].op = "deleteTodo" => todo[req[a].id] = NoTodo
                       /\ req[a].op = "deleteWorkspace" =>
                             /\ ~IsLive(req[a].workspace)
                             /\ members[req[a].workspace] = {}
                             /\ TodosOf(req[a].workspace) = {})'
    BY DEF DeletionsFinal
  <2>1. Deleted(a)
    BY <1>1 DEF Deleted
  <2>2. (\A s \in Requests \ {a} : Deleted(s) /\ req[s].op = req[a].op
                                       => Removed(req[s]) # Removed(req[a]))'
    BY <1>1, <2>1 DEF Inv, DeletionsFinal, Deleted, Removed
  <2>3. QED BY <1>1, <1>3, <1>4, <1>5, <1>6, <2>1, <2>2, DeletionKept
<1>9. QED BY <1>3, <1>4, <1>5, <1>7, <1>8 DEF Inv

-----------------------------------------------------------------------------
LEMMA StutterKeeps == Inv /\ UNCHANGED vars => Inv'
<1> SUFFICES ASSUME Inv, UNCHANGED vars PROVE Inv'
  OBVIOUS
<1>1. TypeOK'
  BY DEF Inv, TypeOK, vars
<1>2. (RowsReferToRows /\ OwnerNotMember)'
  BY DEF Inv, RowsReferToRows, OwnerNotMember, IsLive, vars
<1>3. TodosBelong'
  BY DEF Inv, TodosBelong, IsLive, vars
<1>4. DeletionsFinal'
  BY DEF Inv, DeletionsFinal, Deleted, Removed, IsLive, TodosOf, vars
<1>5. ASSUME NEW r \in Requests PROVE (Placed(req[r]) /\ Grounded(req[r]))'
  <2>1. Placed(req[r])'
    BY DEF Inv, Placed, vars
  <2>2. Grounded(req[r])'
    BY DEF Inv, Grounded, vars
  <2>3. QED BY <2>1, <2>2
<1>6. QED BY <1>1, <1>2, <1>3, <1>4, <1>5 DEF Inv

LEMMA NextKeeps == Inv /\ [Next]_vars => Inv'
<1> SUFFICES ASSUME Inv, [Next]_vars PROVE Inv'
  OBVIOUS
<1>1. ASSUME NEW u \in Users, ProvisionUser(u) PROVE Inv'
  BY <1>1, ProvisionKeeps
<1>2. ASSUME NEW r \in Requests, Arrive(r) PROVE Inv'
  BY <1>2, ArriveKeeps
<1>3. ASSUME NEW r \in Requests, Read(r) PROVE Inv'
  BY <1>3, ReadKeeps
<1>4. ASSUME NEW r \in Requests, Effect(r) PROVE Inv'
  BY <1>4, InsertWorkspaceKeeps, RemoveWorkspaceKeeps, SelectKeeps, ShareKeeps,
     InsertTodoKeeps, ChangeTodoKeeps, RemoveTodoKeeps DEF Effect
<1>5. ASSUME NEW r \in Requests, Interrupt(r) PROVE Inv'
  BY <1>5, InterruptKeeps
<1>6. QED BY <1>1, <1>2, <1>3, <1>4, <1>5, StutterKeeps DEF Next

LEMMA InitHolds == Init => Inv
<1> SUFFICES ASSUME Init PROVE Inv
  OBVIOUS
<1>1. Idle \in Request /\ Idle.pc = "idle" /\ Idle.status = "none"
  BY DEF Idle, Request, AllRoutes
<1>2. TypeOK /\ \A r \in Requests : req[r] = Idle
  BY <1>1 DEF Init, TypeOK
<1>3. \A r \in Requests : Placed(req[r]) /\ Grounded(req[r])
  BY <1>1, <1>2 DEF Placed, Grounded, Statements
<1>4. DeletionsFinal
  BY <1>1, <1>2 DEF DeletionsFinal, Deleted
<1>5. RowsReferToRows /\ OwnerNotMember /\ TodosBelong
  BY DEF Init, RowsReferToRows, OwnerNotMember, TodosBelong, IsLive
<1>6. QED BY <1>2, <1>3, <1>4, <1>5 DEF Inv

\* The inductive invariant: what every request under way has read is still
\* true or gone for good, whatever the other requests did in between.
THEOREM Invariance == Spec => []Inv
BY InitHolds, NextKeeps, PTL DEF Spec

\* Every variable keeps its type, so no handler acts on a missing row.
THEOREM TypeCorrect == Spec => []TypeOK
<1>1. Inv => TypeOK
  BY DEF Inv
<1>2. QED BY <1>1, Invariance, PTL

\* No interleaving of share requests, however old the owner they compared their
\* target with, makes a workspace's owner its collaborator.
THEOREM OwnerStaysOut == Spec => []OwnerNotMember
<1>1. Inv => OwnerNotMember
  BY DEF Inv
<1>2. QED BY <1>1, Invariance, PTL

\* Todos created while their workspace is being deleted neither survive it nor
\* carry an owner other than the workspace's.
THEOREM TodosStayInPlace == Spec => []TodosBelong
<1>1. Inv => TodosBelong
  BY DEF Inv
<1>2. QED BY <1>1, Invariance, PTL

\* Of any number of requests racing to delete one row a single one is answered
\* that it did, and nothing brings the row back.
THEOREM DeletionsStayFinal == Spec => []DeletionsFinal
<1>1. Inv => DeletionsFinal
  BY DEF Inv
<1>2. QED BY <1>1, Invariance, PTL

-----------------------------------------------------------------------------
(* The contract *)

HIDE RoutesAssumption

\* What the contract sees of a step that gives one request a new record.
LEMMA Mapped ==
    ASSUME Inv, NEW r \in Requests, NEW q \in Request, req' = [req EXCEPT ![r] = q]
    PROVE  /\ callers' = [callers EXCEPT ![r] = CallerOf(q)]
           /\ permits' = [permits EXCEPT ![r] = PermitOf(q)]
           /\ shows' = [shows EXCEPT ![r] = ShownBy(q)]
           /\ callers[r] = CallerOf(req[r])
           /\ permits[r] = PermitOf(req[r])
           /\ shows[r] = ShownBy(req[r])
<1>1. req \in [Requests -> Request]
  BY DEF Inv, TypeOK
<1>2. \A s \in Requests : req'[s] = IF s = r THEN q ELSE req[s]
  BY <1>1
<1>3. callers' = [callers EXCEPT ![r] = CallerOf(q)]
  <2>1. callers' = [s \in Requests |-> CallerOf(req'[s])]
    BY DEF callers, CallerOf
  <2>2. \A s \in Requests : callers'[s] = IF s = r THEN CallerOf(q) ELSE callers[s]
    BY <1>2, <2>1 DEF callers
  <2>3. callers' = [s \in Requests |-> callers'[s]] /\ callers = [s \in Requests |-> callers[s]]
    BY <2>1 DEF callers
  <2> HIDE DEF callers
  <2>4. QED BY <2>2, <2>3
<1>4. permits' = [permits EXCEPT ![r] = PermitOf(q)]
  <2>1. permits' = [s \in Requests |-> PermitOf(req'[s])]
    BY DEF permits, PermitOf, Authorized
  <2>2. \A s \in Requests : permits'[s] = IF s = r THEN PermitOf(q) ELSE permits[s]
    BY <1>2, <2>1 DEF permits
  <2>3. permits' = [s \in Requests |-> permits'[s]] /\ permits = [s \in Requests |-> permits[s]]
    BY <2>1 DEF permits
  <2> HIDE DEF permits
  <2>4. QED BY <2>2, <2>3
<1>5. shows' = [shows EXCEPT ![r] = ShownBy(q)]
  <2>1. shows' = [s \in Requests |-> ShownBy(req'[s])]
    BY DEF shows, ShownBy
  <2>2. \A s \in Requests : shows'[s] = IF s = r THEN ShownBy(q) ELSE shows[s]
    BY <1>2, <2>1 DEF shows
  <2>3. shows' = [s \in Requests |-> shows'[s]] /\ shows = [s \in Requests |-> shows[s]]
    BY <2>1 DEF shows
  <2> HIDE DEF shows
  <2>4. QED BY <2>2, <2>3
<1>6. QED BY <1>3, <1>4, <1>5 DEF callers, permits, shows

\* A request that is answered ends for the contract.
LEMMA Ends ==
    ASSUME Inv, NEW r \in Requests, NEW q \in Request, req' = [req EXCEPT ![r] = q],
           req[r].pc \in Statements, q.pc = "done"
    PROVE  /\ Contract!End(r)
           /\ shows' = [shows EXCEPT ![r] = ShownBy(q)]
           /\ ShownBy(q) = {} => shows' = shows
           /\ callers[r] = req[r].actor /\ callers[r] \in users
           /\ permits[r] = PermitOf(req[r])
<1>1. CallerOf(q) = NoUser /\ PermitOf(q) = {}
  BY DEF CallerOf, PermitOf, Authorized, Statements
<1>2. callers[r] = req[r].actor /\ req[r].actor \in users
  BY Mapped DEF CallerOf, Inv, Placed
<1>3. callers[r] # NoUser
  BY <1>2 DEF Inv, TypeOK
<1>4. shows[r] = {}
  BY Mapped DEF ShownBy, Statements
<1>5. ShownBy(q) = {} => shows' = shows
  BY <1>4, Mapped DEF shows
<1>6. callers[r] = req[r].actor /\ permits[r] = PermitOf(req[r])
  BY <1>2, Mapped
<1>7. /\ callers' = [callers EXCEPT ![r] = NoUser]
      /\ permits' = [permits EXCEPT ![r] = {}]
      /\ shows' = [shows EXCEPT ![r] = ShownBy(q)]
  <2>1. /\ callers' = [callers EXCEPT ![r] = CallerOf(q)]
        /\ permits' = [permits EXCEPT ![r] = PermitOf(q)]
        /\ shows' = [shows EXCEPT ![r] = ShownBy(q)]
    BY Mapped
  <2>2. QED BY <1>1, <2>1
<1>8. QED BY <1>2, <1>3, <1>5, <1>6, <1>7 DEF Contract!End

\* A statement that moves a request on without a new permit is not seen.
LEMMA QuietMove ==
    ASSUME Inv, UNCHANGED tables, NEW r \in Requests, NEW n \in Request,
           req' = [req EXCEPT ![r] = n],
           req[r].pc \in Statements, n.pc \in Statements,
           n.actor = req[r].actor, PermitOf(n) = PermitOf(req[r])
    PROVE  UNCHANGED Contract!vars
<1>1. CallerOf(n) = CallerOf(req[r]) /\ ShownBy(n) = ShownBy(req[r])
  BY DEF CallerOf, ShownBy, Statements
<1>2. callers' = callers
  BY <1>1, Mapped DEF callers
<1>3. permits' = permits
  BY Mapped DEF permits
<1>4. shows' = shows
  BY <1>1, Mapped DEF shows
<1>5. QED BY <1>2, <1>3, <1>4 DEF Contract!vars, tables

-----------------------------------------------------------------------------
LEMMA RejectDeclines ==
    ASSUME Inv, NEW r \in Requests, NEW status \in Statuses,
           req[r].pc \in Statements, Reject(r, status)
    PROVE  Contract!Decline(r)
<1> DEFINE q == [req[r] EXCEPT !.pc = "done", !.status = status, !.rows = {}]
<1>1. req[r] \in Request /\ req \in [Requests -> Request]
  BY DEF Inv, TypeOK
<1>2. req' = [req EXCEPT ![r] = q] /\ UNCHANGED tables
  BY <1>1 DEF Reject, Answer
<1>3. q \in Request /\ q.pc = "done" /\ q.rows = {}
  BY <1>1 DEF Request
<1> HIDE DEF q
<1>4. ShownBy(q) = {}
  BY <1>3 DEF ShownBy
<1>5. Contract!End(r) /\ shows' = shows
  BY <1>2, <1>3, <1>4, Ends
<1>6. QED BY <1>2, <1>5 DEF Contract!Decline, tables

LEMMA InterruptDeclines ==
    ASSUME Inv, NEW r \in Requests, Interrupt(r)
    PROVE  Contract!Decline(r)
<1> DEFINE q == [Idle EXCEPT !.pc = "done", !.status = "error"]
<1>1. q \in Request /\ q.pc = "done" /\ q.rows = {}
  BY DEF Idle, Request, AllRoutes, Statuses
<1>2. req' = [req EXCEPT ![r] = q] /\ UNCHANGED tables /\ req[r].pc \in Statements
  BY DEF Interrupt
<1> HIDE DEF q
<1>3. ShownBy(q) = {}
  BY <1>1 DEF ShownBy
<1>4. Contract!End(r) /\ shows' = shows
  BY <1>1, <1>2, <1>3, Ends
<1>5. QED BY <1>2, <1>4 DEF Contract!Decline, tables

\* An arrival that asks for a statement begins a request without a permit.
LEMMA StartBegins ==
    ASSUME Inv, NEW r \in Requests, NEW q \in Request, Start(r, q),
           q.pc \in Statements, ~Authorized(q)
    PROVE  \E u \in Users : Contract!Begin(r, u)
<1>1. /\ req' = [req EXCEPT ![r] = q] /\ UNCHANGED tables
      /\ q.actor \in users /\ req[r].pc \in {"idle", "done"}
  BY DEF Start
<1>2. callers[r] = NoUser /\ permits[r] = {}
  BY <1>1, Mapped DEF CallerOf, PermitOf, Authorized, Statements
<1>3. ShownBy(q) = {}
  BY DEF ShownBy, Statements
<1>4. /\ callers' = [callers EXCEPT ![r] = q.actor]
      /\ permits' = [permits EXCEPT ![r] = {}]
      /\ shows' = [shows EXCEPT ![r] = {}]
  BY <1>1, <1>3, Mapped DEF CallerOf, PermitOf
<1>5. permits' = permits
  BY <1>2, <1>4 DEF permits
<1>6. q.actor \in Users
  BY <1>1 DEF Inv, TypeOK
<1>7. Contract!Begin(r, q.actor)
  BY <1>1, <1>2, <1>4, <1>5 DEF Contract!Begin, tables
<1>8. QED BY <1>6, <1>7

\* Every route starts at a statement that comes before its permit.
LEMMA CallUnauthorized ==
    ASSUME NEW op \in AllRoutes, NEW a \in Users,
           NEW w \in Workspaces \cup {NoWorkspace}, NEW q \in Request,
           q.op = op, q.pc = IF w = NoWorkspace THEN "fallback" ELSE FirstStatement(op)
    PROVE  q.pc \in Statements /\ ~Authorized(q)
BY DEF FirstStatement, AllRoutes, Statements, Authorized

LEMMA ArriveBegins ==
    ASSUME Inv, NEW r \in Requests, Arrive(r)
    PROVE  \E u \in Users : Contract!Begin(r, u)
<1>1. PICK a \in users :
        \/ CreateWorkspace(r, a) \/ DeleteWorkspace(r, a)
        \/ List(r, a) \/ ChangeShare(r, a)
        \/ CreateTodo(r, a) \/ UpdateTodo(r, a) \/ DeleteTodo(r, a)
  BY DEF Arrive
<1>2. a \in Users
  BY <1>1 DEF Inv, TypeOK
<1>3. CASE CreateWorkspace(r, a)
  BY <1>2, <1>3, StartBegins
  DEF CreateWorkspace, Call, Idle, Request, FirstStatement, AllRoutes, Statements,
      Statuses, Authorized
<1>4. CASE DeleteWorkspace(r, a)
  BY <1>2, <1>4, StartBegins
  DEF DeleteWorkspace, Call, Idle, Request, FirstStatement, AllRoutes, Statements,
      Statuses, Authorized
<1>5. CASE List(r, a)
  <2>1. PICK w \in Workspaces \cup {NoWorkspace}, op \in {"listShares", "listTodos"} :
           Start(r, In(Call(op, a), w))
    BY <1>5 DEF List
  <2>2. op \in AllRoutes
    BY DEF AllRoutes
  <2>3. QED BY <1>2, <2>1, <2>2, CallFields, CallUnauthorized, StartBegins
<1>6. CASE ChangeShare(r, a)
  <2>1. PICK w \in Workspaces \cup {NoWorkspace}, u \in Users \cup {NoUser},
             op \in {"createShare", "deleteShare"} :
           Start(r, [In(Call(op, a), w) EXCEPT !.target = u])
    BY <1>6 DEF ChangeShare
  <2>2. op \in AllRoutes
    BY DEF AllRoutes
  <2> DEFINE c == In(Call(op, a), w)
             q == [c EXCEPT !.target = u]
  <2>3. /\ c \in Request /\ c.op = op
        /\ c.pc = IF w = NoWorkspace THEN "fallback" ELSE FirstStatement(op)
    BY <1>2, <2>2, CallFields
  <2> HIDE DEF c
  <2>4. q \in Request /\ q.op = op /\ q.pc = c.pc
    BY <2>3 DEF Request
  <2>5. Start(r, q)
    BY <2>1 DEF c
  <2> HIDE DEF q
  <2>6. QED BY <1>2, <2>2, <2>3, <2>4, <2>5, CallUnauthorized, StartBegins
<1>7. CASE CreateTodo(r, a)
  <2>1. PICK w \in Workspaces \cup {NoWorkspace} :
           Start(r, In(Call("createTodo", a), w))
    BY <1>7 DEF CreateTodo
  <2>2. "createTodo" \in AllRoutes
    BY DEF AllRoutes
  <2>3. QED BY <1>2, <2>1, <2>2, CallFields, CallUnauthorized, StartBegins
<1>8. CASE UpdateTodo(r, a)
  <2>1. PICK t \in Todos, b \in BOOLEAN :
           Start(r, [Call("updateTodo", a) EXCEPT !.id = t, !.completed = b])
    BY <1>8 DEF UpdateTodo
  <2> DEFINE q == [Call("updateTodo", a) EXCEPT !.id = t, !.completed = b]
  <2>2. q \in Request /\ q.op = "updateTodo" /\ q.pc = "todoRow"
    BY <1>2 DEF Call, Idle, Request, FirstStatement, AllRoutes, Statements
  <2> HIDE DEF q
  <2>3. q.pc \in Statements /\ ~Authorized(q)
    BY <2>2 DEF Statements, Authorized
  <2>4. QED BY <2>1, <2>2, <2>3, StartBegins DEF q
<1>9. CASE DeleteTodo(r, a)
  BY <1>2, <1>9, StartBegins
  DEF DeleteTodo, Call, Idle, Request, FirstStatement, AllRoutes, Statements,
      Statuses, Authorized
<1>10. QED BY <1>1, <1>3, <1>4, <1>5, <1>6, <1>7, <1>8, <1>9

-----------------------------------------------------------------------------
\* A reading statement declines the request, grants its permit, or is not seen.
LEMMA ReadRefines ==
    ASSUME Inv, NEW r \in Requests, Read(r)
    PROVE  \/ Contract!Decline(r)
           \/ \E w \in Workspaces : Contract!Grant(r, w)
           \/ UNCHANGED Contract!vars
<1> DEFINE q == req[r]
<1>1. q \in Request /\ Placed(q) /\ Grounded(q) /\ req \in [Requests -> Request]
  BY DEF Inv, TypeOK
<1>2. q.pc \in Statements
  BY DEF Read, Fallback, LookupForDelete, LookupForShare, LookupForUnshare,
         LookupForTodo, TodoWorkspace, AuthorizeWorkspace, UserExists, Statements
<1>3. \A s \in {"badRequest", "denied", "notFound", "error"} : s \in Statuses
  BY DEF Statuses
<1>4. SUFFICES ASSUME ~\E s \in {"badRequest", "denied", "notFound", "error"} :
                          Reject(r, s)
               PROVE  \/ \E w \in Workspaces : Contract!Grant(r, w)
                      \/ UNCHANGED Contract!vars
  BY <1>2, <1>3, RejectDeclines
<1>5. CASE Fallback(r)
  <2>1. PICK w \in FirstAccessible(q.actor) :
             /\ q.pc = "fallback"
             /\ req' = [req EXCEPT ![r].workspace = w, ![r].pc = FirstStatement(q.op)]
             /\ UNCHANGED tables
    BY <1>4, <1>5 DEF Fallback
  <2>2. w \in Workspaces
    BY <2>1 DEF FirstAccessible, OwnedBy, SharedWith
  <2>3. /\ FirstStatement(q.op) \in {"lookup", "authorize"}
        /\ q.op = "createTodo" => FirstStatement(q.op) = "authorize"
    BY <1>1, <2>1 DEF Placed, FallbackRoutes, FirstStatement
  <2> DEFINE n == [q EXCEPT !.workspace = w, !.pc = FirstStatement(q.op)]
  <2>4. req' = [req EXCEPT ![r] = n]
    BY <1>1, <2>1
  <2>5. /\ n \in Request /\ n.pc = FirstStatement(q.op) /\ n.actor = q.actor
        /\ n.op = q.op /\ n.pc \in Statements
    <3>1. FirstStatement(q.op) \in Statements
      BY <2>3 DEF Statements
    <3>2. QED BY <1>1, <2>2, <3>1 DEF Request
  <2> HIDE DEF n
  <2>6. PermitOf(n) = {} /\ PermitOf(q) = {}
    BY <2>1, <2>3, <2>5 DEF PermitOf, Authorized
  <2>7. QED BY <1>2, <2>1, <2>4, <2>5, <2>6, QuietMove
<1>6. CASE LookupForDelete(r) \/ LookupForShare(r) \/ UserExists(r)
  <2>1. PICK pc \in {"effect", "authorize"} :
           /\ req' = [req EXCEPT ![r].pc = pc] /\ UNCHANGED tables
           /\ \/ q.pc = "lookup" /\ q.op = "deleteWorkspace" /\ pc = "effect"
              \/ q.pc = "lookup" /\ q.op = "createShare" /\ pc = "authorize"
              \/ q.pc = "userExists" /\ pc = "effect"
    BY <1>4, <1>6 DEF LookupForDelete, LookupForShare, UserExists, Continue
  <2> DEFINE n == [q EXCEPT !.pc = pc]
  <2>2. req' = [req EXCEPT ![r] = n]
    BY <1>1, <2>1
  <2>3. /\ n \in Request /\ n.pc = pc /\ n.actor = q.actor /\ n.op = q.op
        /\ n.workspace = q.workspace /\ n.pc \in Statements
    BY <1>1 DEF Request, Statements
  <2> HIDE DEF n
  <2>4. q.pc = "userExists" => q.op \in {"createWorkspace", "createShare"}
    BY <1>1 DEF Placed
  <2>5. PermitOf(n) = PermitOf(q)
    BY <2>1, <2>3, <2>4 DEF PermitOf, Authorized
  <2>6. QED BY <1>2, <2>1, <2>2, <2>3, <2>5, QuietMove
<1>7. CASE LookupForUnshare(r) \/ LookupForTodo(r)
  <2>1. PICK pc \in {"effect", "authorize"} :
           /\ req' = [req EXCEPT ![r].pc = pc, ![r].seenOwner = owner[q.workspace]]
           /\ UNCHANGED tables
           /\ \/ q.pc = "lookup" /\ q.op = "deleteShare" /\ pc = "authorize"
              \/ q.pc = "lookup" /\ q.op = "createTodo" /\ pc = "effect"
    BY <1>4, <1>7 DEF LookupForUnshare, LookupForTodo
  <2>2. q.workspace \in Workspaces
    BY <1>1, <2>1 DEF Placed
  <2>3. owner[q.workspace] \in Users \cup {NoUser}
    BY <2>2 DEF Inv, TypeOK
  <2> DEFINE n == [q EXCEPT !.pc = pc, !.seenOwner = owner[q.workspace]]
  <2>4. req' = [req EXCEPT ![r] = n]
    BY <1>1, <2>1
  <2>5. /\ n \in Request /\ n.pc = pc /\ n.actor = q.actor /\ n.op = q.op
        /\ n.workspace = q.workspace /\ n.pc \in Statements
    <3>1. pc \in Statements
      BY DEF Statements
    <3>2. QED BY <1>1, <2>3, <3>1 DEF Request
  <2> HIDE DEF n
  <2>6. PermitOf(n) = PermitOf(q)
    BY <2>1, <2>5 DEF PermitOf, Authorized
  <2>7. QED BY <1>2, <2>1, <2>4, <2>5, <2>6, QuietMove
<1>8. CASE TodoWorkspace(r)
  <2>1. /\ q.pc = "todoRow" /\ todo[q.id] # NoTodo
        /\ req' = [req EXCEPT ![r].pc = "authorize",
                              ![r].workspace = todo[q.id].workspace]
        /\ UNCHANGED tables
    BY <1>4, <1>8 DEF TodoWorkspace
  <2>2. todo[q.id].workspace \in Workspaces
    BY <1>1, <2>1 DEF Inv, TypeOK, TodoRow, Placed
  <2> DEFINE n == [q EXCEPT !.pc = "authorize", !.workspace = todo[q.id].workspace]
  <2>3. req' = [req EXCEPT ![r] = n]
    BY <1>1, <2>1
  <2>4. /\ n \in Request /\ n.pc = "authorize" /\ n.actor = q.actor
        /\ n.pc \in Statements
    <3>1. "authorize" \in Statements
      BY DEF Statements
    <3>2. QED BY <1>1, <2>2, <3>1 DEF Request
  <2> HIDE DEF n
  <2>5. PermitOf(n) = {} /\ PermitOf(q) = {}
    BY <2>1, <2>4 DEF PermitOf, Authorized
  <2>6. QED BY <1>2, <2>1, <2>3, <2>4, <2>5, QuietMove
<1>9. CASE AuthorizeWorkspace(r)
  <2>1. /\ q.pc = "authorize" /\ HasAccess(q.actor, q.workspace)
        /\ req' = [req EXCEPT ![r].pc = AfterAuthorize(q.op)]
        /\ UNCHANGED tables
    BY <1>4, <1>9 DEF AuthorizeWorkspace, Continue
  <2>2. q.op \notin {"createWorkspace", "deleteWorkspace"} /\ q.actor \in users
    BY <1>1, <1>2, <2>1 DEF Placed
  <2> DEFINE n == [q EXCEPT !.pc = AfterAuthorize(q.op)]
  <2>3. req' = [req EXCEPT ![r] = n]
    BY <1>1, <2>1
  <2>4. /\ AfterAuthorize(q.op) \in {"userExists", "lookup", "effect"}
        /\ q.op = "createShare" <=> AfterAuthorize(q.op) = "userExists"
        /\ q.op = "createTodo" <=> AfterAuthorize(q.op) = "lookup"
    BY DEF AfterAuthorize
  <2>5. /\ n \in Request /\ n.pc = AfterAuthorize(q.op) /\ n.actor = q.actor
        /\ n.op = q.op /\ n.workspace = q.workspace /\ n.pc \in Statements
    BY <1>1, <2>4 DEF Request, Statements
  <2> HIDE DEF n
  <2>6. PermitOf(n) = {q.workspace} /\ PermitOf(q) = {}
    BY <2>1, <2>2, <2>4, <2>5 DEF PermitOf, Authorized
  <2>7. ShownBy(n) = ShownBy(q) /\ CallerOf(n) = q.actor /\ CallerOf(q) = q.actor
    BY <1>2, <2>5 DEF ShownBy, CallerOf, Statements
  <2>8. /\ callers' = callers /\ shows' = shows
        /\ permits' = [permits EXCEPT ![r] = {q.workspace}]
        /\ permits[r] = {} /\ callers[r] = q.actor
    <3>1. callers' = callers
      BY <2>3, <2>5, <2>7, Mapped DEF callers
    <3>2. shows' = shows
      BY <2>3, <2>5, <2>7, Mapped DEF shows
    <3>3. permits' = [permits EXCEPT ![r] = PermitOf(n)]
      BY <2>3, <2>5, Mapped
    <3>4. permits[r] = PermitOf(q) /\ callers[r] = CallerOf(q)
      BY <2>3, <2>5, Mapped
    <3> HIDE DEF q
    <3>5. QED BY <2>6, <2>7, <3>1, <3>2, <3>3, <3>4
  <2>9. q.actor # NoUser
    BY <2>2 DEF Inv, TypeOK
  <2>10. Contract!HasAccess(q.actor, q.workspace) /\ q.workspace \in Workspaces
    BY <2>1 DEF HasAccess, IsLive, Contract!HasAccess
  <2>11. Contract!Grant(r, q.workspace)
    BY <2>1, <2>8, <2>9, <2>10 DEF Contract!Grant, tables
  <2>12. QED BY <2>10, <2>11
<1>10. QED
  BY <1>5, <1>6, <1>7, <1>8, <1>9 DEF Read

-----------------------------------------------------------------------------
(* Final statements *)

\* A final statement's answer ends the request and shows the rows it selected.
LEMMA AnswerEnds ==
    ASSUME Inv, NEW r \in Requests, NEW rows \in SUBSET (Users \cup Todos),
           req[r].pc = "effect", Answer(r, "ok", rows)
    PROVE  /\ Contract!End(r) /\ callers[r] = req[r].actor
           /\ req[r].op \notin {"createWorkspace", "deleteWorkspace"}
                 => permits[r] = {req[r].workspace}
           /\ rows = {} => shows' = shows
           /\ req[r].op \in {"listShares", "listTodos"}
                 => shows' = [shows EXCEPT ![r] = rows]
<1> DEFINE q == [req[r] EXCEPT !.pc = "done", !.status = "ok", !.rows = rows]
<1>1. req[r] \in Request /\ req \in [Requests -> Request] /\ "ok" \in Statuses
  BY DEF Inv, TypeOK, Statuses
<1>2. req' = [req EXCEPT ![r] = q]
  BY <1>1 DEF Answer
<1>3. q \in Request /\ q.pc = "done" /\ q.rows = rows /\ q.op = req[r].op
  BY <1>1 DEF Request
<1> HIDE DEF q
<1>4. /\ Contract!End(r) /\ callers[r] = req[r].actor
      /\ permits[r] = PermitOf(req[r])
      /\ shows' = [shows EXCEPT ![r] = ShownBy(q)]
      /\ ShownBy(q) = {} => shows' = shows
  BY <1>2, <1>3, Ends DEF Statements
<1>5. /\ rows = {} => ShownBy(q) = {}
      /\ req[r].op \in {"listShares", "listTodos"} => ShownBy(q) = rows
  BY <1>3 DEF ShownBy
<1>6. req[r].op \notin {"createWorkspace", "deleteWorkspace"}
         => PermitOf(req[r]) = {req[r].workspace}
  BY DEF PermitOf, Authorized
<1>7. QED BY <1>4, <1>5, <1>6

LEMMA InsertWorkspaceFounds ==
    ASSUME Inv, NEW r \in Requests, InsertWorkspace(r)
    PROVE  \E w \in Workspaces : Contract!Found(r, w)
<1>1. PICK w \in Workspaces \ born :
        /\ req[r].pc = "effect" /\ req[r].op = "createWorkspace"
        /\ owner' = [owner EXCEPT ![w] = req[r].actor]
        /\ req' = [req EXCEPT ![r].pc = "done", ![r].status = "ok", ![r].workspace = w]
        /\ UNCHANGED <<users, members, todo>>
  BY DEF InsertWorkspace
<1> DEFINE q == [req[r] EXCEPT !.pc = "done", !.status = "ok", !.workspace = w]
<1>2. req[r] \in Request /\ req \in [Requests -> Request] /\ "ok" \in Statuses
  BY DEF Inv, TypeOK, Statuses
<1>3. q \in Request /\ q.pc = "done" /\ q.op = "createWorkspace"
  BY <1>1, <1>2 DEF Request
<1>4. req' = [req EXCEPT ![r] = q]
  BY <1>1, <1>2
<1> HIDE DEF q
<1>5. ShownBy(q) = {}
  BY <1>3 DEF ShownBy
<1>6. Contract!End(r) /\ shows' = shows /\ callers[r] = req[r].actor
  BY <1>1, <1>3, <1>4, <1>5, Ends DEF Statements
<1>7. owner[w] = NoUser
  BY <1>1 DEF Inv, RowsReferToRows, IsLive
<1>8. Contract!Found(r, w)
  BY <1>1, <1>6, <1>7 DEF Contract!Found
<1>9. QED BY <1>8

LEMMA RemoveWorkspaceDisbands ==
    ASSUME Inv, NEW r \in Requests, RemoveWorkspace(r)
    PROVE  Contract!Decline(r) \/ \E w \in Workspaces : Contract!Disband(r, w)
<1> DEFINE w == req[r].workspace
<1>1. CASE Reject(r, "notFound")
  BY <1>1, RejectDeclines DEF RemoveWorkspace, Statuses, Statements
<1>2. CASE /\ req[r].pc = "effect" /\ req[r].op = "deleteWorkspace"
           /\ IsLive(w) /\ Answer(r, "ok", {}) /\ CascadeDelete(w)
  <2>1. Contract!End(r) /\ callers[r] = req[r].actor /\ shows' = shows
    BY <1>2, AnswerEnds
  <2>2. w \in Workspaces /\ owner[w] = req[r].actor
    BY <1>2 DEF Inv, Placed, Grounded, IsLive
  <2>3. todo' = [t \in Todos |->
                    IF todo[t] # NoTodo /\ todo[t].workspace = w THEN NoTodo
                    ELSE todo[t]]
    BY <1>2 DEF CascadeDelete, TodosOf
  <2>4. Contract!Disband(r, w)
    BY <1>2, <2>1, <2>2, <2>3 DEF Contract!Disband, CascadeDelete
  <2>5. QED BY <2>2, <2>4
<1>3. QED BY <1>1, <1>2 DEF RemoveWorkspace

LEMMA InsertShareAdmits ==
    ASSUME Inv, NEW r \in Requests, InsertShare(r)
    PROVE  \/ Contract!Decline(r)
           \/ \E w \in Workspaces, u \in Users : Contract!Admit(r, w, u)
<1> DEFINE w == req[r].workspace
           u == req[r].target
<1>1. CASE Reject(r, "error")
  BY <1>1, RejectDeclines DEF InsertShare, Statuses, Statements
<1>2. CASE /\ req[r].pc = "effect" /\ req[r].op = "createShare"
           /\ IsLive(w) /\ Answer(r, "ok", {})
           /\ members' = [members EXCEPT ![w] = @ \cup {u}]
           /\ UNCHANGED <<users, owner, todo, born>>
  <2>1. Contract!End(r) /\ w \in permits[r] /\ shows' = shows
    BY <1>2, AnswerEnds
  <2>2. w \in Workspaces /\ u \in Users /\ u \in users /\ u # owner[w]
    BY <1>2 DEF Inv, Placed, Grounded
  <2>3. Contract!Admit(r, w, u)
    BY <1>2, <2>1, <2>2 DEF Contract!Admit, IsLive
  <2>4. QED BY <2>2, <2>3
<1>3. QED BY <1>1, <1>2 DEF InsertShare

LEMMA RemoveShareExpels ==
    ASSUME Inv, NEW r \in Requests, RemoveShare(r)
    PROVE  \E w \in Workspaces, u \in Users : Contract!Expel(r, w, u)
<1> DEFINE w == req[r].workspace
           u == req[r].target
<1>1. /\ req[r].pc = "effect" /\ req[r].op = "deleteShare" /\ Answer(r, "ok", {})
      /\ members' = [members EXCEPT ![w] = @ \ {u}]
      /\ UNCHANGED <<users, owner, todo, born>>
  BY DEF RemoveShare
<1>2. Contract!End(r) /\ w \in permits[r] /\ shows' = shows
  BY <1>1, AnswerEnds
<1>3. w \in Workspaces /\ u \in Users
  BY <1>1 DEF Inv, Placed, Grounded
<1>4. Contract!Expel(r, w, u)
  BY <1>1, <1>2 DEF Contract!Expel
<1>5. QED BY <1>3, <1>4

LEMMA SelectShows ==
    ASSUME Inv, NEW r \in Requests, SelectShares(r) \/ SelectTodos(r)
    PROVE  \E w \in Workspaces : Contract!ShowShares(r, w) \/ Contract!ShowTodos(r, w)
<1> DEFINE w == req[r].workspace
<1>1. w \in Workspaces
  BY DEF SelectShares, SelectTodos, Inv, Placed
<1>2. CASE SelectShares(r)
  <2>1. members[w] \in SUBSET (Users \cup Todos)
    BY <1>1 DEF Inv, TypeOK
  <2>2. /\ Contract!End(r) /\ w \in permits[r]
        /\ shows' = [shows EXCEPT ![r] = members[w]]
    BY <1>2, <2>1, AnswerEnds DEF SelectShares
  <2>3. Contract!ShowShares(r, w)
    BY <1>2, <2>2 DEF SelectShares, Contract!ShowShares, tables
  <2>4. QED BY <1>1, <2>3
<1>3. CASE SelectTodos(r)
  <2>1. TodosOf(w) \in SUBSET (Users \cup Todos)
    BY DEF TodosOf
  <2>2. /\ Contract!End(r) /\ w \in permits[r]
        /\ shows' = [shows EXCEPT ![r] = TodosOf(w)]
    BY <1>3, <2>1, AnswerEnds DEF SelectTodos
  <2>3. Contract!ShowTodos(r, w)
    BY <1>3, <2>2 DEF SelectTodos, Contract!ShowTodos, TodosOf, tables
  <2>4. QED BY <1>1, <2>3
<1>4. QED BY <1>2, <1>3

LEMMA InsertTodoAdds ==
    ASSUME Inv, NEW r \in Requests, InsertTodo(r)
    PROVE  \/ Contract!Decline(r)
           \/ \E w \in Workspaces, t \in Todos : Contract!AddTodo(r, w, t)
<1> DEFINE w == req[r].workspace
<1>1. CASE Reject(r, "error")
  BY <1>1, RejectDeclines DEF InsertTodo, Statuses, Statements
<1>2. CASE req[r].pc = "effect" /\ req[r].op = "createTodo" /\ IsLive(w) /\ PutTodo(r)
  <2>1. PICK t \in Todos \ born :
          /\ todo' = [todo EXCEPT ![t] = NewTodo(req[r])]
          /\ req' = [req EXCEPT ![r].pc = "done", ![r].status = "ok", ![r].id = t]
          /\ UNCHANGED <<users, owner, members>>
    BY <1>2 DEF PutTodo
  <2> DEFINE q == [req[r] EXCEPT !.pc = "done", !.status = "ok", !.id = t]
  <2>2. req[r] \in Request /\ req \in [Requests -> Request] /\ "ok" \in Statuses
    BY DEF Inv, TypeOK, Statuses
  <2>3. q \in Request /\ q.pc = "done" /\ q.op = "createTodo"
    BY <1>2, <2>1, <2>2 DEF Request
  <2>4. req' = [req EXCEPT ![r] = q]
    BY <2>1, <2>2
  <2> HIDE DEF q
  <2>5. ShownBy(q) = {} /\ PermitOf(req[r]) = {w}
    BY <1>2, <2>3 DEF ShownBy, PermitOf, Authorized
  <2>6. /\ Contract!End(r) /\ shows' = shows
        /\ callers[r] = req[r].actor /\ w \in permits[r]
    BY <1>2, <2>3, <2>4, <2>5, Ends DEF Statements
  <2>7. w \in Workspaces /\ owner[w] = req[r].seenOwner /\ owner[w] # NoUser
    BY <1>2 DEF Inv, Placed, Grounded, IsLive
  <2>8. todo[t] = NoTodo
    BY <2>1 DEF Inv, RowsReferToRows
  <2>9. NewTodo(req[r]) = [workspace |-> w, workspaceOwner |-> owner[w],
                           author |-> callers[r], completed |-> FALSE]
    BY <2>6, <2>7 DEF NewTodo
  <2>10. Contract!AddTodo(r, w, t)
    BY <2>1, <2>6, <2>7, <2>8, <2>9 DEF Contract!AddTodo
  <2>11. QED BY <2>7, <2>10
<1>3. QED BY <1>1, <1>2 DEF InsertTodo

LEMMA ChangeTodoSets ==
    ASSUME Inv, NEW r \in Requests, ChangeTodo(r)
    PROVE  \/ Contract!Decline(r)
           \/ \E t \in Todos, b \in BOOLEAN : Contract!SetTodo(r, t, b)
<1> DEFINE t == req[r].id
           b == req[r].completed
<1>1. CASE Reject(r, "notFound")
  BY <1>1, RejectDeclines DEF ChangeTodo, Statuses, Statements
<1>2. CASE /\ req[r].pc = "effect" /\ req[r].op = "updateTodo"
           /\ todo[t] # NoTodo /\ Answer(r, "ok", {})
           /\ todo' = [todo EXCEPT ![t].completed = b]
           /\ UNCHANGED <<users, owner, members, born>>
  <2>1. Contract!End(r) /\ permits[r] = {req[r].workspace} /\ shows' = shows
    BY <1>2, AnswerEnds
  <2>2. t \in Todos /\ b \in BOOLEAN /\ todo[t].workspace = req[r].workspace
    BY <1>2 DEF Inv, TypeOK, Grounded, Request
  <2>3. Contract!SetTodo(r, t, b)
    BY <1>2, <2>1, <2>2 DEF Contract!SetTodo
  <2>4. QED BY <2>2, <2>3
<1>3. QED BY <1>1, <1>2 DEF ChangeTodo

LEMMA RemoveTodoDrops ==
    ASSUME Inv, NEW r \in Requests, RemoveTodo(r)
    PROVE  Contract!Decline(r) \/ \E t \in Todos : Contract!DropTodo(r, t)
<1> DEFINE t == req[r].id
<1>1. CASE Reject(r, "notFound")
  BY <1>1, RejectDeclines DEF RemoveTodo, Statuses, Statements
<1>2. CASE /\ req[r].pc = "effect" /\ req[r].op = "deleteTodo"
           /\ todo[t] # NoTodo /\ Answer(r, "ok", {})
           /\ todo' = [todo EXCEPT ![t] = NoTodo]
           /\ UNCHANGED <<users, owner, members, born>>
  <2>1. Contract!End(r) /\ permits[r] = {req[r].workspace} /\ shows' = shows
    BY <1>2, AnswerEnds
  <2>2. t \in Todos /\ todo[t].workspace = req[r].workspace
    BY <1>2 DEF Inv, Grounded
  <2>3. Contract!DropTodo(r, t)
    BY <1>2, <2>1, <2>2 DEF Contract!DropTodo
  <2>4. QED BY <2>2, <2>3
<1>3. QED BY <1>1, <1>2 DEF RemoveTodo

LEMMA ProvisionRegisters ==
    ASSUME Inv, NEW u \in Users, ProvisionUser(u)
    PROVE  \E w \in Workspaces : Contract!Register(u, w)
<1>1. PICK w \in Workspaces \ born :
        /\ u \notin users /\ users' = users \cup {u}
        /\ owner' = [owner EXCEPT ![w] = u]
        /\ UNCHANGED <<members, todo, req>>
  BY DEF ProvisionUser
<1>2. owner[w] = NoUser
  BY <1>1 DEF Inv, RowsReferToRows, IsLive
<1>3. callers' = callers /\ permits' = permits /\ shows' = shows
  BY <1>1 DEF callers, permits, shows, CallerOf, PermitOf, ShownBy, Authorized
<1>4. QED BY <1>1, <1>2, <1>3 DEF Contract!Register

-----------------------------------------------------------------------------
LEMMA EffectRefines ==
    ASSUME Inv, NEW r \in Requests, Effect(r)
    PROVE  Contract!Next
<1>1. CASE InsertWorkspace(r)
  BY <1>1, InsertWorkspaceFounds DEF Contract!Next
<1>2. CASE RemoveWorkspace(r)
  BY <1>2, RemoveWorkspaceDisbands DEF Contract!Next
<1>3. CASE SelectShares(r) \/ SelectTodos(r)
  BY <1>3, SelectShows DEF Contract!Next
<1>4. CASE InsertShare(r)
  BY <1>4, InsertShareAdmits DEF Contract!Next
<1>5. CASE RemoveShare(r)
  BY <1>5, RemoveShareExpels DEF Contract!Next
<1>6. CASE InsertTodo(r)
  BY <1>6, InsertTodoAdds DEF Contract!Next
<1>7. CASE ChangeTodo(r)
  BY <1>7, ChangeTodoSets DEF Contract!Next
<1>8. CASE RemoveTodo(r)
  BY <1>8, RemoveTodoDrops DEF Contract!Next
<1>9. QED BY <1>1, <1>2, <1>3, <1>4, <1>5, <1>6, <1>7, <1>8 DEF Effect

LEMMA InitRefines == Init => Contract!Init
<1> SUFFICES ASSUME Init PROVE Contract!Init
  OBVIOUS
<1>1. \A r \in Requests : /\ CallerOf(req[r]) = NoUser
                          /\ PermitOf(req[r]) = {} /\ ShownBy(req[r]) = {}
  BY DEF Init, Idle, CallerOf, PermitOf, ShownBy, Authorized, Statements
<1>2. /\ callers = [r \in Requests |-> NoUser]
      /\ permits = [r \in Requests |-> {}]
      /\ shows = [r \in Requests |-> {}]
  BY <1>1 DEF callers, permits, shows
<1>3. QED BY <1>2 DEF Init, Contract!Init

LEMMA NextRefines ==
    ASSUME Inv, [Next]_vars
    PROVE  [Contract!Next]_(Contract!vars)
<1>1. CASE \E u \in Users : ProvisionUser(u)
  BY <1>1, ProvisionRegisters DEF Contract!Next
<1>2. ASSUME NEW r \in Requests, Arrive(r)
      PROVE  Contract!Next
  BY <1>2, ArriveBegins DEF Contract!Next
<1>3. ASSUME NEW r \in Requests, Read(r)
      PROVE  [Contract!Next]_(Contract!vars)
  BY <1>3, ReadRefines DEF Contract!Next
<1>4. ASSUME NEW r \in Requests, Effect(r)
      PROVE  Contract!Next
  BY <1>4, EffectRefines
<1>5. ASSUME NEW r \in Requests, Interrupt(r)
      PROVE  Contract!Next
  BY <1>5, InterruptDeclines DEF Contract!Next
<1>6. CASE UNCHANGED vars
  BY <1>6 DEF vars, Contract!vars, callers, permits, shows, CallerOf, PermitOf,
              ShownBy, Authorized
<1>7. QED BY <1>1, <1>2, <1>3, <1>4, <1>5, <1>6 DEF Next

\* Requests in any interleaving keep the contract: whatever a request changes or
\* discloses after authorizeWorkspace let it through is covered by an access its
\* caller had during that same request, and only its owner deletes a workspace.
THEOREM Implements == Spec => KeepsContract
<1>1. Init => Contract!Init
  BY InitRefines
<1>2. Inv /\ [Next]_vars => [Contract!Next]_(Contract!vars)
  BY NextRefines
<1>3. Spec => []Inv
  BY Invariance
<1>4. QED BY <1>1, <1>2, <1>3, PTL DEF Spec, KeepsContract, Contract!Spec

=============================================================================
