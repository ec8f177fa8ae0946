---------------------- MODULE WorkspaceConformanceProofs ----------------------
(***************************************************************************)
(* PostgresStore answers what memoryStore answers: with one slot, every    *)
(* request of WorkspaceService is one step of MemoryWorkspaces, for any    *)
(* users, workspaces and todos.                                            *)
(*                                                                         *)
(* The argument: between the statements of the only request nothing        *)
(* happens but the provisioning of other accounts, so whatever a statement *)
(* has read is still so at the last (Fresh), and the statement that        *)
(* answers is the memoryStore operation.  The statements before it are not *)
(* seen.                                                                   *)
(***************************************************************************)
EXTENDS WorkspaceConformance, WorkspaceProofs

USE NullsAssumption

\* A request under way has the arguments of its route, and no answer.
Shaped(q) ==
    q.pc \in Statements =>
        /\ q.op \in Routes /\ q.status = "none" /\ q.rows = {}
        /\ q.op \notin {"createShare", "deleteShare"} => q.target = NoUser
        /\ q.op \notin {"updateTodo", "deleteTodo"} => q.id = NoTodo
        /\ q.pc = "fallback" => q.workspace = NoWorkspace

\* What its statements have read is still so.
Fresh(q) ==
    /\ Authorized(q) => HasAccess(q.actor, q.workspace)
    /\ q.op = "createShare" /\ q.pc \in {"authorize", "userExists", "effect"} =>
          IsLive(q.workspace)
    /\ q.op = "deleteShare" /\ q.pc \in {"authorize", "effect"} =>
          IsLive(q.workspace) /\ q.seenOwner = owner[q.workspace]
    /\ q.op = "deleteShare" /\ q.pc = "effect" => q.target # q.seenOwner
    /\ q.op = "createTodo" /\ q.pc = "effect" => q.seenOwner = owner[q.workspace]
    /\ q.op = "deleteWorkspace" /\ q.pc = "effect" => owner[q.workspace] = q.actor
    /\ q.op \in {"updateTodo", "deleteTodo"} /\ q.pc \in {"authorize", "effect"} =>
          todo[q.id] # NoTodo /\ q.workspace = todo[q.id].workspace

\* The inductive invariant, given that there is one slot.
Alone == Inv /\ \A r \in Requests : Shaped(req[r]) /\ Fresh(req[r])

OneSlot == \A r, s \in Requests : r = s

-----------------------------------------------------------------------------
(* What memoryStore sees *)

\* What is seen of a step that gives the request a new record.
LEMMA Seen ==
    ASSUME Inv, NEW r \in Requests, NEW q \in Request, req' = [req EXCEPT ![r] = q]
    PROVE  /\ answers' = [answers EXCEPT ![r] = AnswerOf(q)]
           /\ answers[r] = AnswerOf(req[r])
           /\ req'[r] = q
<1>1. req \in [Requests -> Request]
  BY DEF Inv, TypeOK
<1>2. \A s \in Requests : req'[s] = IF s = r THEN q ELSE req[s]
  BY <1>1
<1>3. answers' = [s \in Requests |-> AnswerOf(req'[s])]
  BY DEF answers, AnswerOf
<1>4. \A s \in Requests : answers'[s] = IF s = r THEN AnswerOf(q) ELSE answers[s]
  BY <1>2, <1>3 DEF answers
<1>5. answers' = [s \in Requests |-> answers'[s]] /\ answers = [s \in Requests |-> answers[s]]
  BY <1>3 DEF answers
<1>6. answers[r] = AnswerOf(req[r])
  BY DEF answers
<1> HIDE DEF answers
<1>7. answers' = [answers EXCEPT ![r] = AnswerOf(q)]
  BY <1>4, <1>5
<1>8. QED BY <1>1, <1>6, <1>7

LEMMA Unanswered ==
    ASSUME NEW q \in Request, q.pc \in Statements \cup {"idle"}, q.status = "none"
    PROVE  AnswerOf(q) = Memory!NoAnswer
BY DEF AnswerOf, Memory!NoAnswer, Statements

\* Queries are the same.
LEMMA SameQueries ==
    /\ \A u, w : Memory!HasAccess(u, w) <=> HasAccess(u, w)
    /\ \A w \in Workspaces : Memory!Exists(w) <=> IsLive(w)
    /\ \A u : Memory!OwnedBy(u) = OwnedBy(u) /\ Memory!SharedWith(u) = SharedWith(u)
    /\ \A w : Memory!TodosOf(w) = TodosOf(w)
<1>1. \A u : Memory!SharedWith(u) = SharedWith(u)
  BY DEF Memory!SharedWith, SharedWith
<1>2. QED BY <1>1 DEF Memory!HasAccess, HasAccess, Memory!Exists, IsLive, Memory!OwnedBy,
          OwnedBy, Memory!TodosOf, TodosOf

\* A statement that answers is the reply of the operation.
LEMMA AnswerReplies ==
    ASSUME Alone, NEW r \in Requests, req[r].pc \in Statements,
           NEW status \in Statuses \ {"error"}, NEW rows \in SUBSET (Users \cup Todos),
           Answer(r, status, rows)
    PROVE  LET q == req[r] IN
           /\ q.op \in Routes /\ q.actor \in users
           /\ Memory!Reply(r, q.op, q.actor,
                 IF q.op \in {"updateTodo", "deleteTodo"} THEN NoWorkspace ELSE q.workspace,
                 q.target, q.id, status, rows)
           /\ q.op \notin {"createShare", "deleteShare"} => q.target = NoUser
           /\ q.op \notin {"updateTodo", "deleteTodo"} => q.id = NoTodo
           /\ req'[r].pc = "done"
<1> DEFINE q == req[r]
           n == [q EXCEPT !.pc = "done", !.status = status, !.rows = rows]
<1>1. q \in Request /\ Placed(q) /\ Shaped(q) /\ req \in [Requests -> Request]
  BY DEF Alone, Inv, TypeOK
<1>2. req' = [req EXCEPT ![r] = n]
  BY <1>1 DEF Answer
<1>3. /\ n \in Request /\ n.pc = "done" /\ n.status = status /\ n.rows = rows
      /\ n.op = q.op /\ n.actor = q.actor /\ n.workspace = q.workspace
      /\ n.target = q.target /\ n.id = q.id
  BY <1>1 DEF Request
<1> HIDE DEF n
<1>4. /\ answers' = [answers EXCEPT ![r] = AnswerOf(n)] /\ answers[r] = AnswerOf(q)
      /\ req'[r] = n
  BY <1>2, <1>3, Seen DEF Alone
<1>5. AnswerOf(q) = Memory!NoAnswer
  BY <1>1, Unanswered DEF Shaped
<1>6. AnswerOf(n) =
        [op |-> q.op, actor |-> q.actor,
         workspace |-> IF q.op \in {"updateTodo", "deleteTodo"}
                       THEN NoWorkspace ELSE q.workspace,
         target |-> q.target, id |-> q.id, status |-> status, rows |-> rows]
  BY <1>3 DEF AnswerOf
<1>7. q.op \in Routes /\ q.actor \in users
  BY <1>1 DEF Shaped, Placed
<1>8. QED BY <1>1, <1>3, <1>4, <1>5, <1>6, <1>7 DEF Memory!Reply, Shaped

\* One that gives the request up is Cancel.
LEMMA ErrorCancels ==
    ASSUME Alone, NEW r \in Requests, req[r].pc \in Statements,
           NEW q \in Request, req' = [req EXCEPT ![r] = q], q.pc = "done",
           q.status = "error", UNCHANGED tables
    PROVE  Memory!Next /\ req'[r].pc = "done"
<1>1. /\ answers' = [answers EXCEPT ![r] = AnswerOf(q)] /\ answers[r] = AnswerOf(req[r])
      /\ req'[r] = q
  BY Seen DEF Alone
<1>2. AnswerOf(req[r]) = Memory!NoAnswer
  BY Unanswered DEF Alone, Inv, TypeOK, Shaped
<1>3. AnswerOf(q) = [status |-> "error"]
  BY DEF AnswerOf
<1>4. Memory!Cancel(r)
  BY <1>1, <1>2, <1>3 DEF Memory!Cancel, Memory!Same, tables
<1>5. QED BY <1>1, <1>4 DEF Memory!Next

\* One that moves on to another statement is not seen.
LEMMA MoveUnseen ==
    ASSUME Alone, NEW r \in Requests, req[r].pc \in Statements,
           NEW n \in Request, req' = [req EXCEPT ![r] = n], UNCHANGED tables,
           n.pc \in Statements, n.status = "none", Shaped(n), Fresh(n)
    PROVE  UNCHANGED Memory!vars /\ (Shaped(req[r]) /\ Fresh(req[r]))'
<1>1. /\ answers' = [answers EXCEPT ![r] = AnswerOf(n)] /\ answers[r] = AnswerOf(req[r])
      /\ req'[r] = n
  BY Seen DEF Alone
<1>2. AnswerOf(n) = Memory!NoAnswer /\ AnswerOf(req[r]) = Memory!NoAnswer
  BY Unanswered DEF Alone, Inv, TypeOK, Shaped
<1>3. answers \in [Requests -> {AnswerOf(req[s]) : s \in Requests}]
  BY DEF answers
<1>4. answers' = answers
  BY <1>1, <1>2, <1>3
<1>5. Shaped(req[r])'
  BY <1>1 DEF Shaped
<1>6. Fresh(req[r])'
  BY <1>1 DEF Fresh, Authorized, HasAccess, IsLive, tables
<1>7. QED BY <1>4, <1>5, <1>6 DEF Memory!vars, tables

LEMMA AnsweredIsAlone ==
    ASSUME NEW r \in Requests, req'[r].pc \in {"idle", "done"}
    PROVE  (Shaped(req[r]) /\ Fresh(req[r]))'
BY DEF Shaped, Fresh, Authorized, Statements

\* The operations memoryStore is called with a workspace that exists or not.
LEMMA Served ==
    ASSUME NEW r \in Requests, NEW u \in users, NEW w \in Workspaces,
           NEW target \in Users \cup {NoUser},
           \/ Memory!DeleteWorkspace(r, u, w)
           \/ Memory!ListWorkspaceShares(r, u, w) \/ Memory!ListTodos(r, u, w)
           \/ Memory!CreateTodo(r, u, w)
           \/ Memory!CreateWorkspaceShare(r, u, w, target)
           \/ Memory!DeleteWorkspaceShare(r, u, w, target)
    PROVE  Memory!Next
<1>1. w # NoWorkspace /\ w \in Memory!Resolve(u, w)
  BY DEF Memory!Resolve
<1>2. QED BY <1>1 DEF Memory!Next

\* Those on a todo, which keep or remove its row.
LEMMA ServedTodo ==
    ASSUME NEW r \in Requests, NEW u \in users, NEW t \in Todos, NEW b \in BOOLEAN,
           \/ Memory!UpdateTodo(r, u, t) \/ Memory!DeleteTodo(r, u, t)
    PROVE  Memory!Next
BY DEF Memory!Next

-----------------------------------------------------------------------------
(* Arrivals *)

LEMMA ArriveForgets ==
    ASSUME Alone, NEW r \in Requests, Arrive(r)
    PROVE  Memory!Next /\ (Shaped(req[r]) /\ Fresh(req[r]))'
<1>1. PICK call : /\ Start(r, call)
                  /\ call \in Request /\ call.pc \in Statements
                  /\ Shaped(call) /\ Fresh(call)
  <2>1. PICK a \in users :
          \/ CreateWorkspace(r, a) \/ DeleteWorkspace(r, a)
          \/ List(r, a) \/ ChangeShare(r, a)
          \/ CreateTodo(r, a) \/ UpdateTodo(r, a) \/ DeleteTodo(r, a)
    BY DEF Arrive
  <2>2. a \in Users
    BY <2>1 DEF Alone, Inv, TypeOK
  <2>3. CASE CreateWorkspace(r, a)
    <3>1. Start(r, Call("createWorkspace", a))
      BY <2>3 DEF CreateWorkspace
    <3> DEFINE q == Call("createWorkspace", a)
    <3>2. /\ q \in Request /\ q.op = "createWorkspace" /\ q.pc = "userExists"
          /\ q.target = NoUser /\ q.id = NoTodo /\ q.status = "none" /\ q.rows = {}
      BY <2>2 DEF Call, Idle, Request, FirstStatement, AllRoutes, Statements
    <3> HIDE DEF q
    <3>3. q.op \in Routes /\ q.pc \in Statements
      BY <3>1, <3>2 DEF Start, q, Statements
    <3>4. Shaped(q) /\ Fresh(q)
      BY <3>2, <3>3 DEF Shaped, Fresh, Authorized
    <3>5. QED BY <3>1, <3>2, <3>3, <3>4 DEF q
  <2>4. CASE DeleteWorkspace(r, a)
    <3>1. PICK w \in Workspaces : Start(r, [Call("deleteWorkspace", a) EXCEPT !.workspace = w])
      BY <2>4 DEF DeleteWorkspace
    <3> DEFINE q == [Call("deleteWorkspace", a) EXCEPT !.workspace = w]
    <3>2. /\ q \in Request /\ q.op = "deleteWorkspace" /\ q.pc = "lookup"
          /\ q.target = NoUser /\ q.id = NoTodo /\ q.status = "none" /\ q.rows = {}
      BY <2>2 DEF Call, Idle, Request, FirstStatement, AllRoutes, Statements
    <3> HIDE DEF q
    <3>3. q.op \in Routes /\ q.pc \in Statements
      BY <3>1, <3>2 DEF Start, q, Statements
    <3>4. Shaped(q) /\ Fresh(q)
      BY <3>2, <3>3 DEF Shaped, Fresh, Authorized
    <3>5. QED BY <3>1, <3>2, <3>3, <3>4 DEF q
  <2>5. CASE List(r, a) \/ CreateTodo(r, a)
    <3>1. PICK w \in Workspaces \cup {NoWorkspace},
               op \in {"listShares", "listTodos", "createTodo"} :
             Start(r, In(Call(op, a), w))
      BY <2>5 DEF List, CreateTodo
    <3>2. op \in AllRoutes /\ FirstStatement(op) = "authorize"
      BY DEF AllRoutes, FirstStatement
    <3> DEFINE q == In(Call(op, a), w)
    <3>3. /\ q \in Request /\ q.op = op /\ q.workspace = w /\ q.id = NoTodo
          /\ q.status = "none"
          /\ q.pc = IF w = NoWorkspace THEN "fallback" ELSE "authorize"
      BY <2>2, <3>2, CallFields
    <3>4. q.target = NoUser /\ q.rows = {}
      BY DEF In, Call, Idle
    <3> HIDE DEF q
    <3>5. q.op \in Routes /\ q.pc \in Statements
      BY <3>1, <3>3 DEF Start, q, Statements
    <3>6. Shaped(q) /\ Fresh(q)
      BY <3>3, <3>4, <3>5 DEF Shaped, Fresh, Authorized
    <3>7. QED BY <3>1, <3>3, <3>5, <3>6 DEF q
  <2>6. CASE ChangeShare(r, a)
    <3>1. PICK w \in Workspaces \cup {NoWorkspace}, u \in Users \cup {NoUser},
               op \in {"createShare", "deleteShare"} :
             Start(r, [In(Call(op, a), w) EXCEPT !.target = u])
      BY <2>6 DEF ChangeShare
    <3>2. op \in AllRoutes /\ FirstStatement(op) = "lookup"
      BY DEF AllRoutes, FirstStatement
    <3> DEFINE c == In(Call(op, a), w)
               q == [c EXCEPT !.target = u]
    <3>3. /\ c \in Request /\ c.op = op /\ c.workspace = w /\ c.id = NoTodo
          /\ c.status = "none"
          /\ c.pc = IF w = NoWorkspace THEN "fallback" ELSE "lookup"
      BY <2>2, <3>2, CallFields
    <3>4. c.rows = {}
      BY DEF In, Call, Idle
    <3> HIDE DEF c
    <3>5. /\ q \in Request /\ q.op = op /\ q.workspace = w /\ q.id = NoTodo
          /\ q.status = "none" /\ q.rows = {}
          /\ q.pc = IF w = NoWorkspace THEN "fallback" ELSE "lookup"
      BY <3>3, <3>4 DEF Request
    <3>6. Start(r, q)
      BY <3>1 DEF c
    <3> HIDE DEF q
    <3>7. q.op \in Routes /\ q.pc \in Statements
      BY <3>5, <3>6 DEF Start, Statements
    <3>8. Shaped(q) /\ Fresh(q)
      BY <3>5, <3>7 DEF Shaped, Fresh, Authorized
    <3>9. QED BY <3>5, <3>6, <3>7, <3>8
  <2>7. CASE UpdateTodo(r, a) \/ DeleteTodo(r, a)
    <3>1. PICK q \in Request :
            /\ Start(r, q)
            /\ q.op \in {"updateTodo", "deleteTodo"} /\ q.pc = "todoRow"
            /\ q.target = NoUser /\ q.status = "none" /\ q.rows = {}
      <4>1. CASE UpdateTodo(r, a)
        <5>1. PICK t \in Todos, b \in BOOLEAN :
                 Start(r, [Call("updateTodo", a) EXCEPT !.id = t, !.completed = b])
          BY <4>1 DEF UpdateTodo
        <5>2. LET q == [Call("updateTodo", a) EXCEPT !.id = t, !.completed = b] IN
              /\ q \in Request /\ q.op = "updateTodo" /\ q.pc = "todoRow"
              /\ q.target = NoUser /\ q.status = "none" /\ q.rows = {}
          BY <2>2 DEF Call, Idle, Request, FirstStatement, AllRoutes, Statements
        <5>3. QED BY <5>1, <5>2
      <4>2. CASE DeleteTodo(r, a)
        <5>1. PICK t \in Todos :
                 Start(r, [Call("deleteTodo", a) EXCEPT !.id = t])
          BY <4>2 DEF DeleteTodo
        <5>2. LET q == [Call("deleteTodo", a) EXCEPT !.id = t] IN
              /\ q \in Request /\ q.op = "deleteTodo" /\ q.pc = "todoRow"
              /\ q.target = NoUser /\ q.status = "none" /\ q.rows = {}
          BY <2>2 DEF Call, Idle, Request, FirstStatement, AllRoutes, Statements
        <5>3. QED BY <5>1, <5>2
      <4>3. QED BY <2>7, <4>1, <4>2
    <3>2. q.op \in Routes /\ q.pc \in Statements
      BY <3>1 DEF Start, Statements
    <3>3. Shaped(q) /\ Fresh(q)
      BY <3>1, <3>2 DEF Shaped, Fresh, Authorized
    <3>4. QED BY <3>1, <3>2, <3>3
  <2>8. QED BY <2>1, <2>3, <2>4, <2>5, <2>6, <2>7
<1>2. req' = [req EXCEPT ![r] = call] /\ UNCHANGED tables
  BY <1>1 DEF Start
<1>3. answers' = [answers EXCEPT ![r] = AnswerOf(call)] /\ req'[r] = call
  BY <1>1, <1>2, Seen DEF Alone
<1>4. AnswerOf(call) = Memory!NoAnswer
  BY <1>1, Unanswered DEF Shaped
<1>5. Memory!Forget(r)
  BY <1>2, <1>3, <1>4 DEF Memory!Forget, Memory!Same, tables
<1>6. Shaped(req[r])'
  BY <1>1, <1>3 DEF Shaped
<1>7. Fresh(req[r])'
  BY <1>1, <1>2, <1>3 DEF Fresh, Authorized, HasAccess, IsLive, tables
<1>8. QED BY <1>5, <1>6, <1>7 DEF Memory!Next

-----------------------------------------------------------------------------
(* Reading statements *)

\* The ways a request ends at a reading statement, as operations of memoryStore.
LEMMA RejectConforms ==
    ASSUME Alone, NEW r \in Requests, NEW status \in Statuses \ {"ok", "error"},
           Reject(r, status), Read(r)
    PROVE  Memory!Next /\ (Shaped(req[r]) /\ Fresh(req[r]))'
<1> DEFINE q == req[r]
<1>1. /\ q \in Request /\ Placed(q) /\ Grounded(q) /\ Shaped(q) /\ Fresh(q)
      /\ req \in [Requests -> Request]
  BY DEF Alone, Inv, TypeOK
<1>2. q.pc \in Statements
  BY DEF Read, Fallback, LookupForDelete, LookupForShare, LookupForUnshare,
         LookupForTodo, TodoWorkspace, AuthorizeWorkspace, UserExists, Statements
<1>3. Answer(r, status, {}) /\ Memory!Same /\ status \in Statuses \ {"error"}
  BY DEF Reject, Memory!Same, tables
<1>4. /\ q.op \in Routes /\ q.actor \in users
      /\ Memory!Reply(r, q.op, q.actor,
            IF q.op \in {"updateTodo", "deleteTodo"} THEN NoWorkspace ELSE q.workspace,
            q.target, q.id, status, {})
      /\ q.op \notin {"createShare", "deleteShare"} => q.target = NoUser
      /\ q.op \notin {"updateTodo", "deleteTodo"} => q.id = NoTodo
      /\ req'[r].pc = "done"
  BY <1>1, <1>2, <1>3, AnswerReplies
<1>5. (Shaped(req[r]) /\ Fresh(req[r]))'
  BY <1>4, AnsweredIsAlone
<1>6. q.target \in Users \cup {NoUser}
  BY <1>1 DEF Request
\* The record tells the status it was rejected with.
<1>7. \A s : Reject(r, s) => s = status
  <2> SUFFICES ASSUME NEW s, Reject(r, s) PROVE s = status
    OBVIOUS
  <2>1. req'[r] = [q EXCEPT !.pc = "done", !.status = s, !.rows = {}]
    BY <1>1 DEF Reject, Answer
  <2>2. req'[r] = [q EXCEPT !.pc = "done", !.status = status, !.rows = {}]
    BY <1>1 DEF Reject, Answer
  <2>3. QED BY <1>1, <2>1, <2>2 DEF Request
<1>8. CASE Fallback(r)
  <2>1. q.pc = "fallback" /\ FirstAccessible(q.actor) = {} /\ status = "denied"
    <3>1. CASE FirstAccessible(q.actor) = {} /\ Reject(r, "denied")
      BY <1>7, <1>8, <3>1 DEF Fallback
    <3>2. ASSUME NEW w \in FirstAccessible(q.actor),
                 q.pc = "fallback",
                 req' = [req EXCEPT ![r].workspace = w, ![r].pc = FirstStatement(q.op)]
          PROVE  FALSE
      <4>1. req'[r].pc = FirstStatement(q.op)
        BY <1>1, <3>2 DEF Request
      <4>2. FirstStatement(q.op) # "done"
        BY <1>1, <3>2 DEF Placed, FallbackRoutes, FirstStatement
      <4>3. QED BY <1>4, <4>1, <4>2
    <3>3. QED BY <1>8, <3>1, <3>2 DEF Fallback
  <2>2. q.workspace = NoWorkspace /\ q.op \in FallbackRoutes
    BY <1>1, <1>2, <2>1 DEF Shaped, Placed
  <2>3. NoWorkspace \in Memory!Resolve(q.actor, NoWorkspace)
    BY <2>1, SameQueries DEF Memory!Resolve, FirstAccessible
  <2>4. ~Memory!HasAccess(q.actor, NoWorkspace)
    BY DEF Memory!HasAccess, Memory!Exists
  <2>5. \/ Memory!ListWorkspaceShares(r, q.actor, NoWorkspace)
        \/ Memory!ListTodos(r, q.actor, NoWorkspace)
        \/ Memory!CreateTodo(r, q.actor, NoWorkspace)
        \/ Memory!CreateWorkspaceShare(r, q.actor, NoWorkspace, q.target)
        \/ Memory!DeleteWorkspaceShare(r, q.actor, NoWorkspace, q.target)
    BY <1>3, <1>4, <2>1, <2>2, <2>4
       DEF FallbackRoutes, Memory!ListWorkspaceShares, Memory!ListTodos, Memory!CreateTodo,
           Memory!CreateWorkspaceShare, Memory!DeleteWorkspaceShare
  <2>6. Memory!Next
    BY <1>4, <1>6, <2>3, <2>5 DEF Memory!Next
  <2>7. QED BY <1>5, <2>6
<1>9. CASE LookupForDelete(r)
  <2>1. /\ q.pc = "lookup" /\ q.op = "deleteWorkspace"
        /\ \/ ~IsLive(q.workspace) /\ status = "notFound"
           \/ IsLive(q.workspace) /\ owner[q.workspace] # q.actor /\ status = "denied"
    <3>1. ~Continue(r, "effect")
      BY <1>1, <1>4 DEF Continue, Request
    <3>2. QED BY <1>7, <1>9, <3>1 DEF LookupForDelete
  <2>2. q.workspace \in Workspaces
    BY <1>1, <2>1 DEF Placed
  <2>3. Memory!DeleteWorkspace(r, q.actor, q.workspace)
    BY <1>3, <1>4, <2>1, <2>2, SameQueries DEF Memory!DeleteWorkspace
  <2>4. QED BY <1>4, <1>5, <1>6, <2>2, <2>3, Served
<1>10. CASE LookupForShare(r)
  <2>1. /\ q.pc = "lookup" /\ q.op = "createShare"
        /\ \/ q.target = NoUser /\ status = "badRequest"
           \/ q.target # NoUser /\ ~IsLive(q.workspace) /\ status = "denied"
           \/ q.target # NoUser /\ owner[q.workspace] = q.target /\ status = "badRequest"
    <3>1. ~Continue(r, "authorize")
      BY <1>1, <1>4 DEF Continue, Request
    <3>2. QED BY <1>7, <1>10, <3>1 DEF LookupForShare
  <2>2. q.workspace \in Workspaces
    BY <1>1, <2>1 DEF Placed
  <2>3. Memory!CreateWorkspaceShare(r, q.actor, q.workspace, q.target)
    BY <1>3, <1>4, <2>1, <2>2, SameQueries DEF Memory!CreateWorkspaceShare, IsLive
  <2>4. QED BY <1>4, <1>5, <1>6, <2>2, <2>3, Served
<1>11. CASE LookupForUnshare(r)
  <2>1. /\ q.pc = "lookup" /\ q.op = "deleteShare"
        /\ \/ q.target = NoUser /\ status = "badRequest"
           \/ q.target # NoUser /\ ~IsLive(q.workspace) /\ status = "denied"
    <3>1. req' # [req EXCEPT ![r].pc = "authorize", ![r].seenOwner = owner[q.workspace]]
      BY <1>1, <1>4 DEF Request
    <3>2. QED BY <1>7, <1>11, <3>1 DEF LookupForUnshare
  <2>2. q.workspace \in Workspaces
    BY <1>1, <2>1 DEF Placed
  <2>3. Memory!DeleteWorkspaceShare(r, q.actor, q.workspace, q.target)
    BY <1>3, <1>4, <2>1, <2>2, SameQueries DEF Memory!DeleteWorkspaceShare, HasAccess
  <2>4. QED BY <1>4, <1>5, <1>6, <2>2, <2>3, Served
<1>12. CASE LookupForTodo(r)
  <2>1. q.pc = "lookup" /\ q.op = "createTodo" /\ ~IsLive(q.workspace)
    <3>1. req' # [req EXCEPT ![r].pc = "effect", ![r].seenOwner = owner[q.workspace]]
      BY <1>1, <1>4 DEF Request
    <3>2. QED BY <1>12, <3>1 DEF LookupForTodo
  <2>2. HasAccess(q.actor, q.workspace)
    BY <1>1, <2>1 DEF Fresh, Authorized
  <2>3. QED BY <2>1, <2>2 DEF HasAccess
<1>13. CASE TodoWorkspace(r)
  <2>1. q.pc = "todoRow" /\ todo[q.id] = NoTodo /\ status = "notFound"
    <3>1. req' # [req EXCEPT ![r].pc = "authorize", ![r].workspace = todo[q.id].workspace]
      BY <1>1, <1>4 DEF Request
    <3>2. QED BY <1>7, <1>13, <3>1 DEF TodoWorkspace
  <2>2. q.op \in {"updateTodo", "deleteTodo"} /\ q.id \in Todos /\ q.target = NoUser
    BY <1>1, <1>2, <2>1 DEF Placed, Shaped
  <2>3. Memory!UpdateTodo(r, q.actor, q.id) \/ Memory!DeleteTodo(r, q.actor, q.id)
    BY <1>3, <1>4, <2>1, <2>2 DEF Memory!UpdateTodo, Memory!DeleteTodo, Memory!OnTodo
  <2>4. QED BY <1>4, <1>5, <2>2, <2>3, ServedTodo
<1>14. CASE AuthorizeWorkspace(r)
  <2>1. /\ q.pc = "authorize"
        /\ \/ ~HasAccess(q.actor, q.workspace) /\ status = "denied"
           \/ /\ HasAccess(q.actor, q.workspace) /\ status = "badRequest"
              /\ q.op = "deleteShare" /\ q.target = q.seenOwner
    <3>1. ~Continue(r, AfterAuthorize(q.op))
      <4>1. AfterAuthorize(q.op) # "done"
        BY DEF AfterAuthorize
      <4>2. QED BY <1>1, <1>4, <4>1 DEF Continue, Request
    <3>2. QED BY <1>7, <1>14, <3>1 DEF AuthorizeWorkspace
  <2>2. q.workspace \in Workspaces /\ q.op \notin {"createWorkspace", "deleteWorkspace"}
    BY <1>1, <2>1 DEF Placed
  <2>3. CASE q.op \in {"listShares", "listTodos", "createTodo"}
    <3>1. \/ Memory!ListWorkspaceShares(r, q.actor, q.workspace)
          \/ Memory!ListTodos(r, q.actor, q.workspace)
          \/ Memory!CreateTodo(r, q.actor, q.workspace)
      BY <1>3, <1>4, <2>1, <2>3, SameQueries
         DEF Memory!ListWorkspaceShares, Memory!ListTodos, Memory!CreateTodo
    <3>2. QED BY <1>4, <1>5, <1>6, <2>2, <3>1, Served
  <2>4. CASE q.op = "createShare"
    <3>1. q.target # NoUser /\ IsLive(q.workspace) /\ owner[q.workspace] # q.target
      BY <1>1, <2>1, <2>4 DEF Grounded, Fresh
    <3>2. Memory!CreateWorkspaceShare(r, q.actor, q.workspace, q.target)
      BY <1>3, <1>4, <2>1, <2>2, <2>4, <3>1, SameQueries DEF Memory!CreateWorkspaceShare
    <3>3. QED BY <1>4, <1>5, <1>6, <2>2, <3>2, Served
  <2>5. CASE q.op = "deleteShare"
    <3>1. q.target # NoUser /\ q.seenOwner = owner[q.workspace]
      BY <1>1, <2>1, <2>5 DEF Placed, Fresh
    <3>2. Memory!DeleteWorkspaceShare(r, q.actor, q.workspace, q.target)
      BY <1>3, <1>4, <2>1, <2>2, <2>5, <3>1, SameQueries DEF Memory!DeleteWorkspaceShare
    <3>3. QED BY <1>4, <1>5, <1>6, <2>2, <3>2, Served
  <2>6. CASE q.op \in {"updateTodo", "deleteTodo"}
    <3>1. /\ q.id \in Todos /\ q.target = NoUser
          /\ todo[q.id] # NoTodo /\ q.workspace = todo[q.id].workspace
      BY <1>1, <1>2, <2>1, <2>6 DEF Grounded, Fresh, Shaped
    <3>2. Memory!UpdateTodo(r, q.actor, q.id) \/ Memory!DeleteTodo(r, q.actor, q.id)
      BY <1>3, <1>4, <2>1, <2>6, <3>1, SameQueries
         DEF Memory!UpdateTodo, Memory!DeleteTodo, Memory!OnTodo
    <3>3. QED BY <1>4, <1>5, <3>1, <3>2, ServedTodo
  <2>7. QED BY <1>1, <2>2, <2>3, <2>4, <2>5, <2>6 DEF Request, AllRoutes
<1>15. CASE UserExists(r)
  <2>1. q.pc = "userExists" /\ q.op = "createShare" /\ q.target \notin users
        /\ status = "notFound"
    <3>1. ~Continue(r, "effect")
      BY <1>1, <1>4 DEF Continue, Request
    <3>2. q.pc = "userExists" /\ q.op \in {"createWorkspace", "createShare"}
      BY <1>1, <1>15 DEF UserExists, Placed
    <3>3. q.op = "createShare"
      BY <1>4, <1>15, <3>1, <3>2 DEF UserExists
    <3>4. QED BY <1>7, <1>15, <3>1, <3>2, <3>3 DEF UserExists
  <2>2. /\ q.workspace \in Workspaces /\ HasAccess(q.actor, q.workspace)
        /\ q.target # NoUser /\ IsLive(q.workspace) /\ owner[q.workspace] # q.target
    BY <1>1, <2>1 DEF Placed, Grounded, Fresh, Authorized
  <2>3. Memory!CreateWorkspaceShare(r, q.actor, q.workspace, q.target)
    BY <1>3, <1>4, <2>1, <2>2, SameQueries DEF Memory!CreateWorkspaceShare
  <2>4. QED BY <1>4, <1>5, <1>6, <2>2, <2>3, Served
<1>16. QED BY <1>8, <1>9, <1>10, <1>11, <1>12, <1>13, <1>14, <1>15 DEF Read

LEMMA ReadConforms ==
    ASSUME Alone, NEW r \in Requests, Read(r)
    PROVE  /\ Memory!Next \/ UNCHANGED Memory!vars
           /\ (Shaped(req[r]) /\ Fresh(req[r]))'
<1> DEFINE q == req[r]
<1>1. /\ q \in Request /\ Placed(q) /\ Grounded(q) /\ Shaped(q) /\ Fresh(q)
      /\ req \in [Requests -> Request]
  BY DEF Alone, Inv, TypeOK
<1>2. q.pc \in Statements
  BY DEF Read, Fallback, LookupForDelete, LookupForShare, LookupForUnshare,
         LookupForTodo, TodoWorkspace, AuthorizeWorkspace, UserExists, Statements
<1>3. q.actor \in users /\ q.status = "none" /\ q.op \in Routes /\ q.rows = {}
  BY <1>1, <1>2 DEF Placed, Shaped
<1>4. SUFFICES ASSUME ~\E s \in {"badRequest", "denied", "notFound"} : Reject(r, s)
               PROVE  UNCHANGED Memory!vars /\ (Shaped(req[r]) /\ Fresh(req[r]))'
  <2>1. \A s \in {"badRequest", "denied", "notFound"} : s \in Statuses \ {"ok", "error"}
    BY DEF Statuses
  <2>2. QED BY <2>1, RejectConforms
<1>5. CASE Fallback(r)
  <2>1. PICK w \in FirstAccessible(q.actor) :
             /\ q.pc = "fallback"
             /\ req' = [req EXCEPT ![r].workspace = w, ![r].pc = FirstStatement(q.op)]
             /\ UNCHANGED tables
    BY <1>4, <1>5 DEF Fallback
  <2>2. w \in Workspaces
    BY <2>1 DEF FirstAccessible, OwnedBy, SharedWith
  <2>3. /\ FirstStatement(q.op) \in {"lookup", "authorize"}
        /\ q.op \in {"createShare", "deleteShare"} => FirstStatement(q.op) = "lookup"
        /\ q.op = "createTodo" => FirstStatement(q.op) = "authorize"
        /\ q.op \notin {"updateTodo", "deleteTodo"}
    BY <1>1, <2>1 DEF Placed, FallbackRoutes, FirstStatement
  <2> DEFINE n == [q EXCEPT !.workspace = w, !.pc = FirstStatement(q.op)]
  <2>4. req' = [req EXCEPT ![r] = n]
    BY <1>1, <2>1
  <2>5. /\ n \in Request /\ n.pc = FirstStatement(q.op) /\ n.pc \in Statements
        /\ n.op = q.op /\ n.target = q.target /\ n.id = q.id
        /\ n.status = q.status /\ n.rows = q.rows
    <3>1. FirstStatement(q.op) \in Statements
      BY <2>3 DEF Statements
    <3>2. QED BY <1>1, <2>2, <3>1 DEF Request
  <2> HIDE DEF n
  <2>6. Shaped(n) /\ Fresh(n)
    BY <1>1, <1>2, <2>3, <2>5 DEF Shaped, Fresh, Authorized
  <2>7. QED BY <1>2, <1>3, <2>1, <2>4, <2>5, <2>6, MoveUnseen
<1>6. CASE LookupForDelete(r) \/ LookupForShare(r) \/ AuthorizeWorkspace(r) \/ UserExists(r)
  <2>1. PICK pc \in {"lookup", "authorize", "userExists", "effect"} :
           /\ req' = [req EXCEPT ![r].pc = pc] /\ UNCHANGED tables
           /\ \/ /\ q.pc = "lookup" /\ q.op = "deleteWorkspace" /\ pc = "effect"
                 /\ owner[q.workspace] = q.actor
              \/ /\ q.pc = "lookup" /\ q.op = "createShare" /\ pc = "authorize"
                 /\ IsLive(q.workspace)
              \/ /\ q.pc = "authorize" /\ pc = AfterAuthorize(q.op)
                 /\ HasAccess(q.actor, q.workspace)
                 /\ ~(q.op = "deleteShare" /\ q.target = q.seenOwner)
              \/ q.pc = "userExists" /\ pc = "effect"
    <3>1. AfterAuthorize(q.op) \in {"lookup", "userExists", "effect"}
      BY DEF AfterAuthorize
    <3>2. CASE LookupForDelete(r)
      BY <1>4, <3>2 DEF LookupForDelete, Continue
    <3>3. CASE LookupForShare(r)
      BY <1>4, <3>3 DEF LookupForShare, Continue
    <3>4. CASE AuthorizeWorkspace(r)
      BY <1>4, <3>1, <3>4 DEF AuthorizeWorkspace, Continue
    <3>5. CASE UserExists(r)
      <4>1. q.op = "createWorkspace" \/ q.op = "createShare"
        BY <1>1, <3>5 DEF UserExists, Placed
      <4>2. QED BY <1>3, <1>4, <3>5, <4>1 DEF UserExists, Continue
    <3>6. QED BY <1>6, <3>2, <3>3, <3>4, <3>5
  <2> DEFINE n == [q EXCEPT !.pc = pc]
  <2>2. req' = [req EXCEPT ![r] = n]
    BY <1>1, <2>1
  <2>3. /\ n \in Request /\ n.pc = pc /\ n.pc \in Statements
        /\ n.op = q.op /\ n.target = q.target /\ n.id = q.id /\ n.actor = q.actor
        /\ n.status = q.status /\ n.rows = q.rows
        /\ n.workspace = q.workspace /\ n.seenOwner = q.seenOwner
    BY <1>1 DEF Request, Statements
  <2> HIDE DEF n
  <2>4. Shaped(n)
    BY <1>1, <1>2, <2>1, <2>3 DEF Shaped
  <2>5. Fresh(n)
    <3>1. CASE q.pc = "lookup" /\ q.op = "deleteWorkspace" /\ pc = "effect"
               /\ owner[q.workspace] = q.actor
      BY <2>3, <3>1 DEF Fresh, Authorized
    <3>2. CASE q.pc = "lookup" /\ q.op = "createShare" /\ pc = "authorize"
               /\ IsLive(q.workspace)
      BY <2>3, <3>2 DEF Fresh, Authorized
    <3>3. CASE /\ q.pc = "authorize" /\ pc = AfterAuthorize(q.op)
               /\ HasAccess(q.actor, q.workspace)
               /\ ~(q.op = "deleteShare" /\ q.target = q.seenOwner)
      <4>1. /\ q.op \notin {"createWorkspace", "deleteWorkspace"}
            /\ q.op = "createTodo" => pc = "lookup"
        BY <1>1, <3>3 DEF Placed, AfterAuthorize
      <4>2. QED BY <1>1, <2>3, <3>3, <4>1 DEF Fresh, HasAccess
    <3>4. CASE q.pc = "userExists" /\ pc = "effect"
      <4>1. q.op \in {"createWorkspace", "createShare"}
        BY <1>1, <3>4 DEF Placed
      <4>2. QED BY <1>1, <2>3, <3>4, <4>1 DEF Fresh, Authorized
    <3>5. QED BY <2>1, <3>1, <3>2, <3>3, <3>4
  <2>6. QED BY <1>2, <1>3, <2>1, <2>2, <2>3, <2>4, <2>5, MoveUnseen
<1>7. CASE LookupForUnshare(r) \/ LookupForTodo(r)
  <2>1. PICK pc \in {"effect", "authorize"} :
           /\ req' = [req EXCEPT ![r].pc = pc, ![r].seenOwner = owner[q.workspace]]
           /\ UNCHANGED tables
           /\ IsLive(q.workspace) /\ q.pc = "lookup"
           /\ \/ q.op = "deleteShare" /\ pc = "authorize"
              \/ q.op = "createTodo" /\ pc = "effect"
    BY <1>4, <1>7 DEF LookupForUnshare, LookupForTodo
  <2>2. owner[q.workspace] \in Users \cup {NoUser}
    BY <1>1, <2>1 DEF Placed, Alone, Inv, TypeOK
  <2> DEFINE n == [q EXCEPT !.pc = pc, !.seenOwner = owner[q.workspace]]
  <2>3. req' = [req EXCEPT ![r] = n]
    BY <1>1, <2>1
  <2>4. /\ n \in Request /\ n.pc = pc /\ n.pc \in Statements
        /\ n.op = q.op /\ n.target = q.target /\ n.id = q.id /\ n.actor = q.actor
        /\ n.status = q.status /\ n.rows = q.rows
        /\ n.workspace = q.workspace /\ n.seenOwner = owner[q.workspace]
    <3>1. pc \in Statements
      BY DEF Statements
    <3>2. QED BY <1>1, <2>2, <3>1 DEF Request
  <2> HIDE DEF n
  <2>5. Shaped(n)
    BY <1>1, <1>2, <2>1, <2>4 DEF Shaped
  <2>6. Fresh(n)
    BY <1>1, <2>1, <2>4 DEF Fresh, Authorized
  <2>7. QED BY <1>2, <1>3, <2>1, <2>3, <2>4, <2>5, <2>6, MoveUnseen
<1>8. CASE TodoWorkspace(r)
  <2>1. /\ q.pc = "todoRow" /\ todo[q.id] # NoTodo
        /\ req' = [req EXCEPT ![r].pc = "authorize", ![r].workspace = todo[q.id].workspace]
        /\ UNCHANGED tables
    BY <1>4, <1>8 DEF TodoWorkspace
  <2>2. q.op \in {"updateTodo", "deleteTodo"} /\ todo[q.id].workspace \in Workspaces
    BY <1>1, <2>1 DEF Placed, Alone, Inv, TypeOK, TodoRow
  <2> DEFINE n == [q EXCEPT !.pc = "authorize", !.workspace = todo[q.id].workspace]
  <2>3. req' = [req EXCEPT ![r] = n]
    BY <1>1, <2>1
  <2>4. /\ n \in Request /\ n.pc = "authorize" /\ n.pc \in Statements
        /\ n.op = q.op /\ n.target = q.target /\ n.id = q.id
        /\ n.status = q.status /\ n.rows = q.rows
        /\ n.workspace = todo[q.id].workspace
    <3> DEFINE w == todo[q.id].workspace
    <3>1. w \in Workspaces
      BY <2>2
    <3> HIDE DEF w
    <3>2. n = [q EXCEPT !.pc = "authorize", !.workspace = w]
      BY DEF w
    <3>3. "authorize" \in Statements
      BY DEF Statements
    <3> HIDE DEF n
    <3>4. n \in Request
      BY <1>1, <3>1, <3>2, <3>3 DEF Request
    <3>5. /\ n.pc = "authorize" /\ n.op = q.op /\ n.target = q.target /\ n.id = q.id
          /\ n.status = q.status /\ n.rows = q.rows /\ n.workspace = w
      BY <1>1, <3>2 DEF Request
    <3>6. QED BY <3>3, <3>4, <3>5 DEF w
  <2> HIDE DEF n
  <2>5. Shaped(n) /\ Fresh(n)
    BY <1>1, <1>2, <2>1, <2>2, <2>4 DEF Shaped, Fresh, Authorized
  <2>6. QED BY <1>2, <1>3, <2>1, <2>3, <2>4, <2>5, MoveUnseen
<1>9. QED BY <1>5, <1>6, <1>7, <1>8 DEF Read

-----------------------------------------------------------------------------
(* Final statements *)

LEMMA SelectConforms ==
    ASSUME Alone, NEW r \in Requests, SelectShares(r) \/ SelectTodos(r)
    PROVE  Memory!Next /\ (Shaped(req[r]) /\ Fresh(req[r]))'
<1> DEFINE q == req[r]
<1>1. /\ q \in Request /\ Placed(q) /\ Grounded(q) /\ Shaped(q) /\ Fresh(q)
      /\ req \in [Requests -> Request]
  BY DEF Alone, Inv, TypeOK
<1>2. /\ q.pc \in Statements /\ q.workspace \in Workspaces
      /\ HasAccess(q.actor, q.workspace) /\ UNCHANGED tables
  BY <1>1 DEF SelectShares, SelectTodos, Statements, Placed, Fresh, Authorized
<1>3. "ok" \in Statuses \ {"error"} /\ Memory!Same
  BY <1>2 DEF Statuses, Memory!Same, tables
<1>4. CASE SelectShares(r)
  <2>1. members[q.workspace] \in SUBSET (Users \cup Todos)
    BY <1>2 DEF Alone, Inv, TypeOK
  <2>2. q.op = "listShares" /\ Answer(r, "ok", members[q.workspace])
    BY <1>4 DEF SelectShares
  <2>3. /\ q.actor \in users /\ req'[r].pc = "done"
        /\ Memory!Reply(r, "listShares", q.actor, q.workspace, NoUser, NoTodo, "ok",
                        members[q.workspace])
    BY <1>2, <1>3, <2>1, <2>2, AnswerReplies
  <2>4. Memory!ListWorkspaceShares(r, q.actor, q.workspace)
    BY <1>2, <1>3, <2>3, SameQueries DEF Memory!ListWorkspaceShares
  <2>5. QED BY <1>2, <2>3, <2>4, Served, AnsweredIsAlone
<1>5. CASE SelectTodos(r)
  <2>1. TodosOf(q.workspace) \in SUBSET (Users \cup Todos)
    BY DEF TodosOf
  <2>2. q.op = "listTodos" /\ Answer(r, "ok", TodosOf(q.workspace))
    BY <1>5 DEF SelectTodos
  <2>3. /\ q.actor \in users /\ req'[r].pc = "done"
        /\ Memory!Reply(r, "listTodos", q.actor, q.workspace, NoUser, NoTodo, "ok",
                        TodosOf(q.workspace))
    BY <1>2, <1>3, <2>1, <2>2, AnswerReplies
  <2>4. Memory!ListTodos(r, q.actor, q.workspace)
    BY <1>2, <1>3, <2>3, SameQueries DEF Memory!ListTodos
  <2>5. QED BY <1>2, <2>3, <2>4, Served, AnsweredIsAlone
<1>6. QED BY <1>4, <1>5

LEMMA RemoveWorkspaceConforms ==
    ASSUME Alone, NEW r \in Requests, RemoveWorkspace(r)
    PROVE  Memory!Next /\ (Shaped(req[r]) /\ Fresh(req[r]))'
<1> DEFINE q == req[r]
<1>1. /\ q \in Request /\ Placed(q) /\ Grounded(q) /\ Shaped(q) /\ Fresh(q)
      /\ req \in [Requests -> Request]
  BY DEF Alone, Inv, TypeOK
<1>2. /\ q.pc \in Statements /\ q.op = "deleteWorkspace" /\ q.workspace \in Workspaces
      /\ owner[q.workspace] = q.actor /\ q.actor \in Users
  BY <1>1 DEF RemoveWorkspace, Statements, Placed, Fresh, Alone, Inv, TypeOK
<1>3. Answer(r, "ok", {}) /\ CascadeDelete(q.workspace)
  BY <1>2 DEF RemoveWorkspace, IsLive
<1>4. "ok" \in Statuses \ {"error"}
  BY DEF Statuses
<1>5. /\ q.actor \in users /\ req'[r].pc = "done"
      /\ Memory!Reply(r, "deleteWorkspace", q.actor, q.workspace, NoUser, NoTodo, "ok", {})
  BY <1>2, <1>3, <1>4, AnswerReplies
<1>6. Memory!DeleteWorkspace(r, q.actor, q.workspace)
  BY <1>2, <1>3, <1>5, SameQueries DEF Memory!DeleteWorkspace, CascadeDelete
<1>7. QED BY <1>2, <1>5, <1>6, Served, AnsweredIsAlone

LEMMA InsertShareConforms ==
    ASSUME Alone, NEW r \in Requests, InsertShare(r)
    PROVE  Memory!Next /\ (Shaped(req[r]) /\ Fresh(req[r]))'
<1> DEFINE q == req[r]
<1>1. /\ q \in Request /\ Placed(q) /\ Grounded(q) /\ Shaped(q) /\ Fresh(q)
      /\ req \in [Requests -> Request]
  BY DEF Alone, Inv, TypeOK
<1>2. /\ q.pc \in Statements /\ q.op = "createShare" /\ q.workspace \in Workspaces
      /\ HasAccess(q.actor, q.workspace) /\ IsLive(q.workspace)
      /\ q.target \in users /\ q.target \in Users /\ owner[q.workspace] # q.target
  BY <1>1 DEF InsertShare, Statements, Placed, Grounded, Fresh, Authorized
<1>3. Answer(r, "ok", {})
  BY <1>2 DEF InsertShare
<1>4. "ok" \in Statuses \ {"error"}
  BY DEF Statuses
<1>5. /\ q.actor \in users /\ req'[r].pc = "done"
      /\ Memory!Reply(r, "createShare", q.actor, q.workspace, q.target, NoTodo, "ok", {})
  BY <1>2, <1>3, <1>4, AnswerReplies
<1>6. Memory!CreateWorkspaceShare(r, q.actor, q.workspace, q.target)
  BY <1>2, <1>5, SameQueries DEF Memory!CreateWorkspaceShare, InsertShare
<1>7. QED BY <1>2, <1>5, <1>6, Served, AnsweredIsAlone

LEMMA RemoveShareConforms ==
    ASSUME Alone, NEW r \in Requests, RemoveShare(r)
    PROVE  Memory!Next /\ (Shaped(req[r]) /\ Fresh(req[r]))'
<1> DEFINE q == req[r]
<1>1. /\ q \in Request /\ Placed(q) /\ Grounded(q) /\ Shaped(q) /\ Fresh(q)
      /\ req \in [Requests -> Request]
  BY DEF Alone, Inv, TypeOK
<1>2. /\ q.pc \in Statements /\ q.op = "deleteShare" /\ q.workspace \in Workspaces
      /\ HasAccess(q.actor, q.workspace)
      /\ q.target \in Users /\ owner[q.workspace] # q.target
  BY <1>1 DEF RemoveShare, Statements, Placed, Fresh, Authorized
<1>3. Answer(r, "ok", {})
  BY DEF RemoveShare
<1>4. "ok" \in Statuses \ {"error"}
  BY DEF Statuses
<1>5. /\ q.actor \in users /\ req'[r].pc = "done"
      /\ Memory!Reply(r, "deleteShare", q.actor, q.workspace, q.target, NoTodo, "ok", {})
  BY <1>2, <1>3, <1>4, AnswerReplies
<1>6. Memory!DeleteWorkspaceShare(r, q.actor, q.workspace, q.target)
  BY <1>2, <1>5, SameQueries DEF Memory!DeleteWorkspaceShare, RemoveShare
<1>7. QED BY <1>2, <1>5, <1>6, Served, AnsweredIsAlone

LEMMA ChangeTodoConforms ==
    ASSUME Alone, NEW r \in Requests, ChangeTodo(r) \/ RemoveTodo(r)
    PROVE  Memory!Next /\ (Shaped(req[r]) /\ Fresh(req[r]))'
<1> DEFINE q == req[r]
<1>1. /\ q \in Request /\ Placed(q) /\ Grounded(q) /\ Shaped(q) /\ Fresh(q)
      /\ req \in [Requests -> Request]
  BY DEF Alone, Inv, TypeOK
<1>2. /\ q.pc \in Statements /\ q.op \in {"updateTodo", "deleteTodo"}
      /\ q.id \in Todos /\ q.target = NoUser
      /\ todo[q.id] # NoTodo /\ HasAccess(q.actor, todo[q.id].workspace)
  BY <1>1 DEF ChangeTodo, RemoveTodo, Statements, Grounded, Shaped, Fresh, Authorized
<1>3. Answer(r, "ok", {}) /\ UNCHANGED <<users, owner, members, born>>
  BY <1>2 DEF ChangeTodo, RemoveTodo
<1>4. "ok" \in Statuses \ {"error"}
  BY DEF Statuses
<1>5. /\ q.actor \in users /\ req'[r].pc = "done"
      /\ Memory!Reply(r, q.op, q.actor, NoWorkspace, NoUser, q.id, "ok", {})
  BY <1>2, <1>3, <1>4, AnswerReplies
<1>6. Memory!UpdateTodo(r, q.actor, q.id) \/ Memory!DeleteTodo(r, q.actor, q.id)
  <2>1. CASE ChangeTodo(r)
    <3>1. /\ q.op = "updateTodo" /\ q.completed \in BOOLEAN
          /\ todo' = [todo EXCEPT ![q.id] = [todo[q.id] EXCEPT !.completed = q.completed]]
      BY <1>1, <1>2, <2>1 DEF ChangeTodo, Request, Alone, Inv, TypeOK
    <3>2. Memory!UpdateTodo(r, q.actor, q.id)
      BY <1>2, <1>3, <1>5, <3>1, SameQueries DEF Memory!UpdateTodo, Memory!OnTodo
    <3>3. QED BY <3>2
  <2>2. CASE RemoveTodo(r)
    <3>1. q.op = "deleteTodo" /\ todo' = [todo EXCEPT ![q.id] = NoTodo]
      BY <1>2, <2>2 DEF RemoveTodo
    <3>2. Memory!DeleteTodo(r, q.actor, q.id)
      BY <1>2, <1>3, <1>5, <3>1, SameQueries DEF Memory!DeleteTodo, Memory!OnTodo
    <3>3. QED BY <3>2
  <2>3. QED BY <2>1, <2>2
<1>7. QED BY <1>2, <1>5, <1>6, ServedTodo, AnsweredIsAlone

\* The statements that generate an id put it into the answer.
LEMMA InsertConforms ==
    ASSUME Alone, NEW r \in Requests, InsertWorkspace(r) \/ InsertTodo(r)
    PROVE  Memory!Next /\ (Shaped(req[r]) /\ Fresh(req[r]))'
<1> DEFINE q == req[r]
<1>1. /\ q \in Request /\ Placed(q) /\ Grounded(q) /\ Shaped(q) /\ Fresh(q)
      /\ req \in [Requests -> Request]
  BY DEF Alone, Inv, TypeOK
<1>2. /\ q.pc \in Statements /\ q.actor \in users /\ q.op \in Routes
      /\ q.target = NoUser /\ q.rows = {} /\ answers[r] = Memory!NoAnswer
  <2>1. q.pc = "effect" /\ q.op \in {"createWorkspace", "createTodo"}
    BY DEF InsertWorkspace, InsertTodo
  <2>2. answers[r] = AnswerOf(q)
    BY DEF answers
  <2>3. q.pc \in Statements /\ q.status = "none"
    BY <1>1, <2>1 DEF Statements, Shaped
  <2>4. QED BY <1>1, <2>1, <2>2, <2>3, Unanswered DEF Placed, Shaped
<1>3. "ok" \in Statuses /\ Inv
  BY DEF Statuses, Alone
<1>4. CASE InsertWorkspace(r)
  <2>1. PICK w \in Workspaces \ born :
          /\ owner' = [owner EXCEPT ![w] = q.actor] /\ born' = born \cup {w}
          /\ req' = [req EXCEPT ![r].pc = "done", ![r].status = "ok", ![r].workspace = w]
          /\ UNCHANGED <<users, members, todo>> /\ q.op = "createWorkspace"
    BY <1>4 DEF InsertWorkspace
  <2> DEFINE n == [q EXCEPT !.pc = "done", !.status = "ok", !.workspace = w]
  <2>2. req' = [req EXCEPT ![r] = n]
    BY <1>1, <2>1
  <2>3. /\ n \in Request /\ n.pc = "done" /\ n.status = "ok" /\ n.workspace = w
        /\ n.op = q.op /\ n.actor = q.actor /\ n.target = q.target
        /\ n.id = q.id /\ n.rows = q.rows
    BY <1>1, <1>3 DEF Request
  <2> HIDE DEF n
  <2>4. answers' = [answers EXCEPT ![r] = AnswerOf(n)] /\ req'[r] = n
    <3>1. n \in Request
      BY <2>3
    <3>2. Inv
      BY <1>3
    <3>3. QED BY <2>2, <3>1, <3>2, Seen
  <2>5. q.id = NoTodo
    BY <1>1, <1>2, <2>1 DEF Shaped
  <2>6. AnswerOf(n) = [op |-> "createWorkspace", actor |-> q.actor, workspace |-> w,
                       target |-> NoUser, id |-> NoTodo, status |-> "ok", rows |-> {}]
    BY <1>2, <2>1, <2>3, <2>5 DEF AnswerOf
  <2>7. Memory!CreateWorkspace(r, q.actor)
    BY <1>2, <2>1, <2>4, <2>6 DEF Memory!CreateWorkspace, Memory!Reply
  <2>8. Memory!Next
    BY <1>2, <2>7 DEF Memory!Next
  <2>9. QED BY <2>3, <2>4, <2>8, AnsweredIsAlone
<1>5. CASE InsertTodo(r)
  <2>1. /\ q.pc = "effect" /\ q.op = "createTodo" /\ q.workspace \in Workspaces
        /\ HasAccess(q.actor, q.workspace) /\ q.seenOwner = owner[q.workspace]
    BY <1>1, <1>5 DEF InsertTodo, Placed, Fresh, Authorized
  <2>2. PutTodo(r)
    BY <1>5, <2>1 DEF InsertTodo, HasAccess
  <2>3. PICK t \in Todos \ born :
          /\ todo' = [todo EXCEPT ![t] = NewTodo(q)] /\ born' = born \cup {t}
          /\ req' = [req EXCEPT ![r].pc = "done", ![r].status = "ok", ![r].id = t]
          /\ UNCHANGED <<users, owner, members>>
    BY <2>2 DEF PutTodo
  <2> DEFINE n == [q EXCEPT !.pc = "done", !.status = "ok", !.id = t]
  <2>4. req' = [req EXCEPT ![r] = n]
    BY <1>1, <2>3
  <2>5. /\ n \in Request /\ n.pc = "done" /\ n.status = "ok" /\ n.id = t
        /\ n.op = q.op /\ n.actor = q.actor /\ n.target = q.target
        /\ n.workspace = q.workspace /\ n.rows = q.rows
    BY <1>1, <1>3 DEF Request
  <2> HIDE DEF n
  <2>6. answers' = [answers EXCEPT ![r] = AnswerOf(n)] /\ req'[r] = n
    <3>1. n \in Request
      BY <2>5
    <3>2. Inv
      BY <1>3
    <3>3. QED BY <2>4, <3>1, <3>2, Seen
  <2>7. AnswerOf(n) = [op |-> "createTodo", actor |-> q.actor, workspace |-> q.workspace,
                       target |-> NoUser, id |-> t, status |-> "ok", rows |-> {}]
    BY <1>2, <2>1, <2>5 DEF AnswerOf
  <2>8. Memory!CreateTodo(r, q.actor, q.workspace)
    BY <1>2, <2>1, <2>3, <2>6, <2>7, SameQueries
       DEF Memory!CreateTodo, Memory!Reply, NewTodo
  <2>9. QED BY <1>2, <2>1, <2>5, <2>6, <2>8, Served, AnsweredIsAlone
<1>6. QED BY <1>4, <1>5

LEMMA EffectConforms ==
    ASSUME Alone, NEW r \in Requests, Effect(r)
    PROVE  Memory!Next /\ (Shaped(req[r]) /\ Fresh(req[r]))'
<1>1. CASE InsertWorkspace(r) \/ InsertTodo(r)
  BY <1>1, InsertConforms
<1>2. CASE RemoveWorkspace(r)
  BY <1>2, RemoveWorkspaceConforms
<1>3. CASE SelectShares(r) \/ SelectTodos(r)
  BY <1>3, SelectConforms
<1>4. CASE InsertShare(r)
  BY <1>4, InsertShareConforms
<1>5. CASE RemoveShare(r)
  BY <1>5, RemoveShareConforms
<1>6. CASE ChangeTodo(r) \/ RemoveTodo(r)
  BY <1>6, ChangeTodoConforms
<1>7. QED BY <1>1, <1>2, <1>3, <1>4, <1>5, <1>6 DEF Effect

LEMMA InterruptConforms ==
    ASSUME Alone, NEW r \in Requests, Interrupt(r)
    PROVE  Memory!Next /\ (Shaped(req[r]) /\ Fresh(req[r]))'
<1> DEFINE n == [Idle EXCEPT !.pc = "done", !.status = "error"]
<1>1. n \in Request /\ n.pc = "done" /\ n.status = "error"
  BY DEF Idle, Request, AllRoutes, Statuses
<1>2. req' = [req EXCEPT ![r] = n] /\ UNCHANGED tables /\ req[r].pc \in Statements
  BY DEF Interrupt
<1> HIDE DEF n
<1>3. QED BY <1>1, <1>2, ErrorCancels, AnsweredIsAlone

\* A new account changes no workspace a request knows.
LEMMA ProvisionConforms ==
    ASSUME Alone, NEW u \in Users, ProvisionUser(u)
    PROVE  Memory!Next /\ \A r \in Requests : (Shaped(req[r]) /\ Fresh(req[r]))'
<1>1. PICK w \in Workspaces \ born :
        /\ u \notin users /\ users' = users \cup {u}
        /\ owner' = [owner EXCEPT ![w] = u] /\ born' = born \cup {w}
        /\ UNCHANGED <<members, todo, req>>
  BY DEF ProvisionUser
<1>2. owner[w] = NoUser /\ owner \in [Workspaces -> Users \cup {NoUser}]
  BY <1>1 DEF Alone, Inv, RowsReferToRows, IsLive, TypeOK
<1>3. answers' = answers
  BY <1>1 DEF answers, AnswerOf
<1>4. Memory!AddUser(u)
  BY <1>1, <1>3 DEF Memory!AddUser
<1>5. ASSUME NEW r \in Requests
      PROVE  (Shaped(req[r]) /\ Fresh(req[r]))'
  <2>1. /\ Shaped(req[r]) /\ Fresh(req[r]) /\ Placed(req[r])
        /\ req[r] \in Request /\ req'[r] = req[r]
    BY <1>1 DEF Alone, Inv, TypeOK
  <2>2. \A v \in Workspaces : owner[v] # NoUser => owner'[v] = owner[v]
    BY <1>1, <1>2
  <2>3. Shaped(req[r])'
    BY <2>1 DEF Shaped
  <2>4. req[r].pc \in Statements => req[r].actor \in Users
    BY <2>1 DEF Placed, Alone, Inv, TypeOK
  <2>5. Fresh(req[r])'
    BY <1>1, <2>1, <2>2, <2>4 DEF Fresh, Authorized, HasAccess, IsLive, Placed, Statements
  <2>6. QED BY <2>3, <2>5
<1>6. QED BY <1>4, <1>5 DEF Memory!Next

-----------------------------------------------------------------------------
LEMMA InitConforms ==
    ASSUME Init
    PROVE  Memory!Init /\ Alone
<1>1. Inv
  BY InitHolds
<1>2. \A r \in Requests : AnswerOf(req[r]) = Memory!NoAnswer /\ req[r].pc = "idle"
  BY DEF Init, Idle, AnswerOf, Memory!NoAnswer
<1>3. answers = [r \in Requests |-> Memory!NoAnswer]
  BY <1>2 DEF answers
<1>4. \A r \in Requests : Shaped(req[r]) /\ Fresh(req[r])
  BY <1>2 DEF Shaped, Fresh, Authorized, Statements
<1>5. QED BY <1>1, <1>3, <1>4 DEF Init, Memory!Init, Alone

LEMMA NextConforms ==
    ASSUME OneSlot, Alone, [Next]_vars
    PROVE  [Memory!Next]_(Memory!vars) /\ Alone'
<1>1. Inv'
  BY NextKeeps DEF Alone
<1>2. CASE \E u \in Users : ProvisionUser(u)
  BY <1>1, <1>2, ProvisionConforms DEF Alone
<1>3. ASSUME NEW r \in Requests, Arrive(r) \/ Read(r) \/ Effect(r) \/ Interrupt(r)
      PROVE  [Memory!Next]_(Memory!vars) /\ Alone'
  <2>1. /\ Memory!Next \/ UNCHANGED Memory!vars
        /\ (Shaped(req[r]) /\ Fresh(req[r]))'
    BY <1>3, ArriveForgets, ReadConforms, EffectConforms, InterruptConforms
  <2>2. \A s \in Requests : s = r
    BY DEF OneSlot
  <2>3. QED BY <1>1, <2>1, <2>2 DEF Alone
<1>4. CASE UNCHANGED vars
  <2>1. UNCHANGED Memory!vars
    BY <1>4 DEF vars, Memory!vars, answers, AnswerOf
  <2>2. \A r \in Requests : (Shaped(req[r]) /\ Fresh(req[r]))'
    BY <1>4 DEF vars, Alone, Shaped, Fresh, Authorized, HasAccess, IsLive
  <2>3. QED BY <1>1, <2>1, <2>2 DEF Alone
<1>5. QED BY <1>2, <1>3, <1>4 DEF Next

\* Requests that do not overlap are answered by PostgresStore as by memoryStore: the
\* statements of each method amount to its one step, with the same status and rows
\* and the same tables after it.
THEOREM Conforms == OneSlot => (Spec => ConformsToMemory)
<1> SUFFICES ASSUME OneSlot PROVE Spec => ConformsToMemory
  OBVIOUS
<1>1. Init => Memory!Init /\ Alone
  BY InitConforms
<1>2. Alone /\ [Next]_vars => [Memory!Next]_(Memory!vars) /\ Alone'
  BY NextConforms
<1>3. QED BY <1>1, <1>2, PTL DEF Spec, ConformsToMemory, Memory!Spec

=============================================================================
