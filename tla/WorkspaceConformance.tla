------------------------ MODULE WorkspaceConformance ------------------------
(***************************************************************************)
(* PostgresStore against the in-memory store the handler tests use.        *)
(***************************************************************************)
EXTENDS WorkspaceService

\* How a served request reads as an operation of memoryStore.  A todo route
\* names no workspace: it finds it in the todo's row.
AnswerOf(q) ==
    IF q.pc # "done" \/ q.status = "error"
    THEN [status |-> q.status]
    ELSE [op |-> q.op, actor |-> q.actor,
          workspace |-> IF q.op \in {"updateTodo", "deleteTodo"}
                        THEN NoWorkspace ELSE q.workspace,
          target |-> q.target, id |-> q.id,
          status |-> q.status, rows |-> q.rows]

answers == [r \in Requests |-> AnswerOf(req[r])]

Memory == INSTANCE MemoryWorkspaces WITH answer <- answers

\* Served one request at a time (a single slot), the statements of each
\* PostgresStore method amount to the single step memoryStore takes, with the
\* same answer, the same rows and the same tables after it: what the handler
\* tests establish on memoryStore carries over to PostgresStore.
ConformsToMemory == Memory!Spec

=============================================================================
