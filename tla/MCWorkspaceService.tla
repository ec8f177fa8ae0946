------------------------- MODULE MCWorkspaceService -------------------------
(* Instances of WorkspaceService for TLC.                                   *)
EXTENDS WorkspaceConformance, TLC

\* The routes that race: they add or take what another has just read.
RaceRoutes == {"createShare", "deleteShare", "createTodo", "deleteTodo",
               "deleteWorkspace"}

\* Emails, UUIDs and requests are told apart only by equality.
Symmetry == Permutations(Users) \cup Permutations(Workspaces)
            \cup Permutations(Todos) \cup Permutations(Requests)

=============================================================================
