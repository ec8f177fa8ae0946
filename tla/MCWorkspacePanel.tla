-------------------------- MODULE MCWorkspacePanel --------------------------
(* Instances of WorkspacePanel for TLC.                                     *)
EXTENDS WorkspacePanel, TLC

Symmetry == Permutations(Workspaces) \cup Permutations(Keys)

=============================================================================
