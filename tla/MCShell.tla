------------------------------ MODULE MCShell ------------------------------
(* Instances of Shell for TLC.                                              *)
EXTENDS Shell, TLC

Symmetry == Permutations(Workspaces)

=============================================================================
