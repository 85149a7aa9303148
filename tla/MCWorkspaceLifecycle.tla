----------------------- MODULE MCWorkspaceLifecycle -----------------------
(***************************************************************************)
(* WorkspaceLifecycle for TLC: small sets of model values, interchangeable *)
(* workspaces, workers and handlers.                                       *)
(***************************************************************************)
EXTENDS WorkspaceLifecycle, TLC

Symmetry == Permutations(Workspaces) \cup Permutations(Workers)
                \cup Permutations(Handlers)

=============================================================================
