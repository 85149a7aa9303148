------------------------- MODULE MCAgentPermissions -------------------------
(***************************************************************************)
(* AgentPermissions for TLC.  Clients are interchangeable.                 *)
(***************************************************************************)
EXTENDS AgentPermissions, TLC

Symmetry == Permutations(Clients)

=============================================================================
