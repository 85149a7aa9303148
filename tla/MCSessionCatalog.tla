-------------------------- MODULE MCSessionCatalog --------------------------
(***************************************************************************)
(* SessionCatalog for TLC.  The liveness run rules out symmetry.           *)
(***************************************************************************)
EXTENDS SessionCatalog

=============================================================================
