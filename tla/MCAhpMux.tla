------------------------------ MODULE MCAhpMux ------------------------------
(***************************************************************************)
(* AhpMux for TLC.  Stream numbers are drawn in order, so there is nothing *)
(* to permute.                                                             *)
(***************************************************************************)
EXTENDS AhpMux

=============================================================================
