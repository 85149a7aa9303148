-------------------------- MODULE MCChatProjection --------------------------
(***************************************************************************)
(* ChatProjection for TLC.  Turns, chunks and tool calls are numbered in   *)
(* order, so there is nothing to permute.                                  *)
(***************************************************************************)
EXTENDS ChatProjection

=============================================================================
