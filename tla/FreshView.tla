------------------------------ MODULE FreshView ------------------------------
(***************************************************************************)
(* What a loader of the workbench promises its view: the list on screen is *)
(* replaced only by an answer to the newest request, so it never goes back *)
(* in time and an answer always includes everything that had happened when *)
(* that request was sent.  The list is abstracted to its revision: the     *)
(* number of changes the server has made to it.                            *)
(*                                                                         *)
(* The module abstracts from generations, promises and transports; the     *)
(* loaders of WorkbenchManagement and WorkbenchSessionList implement it.   *)
(***************************************************************************)
EXTENDS Naturals

VARIABLES
    source,   \* the revision of the list at the server
    floor,    \* the revision the newest unanswered request must return at
              \* least; the revision on screen when nothing is asked
    shown     \* the revision on screen

vars == <<source, floor, shown>>

TypeOK == source \in Nat /\ floor \in Nat /\ shown \in Nat

Init ==
    /\ source \in Nat
    /\ shown \in 0..source
    /\ floor \in {shown, source}

\* Somebody changes the list.
Change ==
    /\ source' = source + 1
    /\ UNCHANGED <<floor, shown>>

\* The view asks anew: answers to older requests no longer count.
Ask ==
    /\ floor' = source
    /\ UNCHANGED <<source, shown>>

\* The newest request is answered.
Show ==
    /\ shown' \in floor..source
    /\ floor' = shown'
    /\ UNCHANGED source

\* The newest request fails, and the list on screen stays.
GiveUp ==
    /\ floor' = shown
    /\ UNCHANGED <<source, shown>>

Next == Change \/ Ask \/ Show \/ GiveUp

Spec == Init /\ [][Next]_vars

----------------------------------------------------------------------------

(* The screen is never ahead of the server nor behind what was asked. *)
Bracketed == shown <= floor /\ floor <= source

(* The list on screen never goes back to an older revision. *)
NeverBack == [][shown' >= shown]_shown

==============================================================================
