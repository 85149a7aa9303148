----------------------- MODULE MCWorkbenchManagement -----------------------
(***************************************************************************)
(* The settings window with two items per list.  A behaviour begins at     *)
(* the start of the workbench, with nothing configured yet, or with the    *)
(* window open on one of its pages and its lists loaded, which saves the   *)
(* clicks that lead there.                                                 *)
(***************************************************************************)
EXTENDS WorkbenchManagement

Settled ==
    /\ open = TRUE /\ viewID \in Pages
    /\ sheet = NoItem /\ editing = NothingEdited /\ dirty = FALSE
    /\ pendingID = [k \in {"template", "credential", "workspace"} |-> NoItem]
    /\ screen = Blank
    /\ logs = [content |-> NoItem, requests |-> {}]
    /\ lists = [k \in Lists |-> <<IF k = "workspace" THEN Ids ELSE {"a"}>>]
    /\ shown = [k \in Lists |-> 1]
    /\ acked = [k \in Lists |-> 0]
    /\ generation = [l \in Loaders |-> 1]
    /\ loads = {} /\ writes = {} /\ modelsState = "ready" /\ clicks = 0

MCInit == Settled \/ (InitManagement /\ \A k \in Lists : lists[k] = <<{}>>)

MCSpec == MCInit /\ [][NextManagement]_varsManagement /\ Fairness
=============================================================================
