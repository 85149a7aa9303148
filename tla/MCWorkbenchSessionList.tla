---------------------- MODULE MCWorkbenchSessionList ----------------------
(***************************************************************************)
(* Two sessions of two providers in one workspace.  A behaviour begins     *)
(* with the list loaded and drawn, both sessions selected and the pointer  *)
(* on a row, which saves the clicks that lead there; a restart leads back  *)
(* to the empty window.                                                    *)
(***************************************************************************)
EXTENDS WorkbenchSessionList

MCOrder == <<"s1", "s2">>
MCWorkspaceOrder == <<"w">>
MCHome == [s \in {"s1", "s2"} |-> "w"]
MCProvider == [s \in {"s1", "s2"} |-> IF s = "s2" THEN "q" ELSE "p"]
MCMatching == {"s2"}

Loaded ==
    /\ history = <<{"s1", "s2"}>>
    /\ seen = [p \in Providers |-> 1] /\ added = {}
    /\ serial = 0 /\ latestAll = 0 /\ latest = [p \in Providers |-> 0]
    /\ requests = {}
    /\ stored = [Blank EXCEPT !.unread = {"s2"}] /\ local = stored /\ refused = FALSE
    /\ collapsed = {} /\ filter = "hidden" /\ active = None
    /\ rows = Rows /\ cursor = 1
    /\ selected = {"s1", "s2"} /\ anchor = 3
    /\ mouse = "s1" /\ hovered = mouse /\ pending = FALSE /\ menu = None
    /\ clicks = 0

MCSpec == Loaded /\ [][Next]_vars /\ Fairness
=============================================================================
