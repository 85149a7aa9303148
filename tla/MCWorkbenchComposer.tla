------------------------ MODULE MCWorkbenchComposer ------------------------
(***************************************************************************)
(* Two workspaces, a session there is and one that is created, two models  *)
(* with different efforts.  A behaviour begins at the start of the page or *)
(* with a workspace selected and the models loaded.                        *)
(***************************************************************************)
EXTENDS WorkbenchComposer

MCEffortsOf == [m \in {"m1", "m2"} |-> IF m = "m1" THEN <<"high">> ELSE <<"low", "high">>]

MCOffers == {<<>>, <<"m1", "m2">>, <<"m2">>}

Loaded == [models |-> <<"m1", "m2">>, state |-> "ready"]

Ready ==
    /\ selected = "w1" /\ offer = Loaded
    /\ held = [k \in Keys |-> IF k = "w1" THEN Corrected(Empty, Loaded) ELSE Empty]
    /\ view = [v \in Views |-> IF v = New THEN Made("opened", held["w1"], Loaded) ELSE NotMade]
    /\ active = None /\ reads = {} /\ creating = NoInput /\ sends = {}
    /\ known = Existing /\ acts = 0

MCSpec == (Init \/ Ready) /\ [][Next]_vars
=============================================================================
