---------------------- MODULE MCWorkbenchAttachment ----------------------
(***************************************************************************)
(* Two workspaces, a session in each and a third that is created.  A       *)
(* behaviour begins in a window that has opened session "a1" and holds a   *)
(* draft for it.                                                           *)
(***************************************************************************)
EXTENDS WorkbenchAttachment

MCHome == [s \in {"a1", "b1", "n1"} |-> IF s = "b1" THEN "b" ELSE "a"]

Opened ==
    /\ conn = <<[ws |-> "a", at |-> "open", chats |-> {"a1"}, pending |-> <<>>]>>
    /\ generation = 1 /\ current = 1
    /\ tasks = [i \in Slots |-> Idle]
    /\ selected = "a" /\ active = "a1" /\ known = Existing
    /\ loads = [w \in Workspaces |-> IF w = "a" THEN 1 ELSE 0]
    /\ state = [w \in Workspaces |-> IF w = "a" THEN "ready" ELSE "idle"]
    /\ files = [w \in Workspaces |-> 0] /\ tree = files
    /\ draft = [s \in Sessions |-> IF s = "a1" THEN 1 ELSE 0]
    /\ untitled = [w \in Workspaces |-> 0]
    /\ submitting = FALSE /\ sent = [s |-> None, text |-> 0, on |-> 0] /\ working = {}
    /\ edits = 1 /\ commands = 0 /\ faults = 0

MCSpec == Opened /\ [][Next]_vars
=============================================================================
