--------------------------- MODULE ChatTranscript ---------------------------
(***************************************************************************)
(* How the view of a session draws its rows.  The requests that wait for   *)
(* an answer go to the interruption lane, every other row but an approval  *)
(* to the transcript, where neighbouring tool calls share one group.  Both *)
(* keep their elements: an update compares the new items with those drawn  *)
(* before, index by index, changes a message or a group of tool calls in   *)
(* place and replaces anything else that is not the same.                  *)
(*                                                                         *)
(* A row is a record [kind, turn, segment, tool, text, state, detail,      *)
(* summary].  Markdown, icons, the scroll position and which details the   *)
(* user has folded open are left out.                                      *)
(***************************************************************************)
EXTENDS Naturals, Sequences, SequencesExt

\* The rows that pass a test, in their order.
Kept(rows, Test(_)) ==
    FlattenSeq([i \in DOMAIN rows |-> IF Test(rows[i]) THEN <<rows[i]>> ELSE << >>])

\* The rows ActiveSessionView.refresh gives to the transcript ...
ForTranscript(rows) == Kept(rows, LAMBDA r : r.kind # "approval")

\* ... and to the interruption lane.
Lane(rows) == Kept(rows, LAMBDA r : r.kind = "approval" /\ r.state = "pending")

-----------------------------------------------------------------------------
(* Items: a row, or a group of tool calls in a row *)

\* What an item is drawn from: its kind and its rows, one but for a group.
Item(kind, rows) == [kind |-> kind, rows |-> rows]

OfTools(item) == item.kind \in {"tool", "toolGroup"}

\* A tool call joins the tool call or the group before it, any other row stands alone.
WithRow(items, r) ==
    IF r.kind = "tool" /\ items # << >> /\ OfTools(Last(items))
    THEN Append(Front(items), Item("toolGroup", Append(Last(items).rows, r)))
    ELSE Append(items, Item(r.kind, <<r>>))

projectConversationItems(rows) ==
    LET upTo[n \in 0..Len(rows)] ==
            IF n = 0 THEN << >> ELSE WithRow(upTo[n - 1], rows[n])
    IN upTo[Len(rows)]

\* The items of a lane: no grouping there.
LaneItems(rows) == [i \in DOMAIN rows |-> Item(rows[i].kind, <<rows[i]>>)]

-----------------------------------------------------------------------------
(* Elements *)

IsMessage(kind) == kind \in {"user", "agent"}

\* What stands on the screen: the root's kind and state, the text of a message,
\* the cards, the buttons that answer a request.
Element(is, state, text, cards, buttons) ==
    [is |-> is, state |-> state, text |-> text, cards |-> cards, buttons |-> buttons]

ToolCard(r) == [tool |-> r.tool, state |-> r.state, detail |-> r.detail,
                summary |-> r.summary]

renderMessage(r) == Element("message", r.kind, r.text, << >>, {})

renderTool(r) == Element("tool", r.state, << >>, <<ToolCard(r)>>, {})

renderApproval(r) ==
    Element("approval", r.state, << >>, <<ToolCard(r)>>,
            IF r.state = "pending" THEN {"Allow", "Deny"} ELSE {})

\* A group says that it runs, or that it completed and with failures.
GroupState(rows) ==
    IF \E i \in DOMAIN rows : rows[i].state \in {"pending", "running", "streaming"}
    THEN "running"
    ELSE IF \E i \in DOMAIN rows : rows[i].state = "failed" THEN "failed" ELSE "completed"

renderToolGroup(rows) ==
    Element("toolGroup", GroupState(rows), << >>,
            [i \in DOMAIN rows |-> ToolCard(rows[i])], {})

renderSessionEvent(r) ==
    CASE IsMessage(r.kind)    -> renderMessage(r)
      [] r.kind = "tool"      -> renderTool(r)
      [] r.kind = "approval"  -> renderApproval(r)
      [] OTHER                -> Element("error", "", << >>, << >>, {})

render(item) ==
    IF item.kind = "toolGroup" THEN renderToolGroup(item.rows)
    ELSE renderSessionEvent(item.rows[1])

\* An element that can take the item without being replaced.
Takes(element, item) ==
    \/ item.kind = "toolGroup" /\ element.is = "toolGroup"
    \/ IsMessage(item.kind) /\ element.is = "message"

updateToolGroup(element, rows) ==
    LET replacement == renderToolGroup(rows) IN
    [element EXCEPT !.state = replacement.state, !.cards = replacement.cards]

updateSessionEvent(element, r) == [element EXCEPT !.state = r.kind, !.text = r.text]

update(element, item) ==
    IF item.kind = "toolGroup" THEN updateToolGroup(element, item.rows)
    ELSE updateSessionEvent(element, item.rows[1])

-----------------------------------------------------------------------------
(* The two hosts of elements *)

NothingDrawn == [items |-> << >>, elements |-> << >>]

\* What ConversationTranscript.update and InterruptionLane.update have in common.
Drawn(before, items) ==
    [items |-> items,
     elements |-> [i \in DOMAIN items |->
        IF i \notin DOMAIN before.items THEN render(items[i])
        ELSE IF before.items[i] = items[i] THEN before.elements[i]
        ELSE IF Takes(before.elements[i], items[i])
        THEN update(before.elements[i], items[i])
        ELSE render(items[i])]]

updateTranscript(before, rows) ==
    Drawn(before, projectConversationItems(ForTranscript(rows)))

updateLane(before, rows) == Drawn(before, LaneItems(Lane(rows)))

\* ActiveSessionView.refresh
Refreshed(screen, rows) ==
    [transcript |-> updateTranscript(screen.transcript, rows),
     interruption |-> updateLane(screen.interruption, rows)]

\* The view of a session that was never opened.
NewView == [transcript |-> NothingDrawn, interruption |-> NothingDrawn]
=============================================================================
