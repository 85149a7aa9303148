--------------------------- MODULE ChatProjection ---------------------------
(***************************************************************************)
(* How the window follows one chat of an Agent Host.  The host applies     *)
(* every action to the chat under its lock and hands it to the connection  *)
(* after releasing the lock, from three goroutines: the one that receives  *)
(* the events of the Agent SDK ("agent"), the one a permission request     *)
(* runs on ("ask") and the reader of the connection ("reader"), which also *)
(* answers a subscription with a snapshot taken under the lock.  Actions   *)
(* and answers can so arrive in another order than they were applied.      *)
(* AHPProjectionService turns what arrives into rows of ChatSessionService *)
(* and into the active turn; the active session view draws the rows as     *)
(* ChatTranscript says.                                                    *)
(*                                                                         *)
(* A text is the sequence of the numbers of its chunks.  All text of a     *)
(* turn is one part of the host's chat; the window breaks it at tool calls *)
(* into numbered segments.  Details and summaries of tool cards are names  *)
(* for where their text comes from.                                        *)
(***************************************************************************)
EXTENDS Naturals, Sequences, FiniteSets, SequencesExt, ChatTranscript

CONSTANTS
    MaxStarts,  \* bound on the turns started
    MaxChunks,  \* bound on the chunks of text
    MaxTools,   \* bound on the tool calls of the agent
    MaxOpens,   \* bound on the subscriptions of one connection
    MaxFlight,  \* bound on the messages on their way to the window
    Inputs,     \* what the input of a tool call can be, "command" or "opaque"
    Outcomes,   \* how a tool call can end, "completed" or "failed"
    MaxUpsets,  \* bound on lost connections, cancellations and answers
    MaxTotal    \* bound on turns, chunks, tool calls and upsets together

ASSUME ChatAssumption ==
    /\ {MaxStarts, MaxChunks, MaxTools, MaxOpens, MaxFlight,
      MaxUpsets, MaxTotal} \subseteq Nat
    /\ Inputs \subseteq {"command", "opaque"}
    /\ Outcomes \subseteq {"completed", "failed"}

NoTurn == [id |-> 0, parts |-> << >>, failed |-> FALSE]

VARIABLES
    chat,          \* the host's ChatState: turns and activeTurn
    count,         \* turns, chunks and tool calls numbered so far
    agent, ask,    \* where the two goroutines of the Agent SDK are
    registered,    \* the request is in Host.permissions
    subscribed,    \* the peer of the window is subscribed to the chat
    flight,        \* on their way to the window, in the order they were applied
    uplink,        \* on their way to the host
    link,          \* the window's connection: up, chat known, answers expected
    used,          \* opens of the connection and upsets so far
    view,          \* rows, active turn, projection's own turn and segment
    screen,        \* the elements of the session's view, and what they show
    blurred,       \* history: something arrived late, early or for another turn
    restored       \* history: the turn that was active in the last snapshot

\* The tool call that stands for the permission request, 0 before there is one.
Permission == ask.tool

hostVars   == <<chat, count>>
sdkVars    == <<agent, ask, registered>>
clientVars == <<link, used, view, screen, blurred, restored>>
netVars    == <<subscribed, flight, uplink>>
varsChat == <<hostVars, sdkVars, netVars, clientVars>>

past   == chat.past
active == chat.active

\* Something more may happen.
Room == count.turn + count.chunk + count.tool + used.upsets < MaxTotal

-----------------------------------------------------------------------------
(* The host's chat.  The reducers are library code: an action applies to   *)
(* the turn it names, the end of a turn cancels its unfinished tool calls. *)

Action(type, turn, tool, note) ==
    [type |-> type, turn |-> turn, tool |-> tool, note |-> note, text |-> << >>]

TextPart == [kind |-> "text", text |-> << >>, tool |-> 0, status |-> "", input |-> ""]
ToolPart(k) == [kind |-> "tool", text |-> << >>, tool |-> k,
                status |-> "streaming", input |-> ""]

HasText(t) == \E i \in DOMAIN t.parts : t.parts[i].kind = "text"
HasTool(t, k) == \E i \in DOMAIN t.parts : t.parts[i].tool = k

WithTool(t, k, Change(_)) ==
    [t EXCEPT !.parts = [i \in DOMAIN @ |-> IF @[i].tool = k THEN Change(@[i]) ELSE @[i]]]

Longer(p, text) == IF p.kind = "text" THEN [p EXCEPT !.text = @ \o text] ELSE p

Finished == {"completed", "failed", "cancelled"}

Ended(t, failed) ==
    [t EXCEPT !.failed = failed,
              !.parts = [i \in DOMAIN @ |->
                  IF @[i].kind = "tool" /\ @[i].status \notin Finished
                  THEN [@[i] EXCEPT !.status = "cancelled"] ELSE @[i]]]

Reduced(t, a) ==
    CASE a.type = "responsePart" -> [t EXCEPT !.parts = Append(@, TextPart)]
      [] a.type = "delta" ->
            [t EXCEPT !.parts = [i \in DOMAIN @ |-> Longer(@[i], a.text)]]
      [] a.type = "toolCallStart" ->
            [t EXCEPT !.parts = Append(@, ToolPart(a.tool))]
      [] a.type = "toolCallReady" ->
            WithTool(t, a.tool, LAMBDA p : [p EXCEPT !.input = a.note, !.status =
                IF a.tool = Permission THEN "pending-confirmation" ELSE "running"])
      [] a.type = "toolCallConfirmed" ->
            WithTool(t, a.tool, LAMBDA p : [p EXCEPT !.status =
                IF a.note = "approved" THEN "running" ELSE "cancelled"])
      [] a.type = "toolCallComplete" ->
            WithTool(t, a.tool, LAMBDA p : [p EXCEPT !.status = a.note])
      [] OTHER -> t

Ends(a) == a.type \in {"turnComplete", "turnCancelled", "error"}

\* What the action makes of a chat c.
Applied(c, a) ==
    IF a.type = "turnStarted" THEN [c EXCEPT !.active = [NoTurn EXCEPT !.id = a.turn]]
    ELSE IF a.turn # c.active.id THEN c
    ELSE IF Ends(a)
    THEN [past |-> Append(c.past, Ended(c.active, a.type = "error")), active |-> NoTurn]
    ELSE [c EXCEPT !.active = Reduced(@, a)]

\* The chat does not take the action, or loses a turn by it.
Odd(a) == IF a.type = "turnStarted" THEN active.id # 0 ELSE a.turn # active.id

\* A goroutine's messages stay in order; those of two goroutines need not.  A
\* message comes with the chat it was made from, which is what a snapshot shows
\* and history for an action, and with the history of its application and way.
Send(e, a) ==
    /\ Len(flight) < MaxFlight
    /\ flight' = Append(flight, [from |-> e, msg |-> a, was |-> chat,
                                odd |-> a.type # "snapshot" /\ Odd(a), late |-> FALSE])

\* emitTypedAction: apply under the lock, hand over after it.
Emit(e, a) ==
    /\ IF subscribed THEN Send(e, a) ELSE UNCHANGED flight
    /\ chat' = Applied(chat, a)

-----------------------------------------------------------------------------
(* The event goroutine: emitStandardAgentEvent reads the active turn and   *)
(* emits afterwards, without the lock in between.  The gap matters only    *)
(* when the turn is ended or replaced in it, and begins there ("event").   *)

AgentIdle == [step |-> "idle", turn |-> 0, tool |-> 0]

\* Where the goroutine may be when the reader ends or replaces the turn.
AgentWhenTurnEnds ==
    {agent} \cup IF agent.step = "idle" /\ active.id # 0
                 THEN {[AgentIdle EXCEPT !.step = "event", !.turn = active.id]} ELSE {}

\* The turn an event is taken for.
EventTurn == IF agent.step = "idle" THEN active.id ELSE agent.turn

TakesEvent == agent.step \in {"idle", "event"} /\ EventTurn # 0

\* A piece of text: the part first when the turn has none, then the delta.
AgentText ==
    /\ TakesEvent \/ agent.step = "delta"
    /\ count.chunk < MaxChunks /\ Room
    /\ IF agent.step # "delta" /\ ~HasText(active)
       THEN /\ Emit("agent", Action("responsePart", EventTurn, 0, ""))
            /\ agent' = [AgentIdle EXCEPT !.step = "delta", !.turn = EventTurn]
            /\ UNCHANGED count
       ELSE /\ Emit("agent", [Action("delta", EventTurn, 0, "") EXCEPT
                                !.text = <<count.chunk + 1>>])
            /\ agent' = AgentIdle
            /\ count' = [count EXCEPT !.chunk = @ + 1]
    /\ UNCHANGED <<ask, registered, subscribed, uplink, clientVars>>

\* emitToolStarted, two actions.
AgentStartsTool ==
    /\ TakesEvent /\ count.tool < MaxTools /\ Room
    /\ count' = [count EXCEPT !.tool = @ + 1]
    /\ Emit("agent", Action("toolCallStart", EventTurn, count.tool + 1, ""))
    /\ agent' = [step |-> "toolCallReady", turn |-> EventTurn, tool |-> count.tool + 1]
    /\ UNCHANGED <<ask, registered, subscribed, uplink, clientVars>>

AgentToolReady ==
    /\ agent.step = "toolCallReady"
    /\ \E input \in Inputs :
          Emit("agent", Action("toolCallReady", agent.turn, agent.tool, input))
    /\ agent' = AgentIdle
    /\ UNCHANGED <<count, ask, registered, subscribed, uplink, clientVars>>

\* completeToolCall, for a call of the active turn.
AgentToolComplete ==
    /\ TakesEvent
    /\ \E p \in ToSet(active.parts), status \in Outcomes :
          /\ p.status = "running" /\ p.tool # Permission
          /\ Emit("agent", Action("toolCallComplete", EventTurn, p.tool, status))
    /\ agent' = AgentIdle
    /\ UNCHANGED <<count, ask, registered, subscribed, uplink, clientVars>>

\* session.idle and session.error.
AgentEnds ==
    /\ TakesEvent
    /\ \E type \in {"turnComplete", "error"} :
          Emit("agent", Action(type, EventTurn, 0, ""))
    /\ agent' = AgentIdle
    /\ UNCHANGED <<count, ask, registered, subscribed, uplink, clientVars>>

-----------------------------------------------------------------------------
(* handleAgentPermission and emitPermissionRequest *)

AskIdle == [step |-> "idle", turn |-> 0, tool |-> 0]

AskRegisters ==
    /\ ask = AskIdle /\ active.id # 0
    /\ count.tool < MaxTools /\ Room
    /\ count' = [count EXCEPT !.tool = @ + 1]
    /\ ask' = [step |-> "toolCallStart", turn |-> active.id, tool |-> count.tool + 1]
    /\ registered' = TRUE
    /\ UNCHANGED <<chat, agent, netVars, clientVars>>

AskEmits ==
    /\ ask.step \in {"toolCallStart", "toolCallReady"}
    /\ Emit("ask", Action(ask.step, ask.turn, Permission, "command"))
    /\ ask' = [ask EXCEPT !.step =
                  IF @ = "toolCallStart" THEN "toolCallReady" ELSE "waiting"]
    /\ UNCHANGED <<count, agent, registered, subscribed, uplink, clientVars>>

-----------------------------------------------------------------------------
(* The reader of the connection *)

Request(type, turn, note) == [type |-> type, turn |-> turn, note |-> note]

Snapshot == Action("snapshot", 0, 0, "")

ReaderTakes(type) ==
    /\ uplink # << >>
    /\ Head(uplink).type = type
    /\ uplink' = Tail(uplink)

\* subscribe: the snapshot and the subscription under one lock, the answer after.
HostSubscribes ==
    /\ ReaderTakes("subscribe")
    /\ subscribed' = TRUE
    /\ Send("reader", Snapshot)
    /\ UNCHANGED <<hostVars, sdkVars, clientVars>>

\* startChatTurn, for this window's turn ...
HostStartsTurn ==
    /\ ReaderTakes("turnStarted")
    /\ Emit("reader", Action("turnStarted", Head(uplink).turn, 0, ""))
    /\ agent' \in AgentWhenTurnEnds
    /\ UNCHANGED <<count, ask, registered, subscribed, clientVars>>

\* ... and for one of another window, which starts none while one is active.
OtherStartsTurn ==
    /\ active.id = 0 /\ count.turn < MaxStarts /\ Room
    /\ count' = [count EXCEPT !.turn = @ + 1]
    /\ Emit("reader", Action("turnStarted", count.turn + 1, 0, ""))
    /\ UNCHANGED <<sdkVars, subscribed, uplink, clientVars>>

\* Every pending request of the session is taken back, then the turn ends.
HostCancelsTurn ==
    /\ ReaderTakes("turnCancelled")
    /\ registered' = FALSE
    /\ Emit("reader", Action("turnCancelled", Head(uplink).turn, 0, ""))
    /\ agent' \in AgentWhenTurnEnds
    /\ UNCHANGED <<count, ask, subscribed, clientVars>>

\* resolveToolPermission: only a request that is registered for that turn.
ResolvePermission ==
    /\ ReaderTakes("toolCallConfirmed")
    /\ LET r == Head(uplink) IN
       IF registered /\ ask.turn = r.turn /\ subscribed
       THEN /\ registered' = FALSE
            /\ Emit("reader", Action("toolCallConfirmed", r.turn, Permission, r.note))
       ELSE UNCHANGED <<chat, registered, flight>>
    /\ UNCHANGED <<count, agent, ask, subscribed, clientVars>>

-----------------------------------------------------------------------------
(* Rows of a chat, what ChatSessionService keeps *)

Row(kind, turn, segment, tool) ==
    [kind |-> kind, turn |-> turn, segment |-> segment, tool |-> tool,
     text |-> << >>, state |-> "", detail |-> "", summary |-> ""]

Card(kind, k, state, detail, summary) ==
    [Row(kind, 0, 0, k) EXCEPT !.state = state, !.detail = detail,
                               !.summary = summary]

IsCard(r) == r.kind \in {"tool", "approval"}

At(rows, Test(_)) == SelectInSeq(rows, Test)

\* Put the row where its namesake is, or at the end.
Upsert(rows, r, Test(_)) ==
    IF At(rows, Test) = 0 THEN Append(rows, r) ELSE [rows EXCEPT ![At(rows, Test)] = r]

\* appendMessageDelta
WithDelta(rows, turn, segment, text) ==
    LET Same(x) == x.kind = "agent" /\ x.turn = turn /\ x.segment = segment
        i == At(rows, Same) IN
    IF i = 0
    THEN Append(rows, [Row("agent", turn, segment, 0) EXCEPT !.text = text])
    ELSE [rows EXCEPT ![i].text = @ \o text]

\* appendEvent of a user message, which has the identity of its turn
WithUser(rows, turn) ==
    LET Same(x) == x.kind = "user" /\ x.turn = turn IN Upsert(rows, Row("user", turn, 0, 0), Same)

\* upsertToolEvent
WithCard(rows, card) ==
    LET Same(x) == IsCard(x) /\ x.tool = card.tool IN Upsert(rows, card, Same)

-----------------------------------------------------------------------------
(* Text of the cards *)

OrElse(a, b) == IF a # "" THEN a ELSE b

\* A tool input the window understands wins over the host's message.
toolInvocationDetail(input, message, previous) ==
    OrElse(IF input = "command" THEN "command" ELSE "",
           OrElse(message, OrElse(previous, "requires approval")))

toolResultDetail(status) == IF status = "failed" THEN "error" ELSE "past tense"

toolCallSummary(input) == IF input = "command" THEN "command" ELSE ""

-----------------------------------------------------------------------------
(* AHPProjectionService.project *)

\* scopedPartID: the part's own name when no turn is known.
ScopedTurn(v) == v.proj
ScopedSegment(v) == IF v.proj = 0 THEN 0 ELSE v.segment

TurnStarted(v, a) ==
    [v EXCEPT !.proj = a.turn, !.segment = 0, !.turn = a.turn,
              !.rows = WithUser(@, a.turn)]

TextArrives(v, a) ==
    [v EXCEPT !.rows = WithDelta(@, ScopedTurn(v), ScopedSegment(v), a.text)]

TurnEnds(v) == [v EXCEPT !.proj = 0, !.segment = 0, !.turn = 0]

\* The projection's own turn and segment stay.
ErrorArrives(v) == [v EXCEPT !.rows = Append(@, Row("error", 0, 0, 0)), !.turn = 0]

\* projectToolAction
CardAfter(previous, a) ==
    CASE a.type = "toolCallStart" -> Card("tool", a.tool, "streaming", "", "")
      [] a.type = "toolCallReady" ->
            Card(IF a.tool = Permission THEN "approval" ELSE "tool", a.tool,
                 IF a.tool = Permission THEN "pending" ELSE "running",
                 toolInvocationDetail(a.note, "running", previous.detail),
                 OrElse(toolCallSummary(a.note), previous.summary))
      [] a.type = "toolCallConfirmed" ->
            Card("approval", a.tool, a.note, previous.detail, previous.summary)
      [] OTHER ->
            Card("tool", a.tool, a.note,
                 OrElse(toolResultDetail(a.note), previous.detail), previous.summary)

\* Mutant: a tool call does not begin a new segment.
BugToolArrives(v, a) ==
    LET Same(x) == IsCard(x) /\ x.tool = a.tool
        i == At(v.rows, Same)
        previous == IF i = 0 THEN Card("tool", a.tool, "", "", "") ELSE v.rows[i] IN
    [v EXCEPT !.rows = WithCard(@, CardAfter(previous, a))]

\* The card changes in its place; a new call begins a new segment of text.
ToolArrives(v, a) ==
    LET Same(x) == IsCard(x) /\ x.tool = a.tool
        i == At(v.rows, Same)
        previous == IF i = 0 THEN Card("tool", a.tool, "", "", "") ELSE v.rows[i] IN
    [v EXCEPT !.segment = IF a.type = "toolCallStart" THEN @ + 1 ELSE @,
              !.rows = WithCard(@, CardAfter(previous, a))]

\* toolEventFromState: resolved requests and cancelled calls are not shown.
CardsOfPart(p) ==
    IF p.status = "cancelled"
       \/ (p.tool = Permission /\ p.status # "pending-confirmation") THEN << >>
    ELSE IF p.status = "pending-confirmation"
    THEN <<Card("approval", p.tool, "pending",
                toolInvocationDetail(p.input, "running", ""), toolCallSummary(p.input))>>
    ELSE <<Card("tool", p.tool, p.status,
                IF p.status \in Finished THEN toolResultDetail(p.status)
                ELSE toolInvocationDetail(p.input, IF p.input = "" THEN "" ELSE "running", ""),
                toolCallSummary(p.input))>>

RowsOfPart(t, p) ==
    IF p.kind = "tool" THEN CardsOfPart(p)
    ELSE IF p.text = << >> THEN << >>
    ELSE <<[Row("agent", t.id, 0, 0) EXCEPT !.text = p.text]>>

\* eventsForTurn
RowsOfTurn(t) ==
    <<Row("user", t.id, 0, 0)>>
        \o FlattenSeq([i \in DOMAIN t.parts |-> RowsOfPart(t, t.parts[i])])
        \o (IF t.failed THEN <<Row("error", 0, 0, 0)>> ELSE << >>)

RowsOf(turns) == FlattenSeq([i \in DOMAIN turns |-> RowsOfTurn(turns[i])])

\* Mutant: only an active turn is taken over from a snapshot.
BugSnapshotArrives(v, s) ==
    IF s.active.id = 0 THEN [v EXCEPT !.rows = RowsOf(s.past)]
    ELSE [v EXCEPT !.rows = RowsOf(Append(s.past, s.active)),
                   !.proj = s.active.id, !.turn = s.active.id]

\* projectChatSnapshot: the segment survives when a turn is active.
SnapshotArrives(v, s) ==
    IF s.active.id = 0
    THEN [TurnEnds(v) EXCEPT !.rows = RowsOf(s.past)]
    ELSE [v EXCEPT !.rows = RowsOf(Append(s.past, s.active)),
                   !.proj = s.active.id, !.turn = s.active.id]

\* A message, with the chat in it when it is a snapshot.
Projected(v, m) ==
    CASE m.msg.type = "snapshot" -> SnapshotArrives(v, m.was)
      [] m.msg.type = "turnStarted" -> TurnStarted(v, m.msg)
      [] m.msg.type \in {"responsePart", "delta"} -> TextArrives(v, m.msg)
      [] m.msg.type \in {"turnComplete", "turnCancelled"} -> TurnEnds(v)
      [] m.msg.type = "error" -> ErrorArrives(v)
      [] OTHER -> ToolArrives(v, m.msg)

-----------------------------------------------------------------------------
(* AHPClient, and the user of the window *)

Quiet == flight = << >> /\ uplink = << >>

\* A connection of its own; the old one's answers are gone with it.
Connect ==
    /\ ~link.up
    /\ link' = [up |-> TRUE, known |-> FALSE, awaited |-> 0]
    /\ used' = [used EXCEPT !.opens = 0]
    /\ UNCHANGED <<hostVars, sdkVars, netVars, view, screen, blurred, restored>>

\* subscribeSession once the session has named its chat.  A second one is sent
\* only by an attachSession or loadChangeset that began before that.
OpenSession ==
    /\ link.up /\ used.opens < MaxOpens
    /\ ~link.known \/ link.awaited > 0
    /\ link' = [link EXCEPT !.known = TRUE, !.awaited = @ + 1]
    /\ used' = [used EXCEPT !.opens = @ + 1]
    /\ uplink' = Append(uplink, Request("subscribe", 0, ""))
    /\ UNCHANGED <<hostVars, sdkVars, subscribed, flight, view, screen, blurred, restored>>

\* promptSession: the action is dispatched and projected at once.
Prompt ==
    /\ link.up /\ link.known /\ view.turn = 0
    /\ count.turn < MaxStarts /\ Room
    /\ LET t == count.turn + 1 IN
       /\ count' = [count EXCEPT !.turn = t]
       /\ uplink' = Append(uplink, Request("turnStarted", t, ""))
       /\ view' = TurnStarted(view, Action("turnStarted", t, 0, ""))
       /\ screen' = Refreshed(screen, view'.rows)
    /\ UNCHANGED <<chat, sdkVars, subscribed, flight, link, used, blurred,
                   restored>>

Click(type, note) ==
    /\ link.up /\ link.known /\ view.turn # 0
    /\ used.upsets < MaxUpsets /\ Room
    /\ used' = [used EXCEPT !.upsets = @ + 1]
    /\ uplink' = Append(uplink, Request(type, view.turn, note))
    /\ UNCHANGED <<hostVars, sdkVars, subscribed, flight, link, view, screen,
                   blurred, restored>>

Cancel == Click("turnCancelled", "")

\* A button of an element in the interruption lane.
Answer ==
    \E i \in DOMAIN screen.interruption.elements :
        \E button \in screen.interruption.elements[i].buttons :
            Click("toolCallConfirmed", IF button = "Allow" THEN "approved" ELSE "denied")

\* What arrives belongs to a turn the window is not in, or the host has no use
\* for it.
Foreign(m) ==
    CASE m.msg.type = "turnStarted" -> m.odd
      [] m.msg.type \in {"turnComplete", "turnCancelled"} -> view.turn \notin {0, m.msg.turn}
      [] OTHER -> m.odd \/ m.msg.turn # view.proj

\* receive, and the continuation of subscribeSession that runs before the next.
\* What was applied before and arrives after is late.
Receive(i) ==
    /\ \A j \in 1..i - 1 : flight[j].from # flight[i].from
    /\ flight' = [j \in 1..Len(flight) - 1 |->
                    IF j < i THEN [flight[j] EXCEPT !.late = TRUE] ELSE flight[j + 1]]
    /\ LET m == flight[i]
           snapshot == m.msg.type = "snapshot" IN
       /\ view' = Projected(view, m)
       /\ screen' = Refreshed(screen, view'.rows)
       /\ link' = IF snapshot THEN [link EXCEPT !.awaited = @ - 1] ELSE link
       /\ restored' = IF snapshot THEN m.was.active.id ELSE restored
       /\ blurred' = IF snapshot THEN m.late ELSE blurred \/ m.late \/ Foreign(m)
    /\ UNCHANGED <<hostVars, sdkVars, subscribed, uplink, used>>

\* The socket closes: the host forgets the peer, the window keeps what it shows.
Drop ==
    /\ link.up /\ used.upsets < MaxUpsets /\ Room
    /\ link' = [up |-> FALSE, known |-> FALSE, awaited |-> 0]
    /\ used' = [used EXCEPT !.upsets = @ + 1]
    /\ subscribed' = FALSE
    /\ uplink' = << >> /\ flight' = << >>
    /\ blurred' = TRUE
    /\ UNCHANGED <<hostVars, sdkVars, view, screen, restored>>

InitChat ==
    /\ chat = [past |-> << >>, active |-> NoTurn]
    /\ count = [turn |-> 0, chunk |-> 0, tool |-> 0]
    /\ agent = AgentIdle /\ ask = AskIdle /\ registered = FALSE
    /\ subscribed = FALSE /\ flight = << >> /\ uplink = << >>
    /\ link = [up |-> TRUE, known |-> FALSE, awaited |-> 0]
    /\ used = [opens |-> 0, upsets |-> 0]
    /\ view = [rows |-> << >>, turn |-> 0, proj |-> 0, segment |-> 0]
    /\ screen = NewView
    /\ blurred = FALSE /\ restored = 0

NextChat ==
    \/ AgentText \/ AgentStartsTool \/ AgentToolReady
    \/ AgentToolComplete \/ AgentEnds
    \/ AskRegisters \/ AskEmits
    \/ HostSubscribes \/ HostStartsTurn \/ OtherStartsTurn \/ HostCancelsTurn \/ ResolvePermission
    \/ Connect \/ OpenSession \/ Prompt \/ Cancel \/ Answer \/ Drop
    \/ \E i \in DOMAIN flight : Receive(i)

SpecChat == InitChat /\ [][NextChat]_varsChat

-----------------------------------------------------------------------------
(* Properties *)

Kinds == {"user", "agent", "tool", "approval", "error"}
ToolStates == {"streaming", "running", "pending", "approved", "denied"} \cup Finished

\* The window keeps one row for each thing it can name: a turn's message, a
\* segment of a turn's text, a tool call.
TypeOKChat ==
    /\ active.id \in 0..MaxStarts /\ Len(past) <= MaxStarts
    /\ view.turn \in 0..MaxStarts /\ view.proj \in 0..MaxStarts
    /\ view.segment \in 0..MaxTools
    /\ \A i \in DOMAIN view.rows : LET r == view.rows[i] IN
          /\ r.kind \in Kinds
          /\ IsCard(r) => r.tool \in 1..MaxTools /\ r.state \in ToolStates
          /\ \A j \in DOMAIN view.rows : i # j /\ r.kind # "error" =>
                LET q == view.rows[j] IN
                ~ (/\ IsCard(r) = IsCard(q) /\ (IsCard(r) \/ r.kind = q.kind)
                   /\ <<r.turn, r.segment, r.tool>> = <<q.turn, q.segment, q.tool>>)

\* The window has nothing to wait for and saw everything in order.
Settled ==
    /\ link.up /\ link.known /\ link.awaited = 0
    /\ Quiet /\ ~blurred

HostTurns == IF active.id = 0 THEN past ELSE Append(past, active)

TextOfRows(rows, id) ==
    FlattenSeq([i \in DOMAIN rows |->
        IF rows[i].kind = "agent" /\ rows[i].turn = id THEN rows[i].text ELSE << >>])

TextOfTurn(t) == FlattenSeq([i \in DOMAIN t.parts |-> t.parts[i].text])

OfKind(rows, kind) == {i \in DOMAIN rows : rows[i].kind = kind}

TextMirrored ==
    /\ {view.rows[i].turn : i \in OfKind(view.rows, "user")} = {t.id : t \in ToSet(HostTurns)}
    /\ \A t \in ToSet(HostTurns) : TextOfRows(view.rows, t.id) = TextOfTurn(t)
    /\ \A i \in OfKind(view.rows, "agent") :
            \E t \in ToSet(HostTurns) : t.id = view.rows[i].turn
    /\ Cardinality(OfKind(view.rows, "error")) = Cardinality({i \in DOMAIN past : past[i].failed})

\* Calls that finished, and those of the active turn; a call the end of its
\* turn cut short stays on the screen as it was.
CardsMirrored ==
    \A t \in ToSet(HostTurns) : \A p \in ToSet(t.parts) :
        p.kind = "tool" /\ p.status # "streaming" =>
            ToSet(CardsOfPart(p)) \subseteq ToSet(view.rows)

RequestsMirrored ==
    \A r \in ToSet(Lane(view.rows)) : active.id # 0 =>
        \E t \in ToSet(HostTurns) : HasTool(t, r.tool)

\* The elements show what a view opened now would show: every row in its place,
\* tool calls in one group only while they are neighbours, the buttons of every
\* request that waits and of no other.
ScreenShowsRows ==
    LET opened == Refreshed(NewView, view.rows) IN
    /\ screen.transcript.elements = opened.transcript.elements
    /\ screen.interruption.elements = opened.interruption.elements

\* The screen shows the rows, whatever it has shown before, and
\* a settled window shows what the host has: the same turn as working, every
\* chunk of text once and under its turn, the same cards, the requests that are
\* waiting.  Text is easily lost or doubled when a snapshot meets the actions
\* around it, when a connection is replaced or when a part's name is reused.
Mirrors ==
    /\ ScreenShowsRows
    /\ Settled =>
          view.turn = active.id /\ TextMirrored /\ CardsMirrored /\ RequestsMirrored

\* Text that arrives after a tool call is shown after it, never added to a row
\* above the call, although the host keeps all text of a turn in one part ahead
\* of its tool calls.  A turn restored from a snapshot is the exception: there
\* the window has only the host's part to go by.
TextAfterTools ==
    [][~blurred' /\ view.proj \notin {restored, restored'} =>
        \A i \in DOMAIN view.rows : \A j \in i + 1..Len(view.rows) :
            /\ view'.proj = view.proj /\ view.proj # 0
            /\ view.rows[i].kind = "agent" /\ IsCard(view.rows[j])
            => view'.rows[i] = view.rows[i]]_varsChat
=============================================================================
