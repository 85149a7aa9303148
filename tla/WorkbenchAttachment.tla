------------------------ MODULE WorkbenchAttachment ------------------------
(***************************************************************************)
(* Opening sessions and sending messages: the commands of the workbench,   *)
(* SessionService, WorkspaceService, the loading of a workspace's files,   *)
(* WorkspaceAttachmentService, which keeps the one connection to an Agent  *)
(* Host, and AHPClient, the connection.                                    *)
(*                                                                         *)
(* A command is an asynchronous function, a "task": it waits for a         *)
(* connection or for answers and goes on when they come, and the user and  *)
(* other tasks act in between.  Whatever follows one event without waiting *)
(* again runs before the next event: tasks at "attach" or "attached" go    *)
(* first.                                                                  *)
(*                                                                         *)
(* A connection answers requests in the order they were sent (the Agent    *)
(* Host handles a peer's requests one by one).  A request has no timeout;  *)
(* the close event of the socket rejects all that are pending.  A draft is *)
(* a number that grows with every edit, 0 when empty, and a listing of     *)
(* files the number of changes made to the workspace.                      *)
(***************************************************************************)
EXTENDS Naturals, Sequences, FiniteSets, SequencesExt

CONSTANTS
    Workspaces,
    Sessions,
    Home,          \* the workspace of each session
    Existing,      \* the sessions that exist at the beginning
    WithTerminals, \* workspaces with terminals running
    None,          \* no workspace, no session
    MaxTasks,      \* bound: tasks at a time
    MaxCommands,   \* bound: commands in a behaviour
    MaxConns,      \* bound: connections in a behaviour
    MaxFaults,     \* bound: refused requests and connections, lost connections
    MaxEdits,      \* bound: edits of drafts
    MaxTree        \* bound: changes to a workspace's files

ASSUME AttachmentAssumption ==
    /\ Home \in [Sessions -> Workspaces] /\ Existing \subseteq Sessions
    /\ WithTerminals \subseteq Workspaces
    /\ None \notin Workspaces \cup Sessions
    /\ {MaxTasks, MaxCommands, MaxConns, MaxFaults, MaxEdits, MaxTree} \subseteq Nat

VARIABLES
    conn,       \* AHPClient: the connections made so far
    generation, \* WorkspaceAttachmentService.generation: the newest connection
    current,    \* WorkspaceAttachmentService.current, 0 for none
    tasks,      \* the commands under way
    selected,   \* WorkspaceService.selectedWorkspaceID
    active,     \* ActiveSessionService.selected
    known,      \* the sessions that exist
    loads,      \* WorkspaceResourceService.generations: loads begun
    state,      \* WorkspaceResourceService.workspaceStates
    files,      \* WorkspaceResourceService.files: the listing on screen
    tree,       \* the files of each workspace at its host
    draft,      \* ChatSessionService: the draft of each session
    untitled,   \* NewSessionInputModel: the draft of each workspace
    submitting, \* NewSessionView.submitting
    sent,       \* the prompt put on a wire last
    working,    \* sessions with an active turn
    edits,      \* edits of drafts so far
    commands,   \* commands so far
    faults      \* faults so far

wires == <<conn, generation, current>>
screen == <<selected, active>>
loading == <<loads, state, files>>
drafts == <<draft, untitled, submitting, sent, working>>
count == <<edits, commands, faults>>
vars == <<wires, tasks, screen, known, loading, tree, drafts, count>>

Conns == 1..generation
Slots == 1..MaxTasks

----------------------------------------------------------------------------
(* Tasks and requests. *)

\* The strands of WorkspaceService.select that wait on their own.
Strands == {"changes", "files", "terminals", "chat"}

\* What a request asks for.  subscribeSession asks for the session, then
\* for its chat.
Asks == {"session", "chat", "changeset", "files", "terminals", "create"}

Idle == [kind |-> "none", ws |-> None, s |-> None, at |-> "idle", on |-> 0,
         waits |-> {}, load |-> 0, listing |-> 0, text |-> 0]

Task(kind, w, s) == [Idle EXCEPT !.kind = kind, !.ws = w, !.s = s, !.at = "attach"]

\* Tasks that go on before the next event.
Ready == {i \in Slots : tasks[i].at \in {"attach", "attached"}}
Settled == Ready = {}

Free == {i \in Slots : tasks[i] = Idle}
NextFree == {i \in Free : \A j \in Free : i <= j}

\* A command of the user begins a task.
Begin(task) ==
    /\ Settled /\ commands < MaxCommands
    /\ \E i \in NextFree : tasks' = [tasks EXCEPT ![i] = task]
    /\ commands' = commands + 1
    /\ UNCHANGED <<edits, faults>>

\* Mutant: any attachment will do.
BugAttached(w) == current # 0

\* WorkspaceAttachmentService.attached
Attached(w) == current # 0 /\ conn[current].ws = w

\* AHPClient.request: the requests a task puts on its connection.
Request(c, i, asks) ==
    conn' = [conn EXCEPT ![c].pending =
                 @ \o [k \in DOMAIN asks |->
                            [task |-> i, s |-> tasks[i].s, ask |-> asks[k]]]]

\* subscribeSession is skipped for a session in sessionChats.
Subscribed(c, s) == s \in conn[c].chats

----------------------------------------------------------------------------
(* What the user does. *)

\* zaw.session.open: the session is shown at once.
Open(s) ==
    /\ s \in known
    /\ Begin(Task("open", Home[s], s))
    /\ active' = s
    /\ UNCHANGED <<wires, selected, known, loading, tree, drafts>>

\* The workspace picker of the new session view.
Pick(w) ==
    /\ active = None
    /\ Begin(Task("pick", w, None))
    /\ UNCHANGED <<wires, screen, known, loading, tree, drafts>>

\* zaw.session.new
NewSession ==
    /\ Settled /\ active # None
    /\ active' = None
    /\ UNCHANGED <<wires, tasks, selected, known, loading, tree, drafts, count>>

\* Text typed for the session on screen, or for a new session.  The editor
\* of a new session is disabled while one is being created.
Type ==
    /\ Settled /\ edits < MaxEdits
    /\ edits' = edits + 1
    /\ \/ /\ active # None
          /\ draft' = [draft EXCEPT ![active] = edits']
          /\ UNCHANGED untitled
       \/ /\ active = None /\ selected # None /\ ~submitting
          /\ untitled' = [untitled EXCEPT ![selected] = edits']
          /\ UNCHANGED draft
    /\ UNCHANGED <<wires, tasks, screen, known, loading, tree, submitting, sent,
                   working, commands, faults>>

\* zaw.session.send; with an active turn the button cancels instead.
Send ==
    /\ active # None /\ draft[active] # 0 /\ active \notin working
    /\ Begin(Task("send", Home[active], active))
    /\ UNCHANGED <<wires, screen, known, loading, tree, drafts>>

\* NewSessionView.submit and zaw.session.create
Submit(s) ==
    /\ active = None /\ selected # None /\ ~submitting
    /\ untitled[selected] # 0
    /\ s \notin known /\ Home[s] = selected
    /\ \A i \in Slots : tasks[i].s # s
    /\ Begin([Task("submit", selected, s) EXCEPT !.text = untitled[selected]])
    /\ submitting' = TRUE
    /\ UNCHANGED <<wires, screen, known, loading, tree, draft, untitled, sent, working>>

\* loadWorkspace: a new load of the workspace of task i begins.
BeginLoad(i, waits) ==
    LET w == tasks[i].ws IN
    /\ loads' = [loads EXCEPT ![w] = @ + 1]
    /\ state' = [state EXCEPT ![w] = "loading"]
    /\ tasks' = [tasks EXCEPT ![i].at = "waiting", ![i].waits = waits,
                              ![i].load = loads'[w]]
    /\ UNCHANGED files

\* zaw.workspace.refresh: the files of the attached workspace, no changes.
Refresh ==
    /\ Settled /\ current # 0 /\ commands < MaxCommands
    /\ LET w == conn[current].ws
       IN /\ \E i \in NextFree :
                 /\ tasks' = [tasks EXCEPT ![i] =
                       [Idle EXCEPT !.kind = "refresh", !.ws = w, !.at = "waiting",
                                    !.on = current, !.waits = {"files"}, !.load = loads[w] + 1]]
                 /\ Request(current, i, <<"files">>)
          /\ loads' = [loads EXCEPT ![w] = @ + 1]
          /\ state' = [state EXCEPT ![w] = "loading"]
    /\ commands' = commands + 1
    /\ UNCHANGED <<generation, current, screen, known, files, tree, drafts, edits,
                   faults>>

----------------------------------------------------------------------------
(* WorkspaceAttachmentService.attach. *)

\* The attachment is there already.
Reuse(i) ==
    /\ tasks[i].at = "attach" /\ Attached(tasks[i].ws)
    /\ tasks' = [tasks EXCEPT ![i].at = "attached", ![i].on = current]
    /\ UNCHANGED <<wires, screen, known, loading, tree, drafts, count>>

\* Mutant: the attachment of before is left open.
BugConnect(i) ==
    /\ tasks[i].at = "attach" /\ ~Attached(tasks[i].ws)
    /\ generation < MaxConns
    /\ generation' = generation + 1
    /\ conn' = Append(conn, [ws |-> tasks[i].ws, at |-> "connecting",
                             chats |-> {}, pending |-> <<>>])
    /\ current' = 0
    /\ tasks' = [tasks EXCEPT ![i].at = "connecting", ![i].on = generation']
    /\ UNCHANGED <<screen, known, loading, tree, drafts, count>>

\* A new connection: the attachment of before is closed at once, and a
\* connection still being made is outdated.
Connect(i) ==
    /\ tasks[i].at = "attach" /\ ~Attached(tasks[i].ws)
    /\ generation < MaxConns
    /\ generation' = generation + 1
    /\ conn' = [c \in 1..generation' |->
           IF c = generation'
           THEN [ws |-> tasks[i].ws, at |-> "connecting", chats |-> {}, pending |-> <<>>]
           ELSE IF c = current THEN [conn[c] EXCEPT !.at = "closing", !.chats = {}]
           ELSE conn[c]]
    /\ current' = 0
    /\ tasks' = [tasks EXCEPT ![i].at = "connecting", ![i].on = generation']
    /\ UNCHANGED <<screen, known, loading, tree, drafts, count>>

Fault ==
    /\ faults < MaxFaults
    /\ faults' = faults + 1
    /\ UNCHANGED <<edits, commands>>

Waiting(c) == {i \in Slots : tasks[i].at = "connecting" /\ tasks[i].on = c}

\* A task ends; a submission that ends without a prompt keeps its text.
End(ended) ==
    /\ tasks' = [i \in Slots |-> IF i \in ended THEN Idle ELSE tasks[i]]
    /\ submitting' = (submitting /\ \A i \in ended : tasks[i].kind # "submit")

\* AHPClient.connect resolves, with initialize answered.  A connection that
\* is no longer the newest one is closed, its task fails.
Connected(c) ==
    /\ Settled /\ c \in Conns /\ conn[c].at = "connecting"
    /\ IF c = generation
       THEN /\ conn' = [conn EXCEPT ![c].at = "open"]
            /\ current' = c
            /\ tasks' = [i \in Slots |-> IF i \in Waiting(c)
                                         THEN [tasks[i] EXCEPT !.at = "attached"]
                                         ELSE tasks[i]]
            /\ UNCHANGED submitting
       ELSE /\ conn' = [conn EXCEPT ![c].at = "closing"]
            /\ End(Waiting(c))
            /\ UNCHANGED current
    /\ UNCHANGED <<generation, screen, known, loading, tree, draft, untitled, sent,
                   working, count>>

\* The Agent Host is offline, or the socket closes before initialize is
\* answered.
ConnectFails(c) ==
    /\ Settled /\ c \in Conns /\ conn[c].at = "connecting"
    /\ Fault
    /\ conn' = [conn EXCEPT ![c].at = "closed"]
    /\ End(Waiting(c))
    /\ UNCHANGED <<generation, current, screen, known, loading, tree, draft,
                   untitled, sent, working>>

----------------------------------------------------------------------------
(* A task goes on with its attachment. *)

Holds(i, kind) == tasks[i].at = "attached" /\ tasks[i].kind = kind

\* WorkspaceService.select: the workspace is selected, its resources load
\* and its terminals are attached again.
Select(i) ==
    /\ Holds(i, "open") \/ Holds(i, "pick")
    /\ LET t == tasks[i]
           changes == IF t.kind = "pick" THEN <<>>
                      ELSE IF Subscribed(t.on, t.s) THEN <<"changeset">> ELSE <<"session">>
           terminals == IF t.ws \in WithTerminals THEN <<"terminals">> ELSE <<>>
       IN /\ selected' = t.ws
          /\ BeginLoad(i, {"files"} \cup (IF t.kind = "open" THEN {"changes"} ELSE {})
                                    \cup Range(terminals))
          /\ Request(t.on, i, changes \o <<"files">> \o terminals)
    /\ UNCHANGED <<generation, current, active, known, tree, drafts, count>>

\* SessionService.attach, after select: the session is subscribed to unless
\* it is, and made the active one.
Show(i) ==
    /\ Holds(i, "show")
    /\ LET t == tasks[i] IN
       IF Subscribed(t.on, t.s)
       THEN /\ active' = t.s
            /\ tasks' = [tasks EXCEPT ![i] = Idle]
            /\ UNCHANGED conn
       ELSE /\ tasks' = [tasks EXCEPT ![i].at = "waiting", ![i].waits = {"chat"}]
            /\ Request(t.on, i, <<"session">>)
            /\ UNCHANGED active
    /\ UNCHANGED <<generation, current, selected, known, loading, tree, drafts, count>>

\* promptSession's dispatch, then clearAfterSend: the prompt is on the wire
\* and the draft of its session is empty.
Prompt(c, s, text) ==
    /\ sent' = [s |-> s, text |-> text, on |-> c]
    /\ working' = working \cup {s}
    /\ draft' = [draft EXCEPT ![s] = 0]

\* SessionService.send: the composition is read after attaching.
Compose(i) ==
    /\ Holds(i, "send")
    /\ LET t == tasks[i]
           text == draft[t.s]
       IN \/ /\ text = 0
             /\ tasks' = [tasks EXCEPT ![i] = Idle]
             /\ UNCHANGED <<conn, sent, working, draft>>
          \/ /\ text # 0 /\ Subscribed(t.on, t.s)
             /\ tasks' = [tasks EXCEPT ![i] = Idle]
             /\ Prompt(t.on, t.s, text)
             /\ UNCHANGED conn
          \/ /\ text # 0 /\ ~Subscribed(t.on, t.s)
             /\ tasks' = [tasks EXCEPT ![i].at = "waiting", ![i].waits = {"chat"},
                                       ![i].text = text]
             /\ Request(t.on, i, <<"session">>)
             /\ UNCHANGED <<sent, working, draft>>
    /\ UNCHANGED <<generation, current, screen, known, loading, tree, untitled,
                   submitting, count>>

\* AHPClient.createSession
Create(i) ==
    /\ Holds(i, "submit")
    /\ tasks' = [tasks EXCEPT ![i].at = "waiting", ![i].waits = {"chat"}]
    /\ Request(tasks[i].on, i, <<"create">>)
    /\ UNCHANGED <<generation, current, screen, known, loading, tree, drafts, count>>

----------------------------------------------------------------------------
(* Answers. *)

\* The oldest request of an open connection.  A request whose task has
\* failed meanwhile has task 0: its answer changes nothing but the session's
\* channels.
First(c, ask) ==
    /\ Settled /\ c \in Conns /\ conn[c].at = "open" /\ conn[c].pending # <<>>
    /\ Head(conn[c].pending).ask = ask

Asker(c) == Head(conn[c].pending).task

\* Request c's oldest is answered, and the task asks on.
Answered(c, more) ==
    conn' = [conn EXCEPT ![c].pending =
                 Tail(@) \o [k \in DOMAIN more |-> [Head(@) EXCEPT !.ask = more[k]]]]

\* A strand of task i is through; t is the task by then.
\* loadWorkspace shows its listing when it has both answers and no newer
\* load has begun; select resolves when the terminals are there too, and a
\* session that was opened goes on to SessionService.attach.
Loaded(t) == t.waits \cap {"changes", "files"} = {}

\* Mutant: whatever load is through shows its listing.
BugAfter(i, t) ==
    /\ IF Loaded(t) /\ ~Loaded(tasks[i])
       THEN /\ files' = [files EXCEPT ![t.ws] = t.listing]
            /\ state' = [state EXCEPT ![t.ws] = "ready"]
       ELSE UNCHANGED <<files, state>>
    /\ tasks' = [tasks EXCEPT ![i] =
           IF t.waits # {} THEN t
           ELSE IF t.kind = "open" THEN Task("show", t.ws, t.s)
           ELSE Idle]
    /\ UNCHANGED loads

After(i, t) ==
    /\ IF Loaded(t) /\ ~Loaded(tasks[i]) /\ loads[t.ws] = t.load
       THEN /\ files' = [files EXCEPT ![t.ws] = t.listing]
            /\ state' = [state EXCEPT ![t.ws] = "ready"]
       ELSE UNCHANGED <<files, state>>
    /\ tasks' = [tasks EXCEPT ![i] =
           IF t.waits # {} THEN t
           ELSE IF t.kind = "open" THEN Task("show", t.ws, t.s)
           ELSE Idle]
    /\ UNCHANGED loads

\* The session's snapshot: its chat and changeset are known from here on.
AnswerSession(c) ==
    /\ First(c, "session")
    /\ conn' = [conn EXCEPT ![c].pending = Append(Tail(@), [Head(@) EXCEPT !.ask = "chat"]),
                            ![c].chats = @ \cup {Head(conn[c].pending).s}]
    /\ UNCHANGED <<generation, current, tasks, screen, known, loading, tree, drafts, count>>

\* The chat's snapshot: an opened session goes on to its changeset or is
\* made the active one, a prompt is sent, and a new session is complete: it
\* becomes active and gets the text it was created with.
AnswerChat(c) ==
    /\ First(c, "chat")
    /\ LET i == Asker(c)
           t == tasks[i]
       IN \/ /\ i = 0
             /\ Answered(c, <<>>)
             /\ UNCHANGED <<tasks, active, drafts>>
          \/ /\ i # 0 /\ t.kind = "open"
             /\ Answered(c, <<"changeset">>)
             /\ UNCHANGED <<tasks, active, drafts>>
          \/ /\ i # 0 /\ t.kind = "show"
             /\ Answered(c, <<>>)
             /\ active' = t.s
             /\ tasks' = [tasks EXCEPT ![i] = Idle]
             /\ UNCHANGED drafts
          \/ /\ i # 0 /\ t.kind = "send"
             /\ Answered(c, <<>>)
             /\ Prompt(c, t.s, t.text)
             /\ tasks' = [tasks EXCEPT ![i] = Idle]
             /\ UNCHANGED <<active, untitled, submitting>>
          \/ /\ i # 0 /\ t.kind = "submit"
             /\ Answered(c, <<>>)
             /\ active' = t.s
             /\ Prompt(c, t.s, t.text)
             /\ untitled' = [untitled EXCEPT ![t.ws] = 0]
             /\ End({i})
    /\ UNCHANGED <<generation, current, selected, known, loading, tree, count>>

AnswerChangeset(c) ==
    /\ First(c, "changeset")
    /\ Answered(c, <<>>)
    /\ IF Asker(c) = 0 THEN UNCHANGED <<tasks, loading>>
       ELSE After(Asker(c), [tasks[Asker(c)] EXCEPT !.waits = @ \ {"changes"}])
    /\ UNCHANGED <<generation, current, screen, known, tree, drafts, count>>

AnswerFiles(c) ==
    /\ First(c, "files")
    /\ Answered(c, <<>>)
    /\ IF Asker(c) = 0 THEN UNCHANGED <<tasks, loading>>
       ELSE After(Asker(c), [tasks[Asker(c)] EXCEPT
                                !.waits = @ \ {"files"}, !.listing = tree[conn[c].ws]])
    /\ UNCHANGED <<generation, current, screen, known, tree, drafts, count>>

AnswerTerminals(c) ==
    /\ First(c, "terminals")
    /\ Answered(c, <<>>)
    /\ IF Asker(c) = 0 THEN UNCHANGED <<tasks, loading>>
       ELSE After(Asker(c), [tasks[Asker(c)] EXCEPT !.waits = @ \ {"terminals"}])
    /\ UNCHANGED <<generation, current, screen, known, tree, drafts, count>>

\* Mutant: the new session goes on without being listed.
BugAnswerCreate(c) ==
    /\ First(c, "create")
    /\ Answered(c, <<"session">>)
    /\ UNCHANGED <<generation, current, tasks, screen, known, loading, tree, drafts, count>>

\* The host has created the session.
AnswerCreate(c) ==
    /\ First(c, "create")
    /\ Answered(c, <<"session">>)
    /\ known' = known \cup {tasks[Asker(c)].s}
    /\ UNCHANGED <<generation, current, tasks, screen, loading, tree, drafts, count>>

----------------------------------------------------------------------------
(* Failures. *)

\* loadWorkspace of the tasks in failed is rejected: the error is shown for
\* a workspace whose newest load it was.
LoadsFail(failed) ==
    /\ state' = [w \in Workspaces |->
           IF \E i \in failed : tasks[i].ws = w /\ tasks[i].load = loads[w]
           THEN "error" ELSE state[w]]
    /\ UNCHANGED <<loads, files>>

Loading(i) == tasks[i].load # 0 /\ ~Loaded(tasks[i])

\* The Agent Host answers a request with an error.  TerminalService swallows
\* that of a terminal; any other ends its task, whose other requests are
\* answered to nobody.
Refused(c) ==
    /\ Settled /\ c \in Conns /\ conn[c].at = "open" /\ conn[c].pending # <<>>
    /\ Fault
    /\ LET i == Asker(c)
           Orphan(r) == IF r.task = i THEN [r EXCEPT !.task = 0] ELSE r
       IN \/ /\ i = 0
             /\ Answered(c, <<>>)
             /\ UNCHANGED <<tasks, loading, submitting>>
          \/ /\ i # 0 /\ Head(conn[c].pending).ask = "terminals"
             /\ Answered(c, <<>>)
             /\ After(i, [tasks[i] EXCEPT !.waits = @ \ {"terminals"}])
             /\ UNCHANGED submitting
          \/ /\ i # 0 /\ Head(conn[c].pending).ask # "terminals"
             /\ conn' = [conn EXCEPT ![c].pending =
                    [k \in DOMAIN Tail(@) |-> Orphan(Tail(@)[k])]]
             /\ End({i})
             /\ LoadsFail({i} \cap {j \in Slots : Loading(j)})
    /\ UNCHANGED <<generation, current, screen, known, tree, draft, untitled, sent,
                   working>>

\* Mutant: the close event does not reject what is pending.
BugRejected(i) == tasks[i]

\* What the close event makes of task i: every request is rejected.  A task
\* that has its files and waits for terminals goes on as if they were there.
Rejected(i) ==
    LET t == tasks[i] IN
    IF t.kind = "open" /\ Loaded(t) THEN Task("show", t.ws, t.s) ELSE Idle

\* The socket's close event: of a connection this window has closed, or of
\* one that the server or the network closes.
SocketClosed(c) ==
    /\ Settled /\ c \in Conns
    /\ \/ conn[c].at = "closing" /\ UNCHANGED count
       \/ conn[c].at = "open" /\ Fault
    /\ LET asking == {i \in Slots : tasks[i].at = "waiting" /\ tasks[i].on = c}
       IN /\ submitting' = (submitting /\ \A i \in asking : tasks[i].kind # "submit")
          /\ LoadsFail({i \in asking : Loading(i)})
          /\ tasks' = [i \in Slots |-> IF i \in asking THEN Rejected(i) ELSE tasks[i]]
    /\ conn' = [conn EXCEPT ![c].at = "closed", ![c].pending = <<>>, ![c].chats = {}]
    /\ current' = IF c = current THEN 0 ELSE current
    /\ UNCHANGED <<generation, screen, known, tree, draft, untitled, sent, working>>

\* The window learns that a turn has ended.
TurnEnds(s) ==
    /\ Settled /\ s \in working
    /\ current # 0 /\ Subscribed(current, s)
    /\ working' = working \ {s}
    /\ UNCHANGED <<wires, tasks, screen, known, loading, tree, draft, untitled,
                   submitting, sent, count>>

\* The agent changes files at the host.
TreeChanges(w) ==
    /\ Settled /\ tree[w] < MaxTree
    /\ tree' = [tree EXCEPT ![w] = @ + 1]
    /\ UNCHANGED <<wires, tasks, screen, known, loading, drafts, count>>

----------------------------------------------------------------------------

Init ==
    /\ conn = <<>> /\ generation = 0 /\ current = 0
    /\ tasks = [i \in Slots |-> Idle]
    /\ selected = None /\ active = None /\ known = Existing
    /\ loads = [w \in Workspaces |-> 0]
    /\ state = [w \in Workspaces |-> "idle"]
    /\ files = [w \in Workspaces |-> 0] /\ tree = files
    /\ draft = [s \in Sessions |-> 0]
    /\ untitled = [w \in Workspaces |-> 0] /\ submitting = FALSE
    /\ sent = [s |-> None, text |-> 0, on |-> 0] /\ working = {}
    /\ edits = 0 /\ commands = 0 /\ faults = 0

User ==
    \/ \E s \in Sessions : Open(s) \/ Submit(s)
    \/ \E w \in Workspaces : Pick(w)
    \/ NewSession \/ Type \/ Send \/ Refresh

GoOn(i) == Reuse(i) \/ Connect(i) \/ Select(i) \/ Show(i) \/ Compose(i) \/ Create(i)

Socket(c) == Connected(c) \/ ConnectFails(c) \/ SocketClosed(c)

Answer(c) ==
    \/ AnswerSession(c) \/ AnswerChat(c) \/ AnswerChangeset(c) \/ AnswerFiles(c)
    \/ AnswerTerminals(c) \/ AnswerCreate(c) \/ Refused(c)

Next ==
    \/ User
    \/ \E i \in Slots : GoOn(i)
    \/ \E c \in 1..MaxConns : Socket(c) \/ Answer(c)
    \/ \E s \in Sessions : TurnEnds(s)
    \/ \E w \in Workspaces : TreeChanges(w)

Spec == Init /\ [][Next]_vars

----------------------------------------------------------------------------
(* Properties. *)

Requests == [task : 0..MaxTasks, s : Sessions \cup {None}, ask : Asks]

(* The values the variables may take. *)
TypeOK ==
    /\ DOMAIN conn = Conns /\ current \in 0..generation
    /\ \A c \in Conns :
           /\ conn[c].ws \in Workspaces
           /\ conn[c].at \in {"connecting", "open", "closing", "closed"}
           /\ conn[c].chats \subseteq Sessions
           /\ \A k \in DOMAIN conn[c].pending : conn[c].pending[k] \in Requests
    /\ \A i \in Slots :
           /\ tasks[i].at \in {"idle", "attach", "connecting", "attached", "waiting"}
           /\ tasks[i].at \in {"connecting", "attached", "waiting"} => tasks[i].on \in Conns
           /\ tasks[i].waits \subseteq Strands
    /\ selected \in Workspaces \cup {None} /\ active \in known \cup {None}
    /\ known \subseteq Sessions /\ working \subseteq known
    /\ state \in [Workspaces -> {"idle", "loading", "ready", "error"}]

(* WorkspaceAttachmentService: however connections are superseded, refused *)
(* and lost, the one that is open is the one in use, and no other.         *)
AtMostOneClient == \A c \in Conns : conn[c].at = "open" <=> c = current

(* AHPClient has no timeouts, so a command under way must have a           *)
(* connection that is being made, or a request that is still to be         *)
(* answered or rejected; and a workspace that WorkspaceResourceService     *)
(* shows as loading must have a load, the newest one, that will end it.    *)
NobodyWaitsInVain ==
    /\ \A i \in Slots :
           /\ tasks[i].at = "connecting" => conn[tasks[i].on].at = "connecting"
           /\ tasks[i].at = "waiting" =>
                  \E k \in DOMAIN conn[tasks[i].on].pending :
                      conn[tasks[i].on].pending[k].task = i
    /\ \A w \in Workspaces : state[w] = "loading" =>
           \E i \in Slots : tasks[i].ws = w /\ tasks[i].load = loads[w] /\ Loading(i)

(* WorkspaceResourceService: overlapping loads never put an older listing  *)
(* over a newer one.                                                       *)
FilesNeverGoBack == [][\A w \in Workspaces : files'[w] >= files[w]]_files

(* SessionService.send and create: attachments come and go while a command *)
(* waits; a prompt is put on the open connection to the workspace of its   *)
(* session, after the session's channels were learnt there.                *)
PromptsReachTheirHost ==
    [][sent' # sent =>
          LET c == conn[sent'.on]
          IN c.at = "open" /\ c.ws = Home[sent'.s] /\ sent'.s \in c.chats]_sent

=============================================================================
