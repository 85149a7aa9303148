-------------------------- MODULE WorkbenchComposer --------------------------
(***************************************************************************)
(* Composing a message: AgentComposer, the input of the new session view   *)
(* (NewSessionView, one draft for each workspace) and of each active       *)
(* session view (ChatSessionService, one draft for each session).          *)
(*                                                                         *)
(* What the services hold and what a view shows are separate state.  The   *)
(* editor and the attachments are brought up to date by "refresh", the     *)
(* pickers in the toolbar only by "refreshPickers", and the permission     *)
(* picker when its view builds it.  refreshPickers falls back to the first *)
(* model and effort on offer and puts them into the draft in a microtask,  *)
(* which runs before anything that awaits goes on: a correction is part of *)
(* the step that asks for it.                                              *)
(*                                                                         *)
(* A text and a file are numbers.  The agent of a draft, the state of the  *)
(* workspaces and the turns of the sessions are left out: workspaces run,  *)
(* a turn may be over at any time, and what a stopped workspace refuses is *)
(* a failure here.                                                         *)
(***************************************************************************)
EXTENDS Naturals, Sequences, FiniteSets, Functions, SequencesExt

CONSTANTS
    Workspaces,
    Sessions,
    Existing,   \* the sessions there are at the beginning
    Models,
    EffortsOf,  \* the reasoning efforts of each model
    Offers,     \* the lists of models that the control plane may offer
    None,       \* no workspace, no model, no effort: "" or null in the code
    MaxActs     \* bound: what the user and the services do in a behaviour

New == "new session"

ASSUME ComposerAssumption ==
    /\ Existing \subseteq Sessions
    /\ EffortsOf \in [Models -> Seq(STRING)]
    /\ Offers \subseteq Seq(Models)
    /\ None \notin Workspaces \cup Sessions \cup Models
    /\ Workspaces \cap Sessions = {} /\ New \notin Sessions
    /\ MaxActs \in Nat

VARIABLES
    held,      \* compositions and states: the draft of each session and workspace
    view,      \* the views, and what each of them shows
    active,    \* ActiveSessionService.selected, None for the new session view
    selected,  \* WorkspaceService.selectedWorkspaceID
    offer,     \* ManagementService.models and modelsState
    reads,     \* files being read, and the view each was dropped on
    creating,  \* what NewSessionView.submit has sent to be created
    sends,     \* messages on their way to a session
    known,     \* the sessions there are
    acts       \* acts so far

vars == <<held, view, active, selected, offer, reads, creating, sends, known, acts>>

Views == Sessions \cup {New}
Keys == Sessions \cup Workspaces \cup {None}
Modes == {"agent", "plan"}          \* and "ask"
Approvals == {"ask", "autopilot"}   \* and "allow"

\* emptyComposition, emptyState
Empty == [draft |-> 0, files |-> <<>>, mode |-> "agent", approval |-> "ask",
          model |-> None, effort |-> None]

\* The draft a view edits: that of its session, or of the selected workspace.
Key(v) == IF v = New THEN selected ELSE v

Visible == IF active = None THEN New ELSE active

Filled(c) == c.draft # 0 \/ c.files # <<>>

NoInput == [ws |-> None, input |-> Empty]

\* NewSessionView.submitting
Submitting == creating # NoInput \/ \E t \in sends : t.ws # None

----------------------------------------------------------------------------
(* What a view shows. *)

\* The first of what is on offer, unless it offers what is chosen.
OrFirst(chosen, list) ==
    IF chosen \in Range(list) THEN chosen ELSE IF list = <<>> THEN None ELSE Head(list)

SelectedModel(c, o) == OrFirst(c.model, o.models)

Efforts(model) == IF model = None THEN <<>> ELSE EffortsOf[model]

\* The pickers that refreshPickers builds from a draft.  had: the handler of
\* the effort picker keeps whether the draft had a model then.
Pickers(c, o) ==
    LET model == SelectedModel(c, o)
    IN [mode |-> c.mode, model |-> model, effort |-> OrFirst(c.effort, Efforts(model)),
        had |-> c.model # None]

\* The draft after refreshPickers and its microtask.
Corrected(c, o) ==
    IF o.state = "ready"
    THEN [c EXCEPT !.model = Pickers(c, o).model, !.effort = Pickers(c, o).effort] ELSE c

Editor(c) == [draft |-> c.draft, files |-> c.files]

\* AgentComposer.refresh
Refreshed(shown, c) == [shown EXCEPT !.editor = Editor(c)]

\* A view just made.
Made(how, c, o) ==
    [made |-> how, editor |-> Editor(c), pickers |-> Pickers(c, o), approval |-> c.approval]

\* ManagementService before it loads for the first time.
Starting == [models |-> <<>>, state |-> "idle"]

NotMade == Made("no", Empty, Starting)

IsMade(v) == view[v].made # "no"

\* The new session view refuses input until it has a workspace and models.
Enabled(v) ==
    v = New => /\ ~Submitting /\ selected # None
               /\ offer.state \notin {"error", "loading"}
               /\ offer.state = "ready" => offer.models # <<>>

Act == acts < MaxActs /\ acts' = acts + 1

\* A draft changes.  ChatSessionService tells the view of the session; the
\* new session view shows no more than what its composer does by itself.
Change(v, c, shown) ==
    /\ held' = [held EXCEPT ![Key(v)] = c]
    /\ view' = [view EXCEPT ![v] = IF v = New THEN shown ELSE Refreshed(shown, c)]

\* What the user does to the view on screen.
Edit(c, shown) ==
    /\ Act /\ Change(Visible, c, shown)
    /\ UNCHANGED <<active, selected, offer, reads, creating, sends, known>>

Draft == held[Key(Visible)]
Shown == view[Visible]

\* A picker shows what was chosen from it.
Picked(name, value) == [Shown EXCEPT !.pickers[name] = value]

----------------------------------------------------------------------------
(* The composer on screen. *)

Type ==
    /\ Enabled(Visible)
    /\ Edit([Draft EXCEPT !.draft = acts'], [Shown EXCEPT !.editor.draft = acts'])

selectMode(mode) ==
    Edit([Draft EXCEPT !.mode = mode], Picked("mode", mode))

\* Mutant: the effort picker keeps offering the efforts of the model before.
BugselectModel(model) ==
    /\ offer.state = "ready" /\ model \in Range(offer.models)
    /\ Edit([Draft EXCEPT !.model = model, !.effort = None], Picked("model", model))

\* The pickers are built anew afterwards, in a microtask.
selectModel(model) ==
    LET c == [Draft EXCEPT !.model = model, !.effort = None] IN
    /\ offer.state = "ready" /\ model \in Range(offer.models)
    /\ Edit(Corrected(c, offer), [Shown EXCEPT !.pickers = Pickers(c, offer)])

\* A draft that had no model when the picker was built gets the one shown.
selectReasoningEffort(effort) ==
    LET p == Shown.pickers IN
    /\ effort \in Range(Efforts(p.model))
    /\ Edit([Draft EXCEPT !.effort = effort,
                          !.model = IF ~p.had /\ p.model # None THEN p.model ELSE @],
            Picked("effort", effort))

\* The permission picker below the editor.
selectApproval(approval) ==
    Edit([Draft EXCEPT !.approval = approval], [Shown EXCEPT !.approval = approval])

removeAttachment(i) ==
    LET c == [Draft EXCEPT !.files = RemoveAt(@, i)] IN
    /\ i \in DOMAIN Shown.editor.files
    /\ Edit(c, [Shown EXCEPT !.editor.files = c.files])

\* Files are chosen or dropped; reading them takes time.
attachFiles ==
    /\ Enabled(Visible)
    /\ Act
    /\ reads' = reads \cup {[view |-> Visible, file |-> acts']}
    /\ UNCHANGED <<held, view, active, selected, offer, creating, sends, known>>

\* They are added to the draft that the view edits by then.
FilesRead(r) ==
    LET c == [held[Key(r.view)] EXCEPT !.files = Append(@, r.file)] IN
    /\ r \in reads
    /\ reads' = reads \ {r}
    /\ Change(r.view, c, [view[r.view] EXCEPT !.editor.files = c.files])
    /\ UNCHANGED <<active, selected, offer, creating, sends, known, acts>>

ReadFails(r) ==
    /\ r \in reads
    /\ reads' = reads \ {r}
    /\ UNCHANGED <<held, view, active, selected, offer, creating, sends, known, acts>>

----------------------------------------------------------------------------
(* The views and the services they listen to. *)

\* SessionPane.showCurrent: a session's view is made once, and kept.
ShowSession(s, how) ==
    /\ active' = s
    /\ view' = [view EXCEPT ![s] = IF IsMade(s) THEN @ ELSE Made(how, held[s], offer)]
    /\ held' = [held EXCEPT ![s] = IF IsMade(s) THEN @ ELSE Corrected(@, offer)]

Open(s) ==
    /\ s \in known /\ active # s
    /\ Act /\ ShowSession(s, "opened")
    /\ UNCHANGED <<selected, offer, reads, creating, sends, known>>

\* zaw.session.new: the view is there already.
NewSession ==
    /\ active # None
    /\ Act /\ active' = None
    /\ UNCHANGED <<held, view, selected, offer, reads, creating, sends, known>>

\* Mutant: the composer of the new session view is not refreshed.
BugWorkspacesChange(w) ==
    /\ Act /\ selected' = w
    /\ view' = [v \in Views |->
           IF v = New THEN [view[v] EXCEPT !.approval = held[w].approval]
           ELSE IF IsMade(v)
           THEN [Refreshed(view[v], held[v]) EXCEPT !.pickers = Pickers(held[v], offer)]
           ELSE view[v]]
    /\ held' = [k \in Keys |-> IF k \in Sessions /\ IsMade(k)
                               THEN Corrected(held[k], offer) ELSE held[k]]
    /\ UNCHANGED <<active, offer, reads, creating, sends, known>>

\* The workspace service has selected a workspace or has news of them: the
\* new session view refreshes, and builds its permission picker anew, and
\* the session views refresh and build their pickers anew.
WorkspacesChange(w) ==
    /\ Act /\ selected' = w
    /\ view' = [v \in Views |->
           IF v = New THEN [Refreshed(view[v], held[w]) EXCEPT !.approval = held[w].approval]
           ELSE IF IsMade(v)
           THEN [Refreshed(view[v], held[v]) EXCEPT !.pickers = Pickers(held[v], offer)]
           ELSE view[v]]
    /\ held' = [k \in Keys |-> IF k \in Sessions /\ IsMade(k)
                               THEN Corrected(held[k], offer) ELSE held[k]]
    /\ UNCHANGED <<active, offer, reads, creating, sends, known>>

\* What the management service offers after a change of it: a reload begins,
\* and the last one that began fails or brings a list of models.
NextOffers ==
    {offer, [offer EXCEPT !.state = "loading"]} \cup
    IF offer.state # "loading" THEN {}
    ELSE {[offer EXCEPT !.state = "error"]} \cup [models : Offers, state : {"ready"}]

\* The management service changes, or the agents do: all pickers are built
\* anew, and the new session view refreshes.
ManagementChanges(o) ==
    /\ Act /\ offer' = o
    /\ view' = [v \in Views |->
           IF ~IsMade(v) THEN view[v]
           ELSE LET c == held[Key(v)]
                    shown == [view[v] EXCEPT !.pickers = Pickers(c, o)]
                IN IF v = New THEN [Refreshed(shown, c) EXCEPT !.approval = c.approval]
                   ELSE shown]
    /\ held' = [k \in Keys |-> IF \E v \in Views : IsMade(v) /\ Key(v) = k
                               THEN Corrected(held[k], o) ELSE held[k]]
    /\ UNCHANGED <<active, selected, reads, creating, sends, known>>

----------------------------------------------------------------------------
(* Creating a session and sending a message. *)

\* NewSessionView.submit
Submit ==
    /\ active = None /\ Enabled(New) /\ Filled(Draft)
    /\ Act
    /\ creating' = [ws |-> selected, input |-> Draft]
    /\ view' = [view EXCEPT ![New] = Refreshed(@, Draft)]
    /\ UNCHANGED <<held, active, selected, offer, reads, sends, known>>

\* SessionService.send reads the draft at once when its workspace is attached,
\* and after attaching it otherwise.
Message(s, w, c) == {[s |-> s, ws |-> w, composed |-> TRUE, input |-> c],
                     [s |-> s, ws |-> w, composed |-> FALSE, input |-> Empty]}

Send ==
    /\ active # None /\ Filled(Draft)
    /\ Act
    /\ \E m \in Message(active, None, Draft) : sends' = sends \cup {m}
    /\ UNCHANGED <<held, view, active, selected, offer, reads, creating, known>>

\* Mutant: the draft is given to the session before its view is made.
BugCreated(s) ==
    LET found == Corrected(held[s], offer) IN
    /\ creating # NoInput /\ s \notin known
    /\ known' = known \cup {s}
    /\ creating' = NoInput
    /\ active' = s
    /\ held' = [held EXCEPT ![s] = [creating.input EXCEPT !.model = found.model,
                                                          !.effort = found.effort]]
    /\ view' = [view EXCEPT ![s] =
                    Refreshed(Made("created", held[s], offer), creating.input)]
    /\ \E m \in Message(s, creating.ws, creating.input) : sends' = sends \cup {m}
    /\ UNCHANGED <<selected, offer, reads, acts>>

\* The session is there: its view is made and corrects the empty draft it
\* finds; only then zaw.session.create goes on, gives the session the draft
\* that was submitted, and sends it.
Created(s) ==
    /\ creating # NoInput /\ s \notin known
    /\ known' = known \cup {s}
    /\ creating' = NoInput
    /\ active' = s
    /\ held' = [held EXCEPT ![s] = creating.input]
    /\ view' = [view EXCEPT ![s] =
                    Refreshed(Made("created", held[s], offer), creating.input)]
    /\ \E m \in Message(s, creating.ws, creating.input) : sends' = sends \cup {m}
    /\ UNCHANGED <<selected, offer, reads, acts>>

\* The draft stays as it is.
CreateFails ==
    /\ creating # NoInput
    /\ creating' = NoInput
    /\ view' = [view EXCEPT ![New] = Refreshed(@, held[selected])]
    /\ UNCHANGED <<held, active, selected, offer, reads, sends, known, acts>>

\* A message that was to attach first is composed.
Compose(m) ==
    /\ m \in sends /\ ~m.composed /\ Filled(held[m.s])
    /\ sends' = (sends \ {m}) \cup {[m EXCEPT !.composed = TRUE, !.input = held[m.s]]}
    /\ UNCHANGED <<held, view, active, selected, offer, reads, creating, known, acts>>

\* The end of a message: the drafts that change, in cleared, are shown; the
\* state of a workspace is forgotten once the session made from it has got it.
Finish(m, cleared) ==
    /\ sends' = sends \ {m}
    /\ held' = [k \in Keys |-> IF k = m.ws /\ k # None THEN Empty
                               ELSE IF k \in cleared
                               THEN [held[k] EXCEPT !.draft = 0, !.files = <<>>] ELSE held[k]]
    /\ view' = [v \in Views |-> IF v \in cleared \/ (v = New /\ m.ws # None)
                                THEN Refreshed(view[v], held'[Key(v)]) ELSE view[v]]
    /\ UNCHANGED <<active, selected, offer, reads, creating, known, acts>>

\* promptSession has resolved: clearAfterSend.
Prompted(m) == m \in sends /\ m.composed /\ Finish(m, {m.s})

\* There is nothing left to send when the workspace is attached.
NothingToSend(m) == m \in sends /\ ~m.composed /\ ~Filled(held[m.s]) /\ Finish(m, {})

\* Attaching or subscribing fails: all drafts stay.
SendFails(m) ==
    /\ m \in sends
    /\ sends' = sends \ {m}
    /\ view' = [view EXCEPT ![New] = IF m.ws # None THEN Refreshed(@, held[selected]) ELSE @]
    /\ UNCHANGED <<held, active, selected, offer, reads, creating, known, acts>>

----------------------------------------------------------------------------
(* The page. *)

\* What the storage gives back: ChatSessionService stores no effort.
Restored(k) == IF k \in Sessions THEN [held[k] EXCEPT !.effort = None] ELSE held[k]

\* The page is loaded again; whatever was under way is lost.
Reload ==
    /\ Act
    /\ held' = [k \in Keys |-> Restored(k)]
    /\ view' = [v \in Views |-> IF v = New THEN Made("opened", Restored(None), Starting)
                                           ELSE NotMade]
    /\ active' = None /\ selected' = None /\ offer' = Starting
    /\ reads' = {} /\ creating' = NoInput /\ sends' = {}
    /\ UNCHANGED known

Init ==
    /\ held = [k \in Keys |-> Empty]
    /\ view = [v \in Views |-> IF v = New THEN Made("opened", Empty, Starting) ELSE NotMade]
    /\ active = None /\ selected = None /\ offer = Starting
    /\ reads = {} /\ creating = NoInput /\ sends = {}
    /\ known = Existing /\ acts = 0

User ==
    \/ Type \/ attachFiles \/ Submit \/ Send \/ NewSession \/ Reload
    \/ \E mode \in Modes : selectMode(mode)
    \/ \E model \in Models : selectModel(model)
    \/ \E effort \in UNION {Range(EffortsOf[m]) : m \in Models} : selectReasoningEffort(effort)
    \/ \E approval \in Approvals : selectApproval(approval)
    \/ \E i \in DOMAIN Shown.editor.files : removeAttachment(i)
    \/ \E s \in Sessions : Open(s)

Services ==
    \/ \E w \in Workspaces \cup {selected} : WorkspacesChange(w)
    \/ \E o \in NextOffers : ManagementChanges(o)
    \/ \E r \in reads : FilesRead(r) \/ ReadFails(r)
    \/ \E s \in Sessions : Created(s)
    \/ CreateFails
    \/ \E m \in sends : Compose(m) \/ Prompted(m) \/ NothingToSend(m) \/ SendFails(m)

Next == User \/ Services

Spec == Init /\ [][Next]_vars

----------------------------------------------------------------------------
(* Properties. *)

(* AgentComposer.refresh: whatever clears, restores, corrects or moves a   *)
(* draft, the editor and the attachments of every view are those of the    *)
(* draft that will be sent from it.                                        *)
EditorShowsDraft ==
    \A v \in Views : IsMade(v) => view[v].editor = Editor(held[Key(v)])

(* zaw.session.create: a session begins with the draft that was submitted, *)
(* although the making of its view corrects the draft of the session too.  *)
CreatedAsSubmitted ==
    [][\A s \in known' \ known :
          /\ held'[s] = creating.input
          /\ view'[s].editor = Editor(creating.input)]_known

\* The choices a view shows and those in its draft.
PickersAgree(v) ==
    LET c == held[Key(v)]
        p == view[v].pickers
    IN <<p.mode, p.model, p.effort, view[v].approval>> = <<c.mode, c.model, c.effort, c.approval>>

(* refreshPickers: with the models loaded, the pickers of a session that   *)
(* was opened show what its messages are sent with, whatever models come   *)
(* and go and however choices depend on each other.                        *)
OpenedPickersAgree ==
    offer.state = "ready" => \A s \in Sessions : view[s].made = "opened" => PickersAgree(s)

(* The same of the new session view, whose draft changes with the          *)
(* workspace (workbench-refactoring-roadmap.md: model and permission are   *)
(* kept for each untitled session, switching does not mix their states).   *)
NewPickersAgree == active = None /\ offer.state = "ready" => PickersAgree(New)

==============================================================================
