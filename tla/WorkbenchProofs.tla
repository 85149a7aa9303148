---------------------------- MODULE WorkbenchProofs ----------------------------
(***************************************************************************)
(* The composer and the settings window of the workbench, two components   *)
(* that share no state, for every value of their constants.                *)
(***************************************************************************)
EXTENDS WorkbenchComposer, WorkbenchManagement, SequenceTheorems, TLAPS

-----------------------------------------------------------------------------
(***************************************************************************)
(* WorkbenchComposer.                                                      *)
(*                                                                         *)
(* For any workspaces, sessions, models and number of acts, the editor of  *)
(* every view shows the draft that will be sent from it, the pickers of a  *)
(* session that was opened agree with its draft, and a session begins with *)
(* what was submitted.  The argument needs that no two views edit the same *)
(* draft (OwnDrafts), which is why a step that changes one draft has to    *)
(* refresh one view only.                                                  *)
(***************************************************************************)

\* Records with the fields of a draft, of a view and of a message.
Fields == {"draft", "files", "mode", "approval", "model", "effort"}

IsDraft(c) == c = [f \in Fields |-> c[f]]

IsEditor(e) == e = [f \in {"draft", "files"} |-> e[f]]

IsView(s) ==
    /\ s = [f \in {"made", "editor", "pickers", "approval"} |-> s[f]]
    /\ IsEditor(s.editor)

IsMessage(m) ==
    /\ m = [f \in {"s", "ws", "composed", "input"} |-> m[f]]
    /\ m.s \in Sessions /\ m.ws \in Workspaces \cup {None}

HeldShape == held = [k \in Keys |-> held[k]] /\ \A k \in Keys : IsDraft(held[k])

ViewShape == view = [v \in Views |-> view[v]] /\ \A v \in Views : IsView(view[v])

Selection == selected \in Workspaces \cup {None} /\ active \in Sessions \cup {None}

UnderWay ==
    /\ \A r \in reads : r.view \in Views
    /\ creating.ws \in Workspaces \cup {None} /\ IsDraft(creating.input)
    /\ \A m \in sends : IsMessage(m)

IInv == HeldShape /\ ViewShape /\ Selection /\ UnderWay /\ EditorShowsDraft

----------------------------------------------------------------------------

\* NewSessionInputModel keeps its drafts by workspace and ChatSessionService
\* by session: each view edits a draft of its own.
LEMMA OwnDrafts ==
    ASSUME Selection, NEW v \in Views
    PROVE  Key(v) \in Keys /\ \A w \in Views : w # v => Key(w) # Key(v)
  BY ComposerAssumption DEF Selection, Views, Keys, Key

\* AgentComposer reads the draft of the view on screen.
LEMMA OnScreen == ASSUME Selection PROVE Visible \in Views
  BY DEF Selection, Visible, Views

\* refresh and the correction of a draft keep the fields; a correction leaves
\* what the editor shows alone.
LEMMA RefreshedView ==
    ASSUME NEW s, IsView(s), NEW c
    PROVE  IsView(Refreshed(s, c)) /\ Refreshed(s, c).editor = Editor(c)
           /\ Refreshed(s, c).made = s.made
  BY DEF IsView, IsEditor, Refreshed, Editor

\* Building a picker leaves the editor alone.
LEMMA PickerOnly ==
    ASSUME NEW s, IsView(s), NEW x
    PROVE  /\ IsView([s EXCEPT !.pickers = x]) /\ IsView([s EXCEPT !.approval = x])
           /\ [s EXCEPT !.pickers = x].editor = s.editor
           /\ [s EXCEPT !.pickers = x].made = s.made
           /\ [s EXCEPT !.approval = x].editor = s.editor
           /\ [s EXCEPT !.approval = x].made = s.made
  BY DEF IsView

\* The attachments are drawn after they change.
LEMMA FilesDrawn ==
    ASSUME NEW c, IsDraft(c), NEW s, IsView(s), NEW x
    PROVE  /\ IsDraft([c EXCEPT !.files = x]) /\ IsView([s EXCEPT !.editor.files = x])
           /\ [s EXCEPT !.editor.files = x].made = s.made
           /\ s.editor = Editor(c)
              => [s EXCEPT !.editor.files = x].editor = Editor([c EXCEPT !.files = x])
<1>1. IsDraft([c EXCEPT !.files = x]) /\ IsView([s EXCEPT !.editor.files = x])
  BY DEF IsDraft, IsView, IsEditor
<1>2. [s EXCEPT !.editor.files = x].made = s.made
  BY DEF IsView
<1>3. s.editor = Editor(c)
      => [s EXCEPT !.editor.files = x].editor = Editor([c EXCEPT !.files = x])
  BY DEF IsDraft, Fields, IsView, IsEditor, Editor
<1> QED  BY <1>1, <1>2, <1>3

LEMMA TwoFields ==
    ASSUME NEW c, IsDraft(c), NEW m, NEW e
    PROVE  /\ IsDraft([c EXCEPT !.model = m, !.effort = e])
           /\ Editor([c EXCEPT !.model = m, !.effort = e]) = Editor(c)
           /\ IsDraft([c EXCEPT !.effort = e, !.model = m])
           /\ Editor([c EXCEPT !.effort = e, !.model = m]) = Editor(c)
<1>1. /\ IsDraft([c EXCEPT !.model = m, !.effort = e])
      /\ IsDraft([c EXCEPT !.effort = e, !.model = m])
  BY DEF IsDraft
<1>2. /\ Editor([c EXCEPT !.model = m, !.effort = e]) = Editor(c)
      /\ Editor([c EXCEPT !.effort = e, !.model = m]) = Editor(c)
  BY DEF IsDraft, Editor, Fields
<1> QED  BY <1>1, <1>2

LEMMA CorrectedDraft ==
    ASSUME NEW c, IsDraft(c), NEW o
    PROVE  IsDraft(Corrected(c, o)) /\ Editor(Corrected(c, o)) = Editor(c)
  BY DEF IsDraft, Corrected, Editor, Fields

LEMMA MadeView ==
    ASSUME NEW how, NEW c, NEW o
    PROVE  IsView(Made(how, c, o)) /\ Made(how, c, o).editor = Editor(c)
           /\ Made(how, c, o).made = how
  BY DEF IsView, IsEditor, Made, Editor

LEMMA EmptyDraft == IsDraft(Empty) /\ NoInput.ws = None /\ NoInput.input = Empty
  BY DEF IsDraft, Fields, Empty, NoInput

\* A draft changes together with the view that edits it (onChange and what
\* the composer or the listener of ChatSessionService draws after it).
LEMMA ChangeKeeps ==
    ASSUME IInv, NEW v \in Views, NEW c, IsDraft(c), NEW s, IsView(s),
           s.made = view[v].made, s.made # "no" => s.editor = Editor(c),
           Change(v, c, s), UNCHANGED selected
    PROVE  HeldShape' /\ ViewShape' /\ EditorShowsDraft'
<1>1. Key(v) \in Keys /\ \A w \in Views : w # v => Key(w) # Key(v)
  BY OwnDrafts DEF IInv
<1>2. HeldShape' /\ held'[Key(v)] = c /\ \A k \in Keys : k # Key(v) => held'[k] = held[k]
  BY <1>1 DEF IInv, HeldShape, Change
<1>3. /\ IsView(IF v = New THEN s ELSE Refreshed(s, c))
      /\ s.made # "no" => (IF v = New THEN s ELSE Refreshed(s, c)).editor = Editor(c)
      /\ (IF v = New THEN s ELSE Refreshed(s, c)).made = s.made
  BY RefreshedView
<1>4. /\ ViewShape'
      /\ IsMade(v)' => view'[v].editor = Editor(c)
      /\ \A w \in Views : w # v => view'[w] = view[w]
  BY <1>3 DEF IInv, ViewShape, Change, IsMade
<1>5. EditorShowsDraft'
  <2> SUFFICES ASSUME NEW w \in Views, view'[w].made # "no"
               PROVE  view'[w].editor = Editor(held'[Key(w)])
    BY DEF EditorShowsDraft, IsMade, Key, Editor
  <2>1. CASE w = v
    BY <2>1, <1>2, <1>4 DEF IsMade
  <2>2. CASE w # v
    <3>1. Key(w) \in Keys /\ Key(w) # Key(v)
      BY <2>2, <1>1, OwnDrafts DEF IInv
    <3> QED  BY <2>2, <3>1, <1>2, <1>4 DEF IInv, EditorShowsDraft, IsMade
  <2> QED  BY <2>1, <2>2
<1> QED  BY <1>2, <1>4, <1>5

\* An action of the composer on screen.
LEMMA EditKeeps ==
    ASSUME IInv, NEW c, IsDraft(c), NEW s, IsView(s), s.made = Shown.made,
           s.made # "no" => s.editor = Editor(c), Edit(c, s)
    PROVE  IInv'
<1>1. Visible \in Views
  BY OnScreen DEF IInv
<1>2. HeldShape' /\ ViewShape' /\ EditorShowsDraft'
  BY <1>1, ChangeKeeps DEF Edit, Shown
<1> QED  BY <1>2 DEF IInv, Selection, UnderWay, Edit, IsMessage

----------------------------------------------------------------------------

THEOREM Begins == Init => IInv
<1> SUFFICES ASSUME Init PROVE IInv
  OBVIOUS
<1>1. HeldShape /\ \A k \in Keys : held[k] = Empty
  BY EmptyDraft DEF Init, HeldShape
<1>2. /\ ViewShape
      /\ \A v \in Views : view[v].editor = Editor(Empty)
  BY MadeView DEF Init, ViewShape, NotMade
<1>3. Selection /\ UnderWay
  BY EmptyDraft DEF Init, Selection, UnderWay
<1>4. \A v \in Views : Key(v) \in Keys
  BY <1>3, OwnDrafts
<1> QED  BY <1>1, <1>2, <1>3, <1>4 DEF IInv, EditorShowsDraft

LEMMA UserKeeps == ASSUME IInv, User PROVE IInv'
<1>v. /\ Visible \in Views /\ IsView(Shown) /\ IsDraft(Draft)
      /\ Shown.made # "no" => Shown.editor = Editor(Draft)
  BY OnScreen, OwnDrafts DEF IInv, ViewShape, HeldShape, EditorShowsDraft, IsMade, Shown, Draft
<1>p. \A name, value : /\ IsView(Picked(name, value))
                       /\ Picked(name, value).made = Shown.made
                       /\ Picked(name, value).editor = Shown.editor
  BY <1>v DEF IsView, IsEditor, Picked
<1>1. CASE Type
  <2> DEFINE c == [Draft EXCEPT !.draft = acts']
             s == [Shown EXCEPT !.editor.draft = acts']
  <2>1. IsDraft(c) /\ IsView(s) /\ s.made = Shown.made
    BY <1>v DEF IsDraft, IsView, IsEditor
  <2>2. s.made # "no" => s.editor = Editor(c)
    BY <1>v DEF IsDraft, Fields, IsView, IsEditor, Editor
  <2> QED  BY <1>1, <2>1, <2>2, EditKeeps DEF Type
<1>2. ASSUME NEW mode, selectMode(mode) PROVE IInv'
  <2>1. IsDraft([Draft EXCEPT !.mode = mode]) /\ Editor([Draft EXCEPT !.mode = mode]) = Editor(Draft)
    BY <1>v DEF IsDraft, Fields, Editor
  <2> QED  BY <1>2, <1>v, <1>p, <2>1, EditKeeps DEF selectMode
<1>3. ASSUME NEW model, selectModel(model) PROVE IInv'
  <2> DEFINE c == [Draft EXCEPT !.model = model, !.effort = None]
             s == [Shown EXCEPT !.pickers = Pickers(c, offer)]
  <2>1. IsDraft(c) /\ Editor(c) = Editor(Draft)
    <3>1. IsDraft(c)
      BY <1>v DEF IsDraft
    <3>2. Editor(c) = Editor(Draft)
      BY <1>v DEF IsDraft, Fields, Editor
    <3> QED  BY <3>1, <3>2
  <2>2. IsDraft(Corrected(c, offer)) /\ Editor(Corrected(c, offer)) = Editor(Draft)
    BY <2>1, CorrectedDraft
  <2>3. IsView(s) /\ s.made = Shown.made /\ s.editor = Shown.editor
    BY <1>v DEF IsView, IsEditor
  <2>4. Edit(Corrected(c, offer), s)
    BY <1>3 DEF selectModel
  <2> QED  BY <1>v, <2>2, <2>3, <2>4, EditKeeps
<1>4. ASSUME NEW effort, selectReasoningEffort(effort) PROVE IInv'
  <2> DEFINE p == Shown.pickers
             c == [Draft EXCEPT !.effort = effort,
                                !.model = IF ~p.had /\ p.model # None THEN p.model ELSE @]
  <2>1. IsDraft(c) /\ Editor(c) = Editor(Draft)
    BY <1>v, TwoFields
  <2>2. Edit(c, Picked("effort", effort))
    BY <1>4 DEF selectReasoningEffort
  <2> QED  BY <1>v, <1>p, <2>1, <2>2, EditKeeps
<1>5. ASSUME NEW approval, selectApproval(approval) PROVE IInv'
  <2> DEFINE c == [Draft EXCEPT !.approval = approval]
             s == [Shown EXCEPT !.approval = approval]
  <2>1. IsDraft(c) /\ Editor(c) = Editor(Draft)
    BY <1>v DEF IsDraft, Fields, Editor
  <2>2. IsView(s) /\ s.made = Shown.made /\ s.editor = Shown.editor
    BY <1>v DEF IsView, IsEditor
  <2> QED  BY <1>5, <1>v, <2>1, <2>2, EditKeeps DEF selectApproval
<1>6. ASSUME NEW i, removeAttachment(i) PROVE IInv'
  <2> DEFINE c == [Draft EXCEPT !.files = RemoveAt(@, i)]
             s == [Shown EXCEPT !.editor.files = c.files]
  <2>1. IsDraft(c) /\ IsView(s) /\ s.made = Shown.made
    BY <1>v DEF IsDraft, IsView, IsEditor
  <2>2. s.made # "no" => s.editor = Editor(c)
    BY <1>v DEF IsDraft, Fields, IsView, IsEditor, Editor
  <2>3. Edit(c, s)
    BY <1>6 DEF removeAttachment
  <2> QED  BY <2>1, <2>2, <2>3, EditKeeps
<1>7. CASE attachFiles
  <2>1. \A r \in reads' : r.view \in Views
    BY <1>7, <1>v DEF attachFiles, IInv, UnderWay
  <2>2. UNCHANGED <<held, view, active, selected, creating, sends>>
    BY <1>7 DEF attachFiles
  <2> QED  BY <2>1, <2>2 DEF IInv, HeldShape, ViewShape, Selection, UnderWay, IsMessage,
                              EditorShowsDraft, IsMade, Key
<1>8. CASE Submit
  <2>1. /\ creating' = [ws |-> selected, input |-> Draft]
        /\ view' = [view EXCEPT ![New] = Refreshed(@, Draft)]
        /\ Draft = held[Key(New)] /\ UNCHANGED <<held, active, selected, reads, sends>>
    BY <1>8 DEF Submit, Draft, Visible
  <2>2. ViewShape' /\ Selection' /\ HeldShape' /\ UnderWay'
    BY <1>v, <2>1, RefreshedView DEF IInv, ViewShape, Views, Selection, HeldShape, UnderWay, IsMessage
  <2>3. EditorShowsDraft'
    BY <2>1, RefreshedView DEF IInv, ViewShape, Views, EditorShowsDraft, IsMade, Key, Editor
  <2> QED  BY <2>2, <2>3 DEF IInv
<1>9. CASE Send
  <2>1. UNCHANGED <<held, view, active, selected, reads, creating>>
    BY <1>9 DEF Send
  <2>2. \A m \in sends' : IsMessage(m)
    BY <1>9 DEF Send, Message, IsMessage, IInv, UnderWay, Selection
  <2> QED  BY <2>1, <2>2 DEF IInv, HeldShape, ViewShape, Selection, UnderWay,
                              EditorShowsDraft, IsMade, Key
<1>10. CASE NewSession
  BY <1>10 DEF NewSession, IInv, HeldShape, ViewShape, Selection, UnderWay, IsMessage,
               EditorShowsDraft, IsMade, Key
<1>11. CASE Reload
  <2>1. \A k \in Keys : IsDraft(Restored(k))
    BY DEF Restored, IInv, HeldShape, IsDraft, Fields
  <2>2. HeldShape' /\ \A k \in Keys : held'[k] = Restored(k)
    BY <1>11, <2>1 DEF Reload, HeldShape
  <2>3. /\ ViewShape' /\ Selection' /\ UnderWay'
        /\ view'[New].editor = Editor(Restored(None))
        /\ \A v \in Sessions : view'[v].made = "no"
    BY <1>11, MadeView, EmptyDraft, ComposerAssumption
    DEF Reload, ViewShape, Views, NotMade, Selection, UnderWay
  <2>4. selected' = None /\ None \in Keys
    BY <1>11 DEF Reload, Keys
  <2>5. EditorShowsDraft'
    BY <2>2, <2>3, <2>4 DEF EditorShowsDraft, IsMade, Key, Views, Editor
  <2> QED  BY <2>2, <2>3, <2>5 DEF IInv
<1>12. ASSUME NEW t \in Sessions, Open(t) PROVE IInv'
  <2>1. /\ view' = [view EXCEPT ![t] = IF IsMade(t) THEN @ ELSE Made("opened", held[t], offer)]
        /\ held' = [held EXCEPT ![t] = IF IsMade(t) THEN @ ELSE Corrected(@, offer)]
        /\ active' = t /\ UNCHANGED <<selected, reads, creating, sends>>
    BY <1>12 DEF Open, ShowSession
  <2>2. t \in Views /\ t \in Keys /\ Key(t) = t
    BY ComposerAssumption DEF Views, Keys, Key
  <2>3. HeldShape' /\ \A k \in Keys : Editor(held'[k]) = Editor(held[k])
    BY <2>1, <2>2, CorrectedDraft DEF IInv, HeldShape
  <2>4. /\ ViewShape'
        /\ view'[t].editor = Editor(held[t])
        /\ \A v \in Views : v # t => view'[v] = view[v]
    BY <2>1, <2>2, MadeView DEF IInv, ViewShape, EditorShowsDraft, IsMade
  <2>5. \A v \in Views : Key(v) \in Keys
    BY OwnDrafts DEF IInv
  <2>6. \A v \in Views : view'[v].made # "no" => view'[v].editor = Editor(held'[Key(v)])
    BY <2>2, <2>3, <2>4, <2>5 DEF IInv, EditorShowsDraft, IsMade
  <2>7. EditorShowsDraft'
    BY <2>1, <2>6 DEF EditorShowsDraft, IsMade, Key, Editor
  <2>8. Selection' /\ UnderWay'
    BY <2>1 DEF IInv, Selection, UnderWay, IsMessage
  <2> QED  BY <2>3, <2>4, <2>7, <2>8 DEF IInv
<1> QED
  BY <1>1, <1>2, <1>3, <1>4, <1>5, <1>6, <1>7, <1>8, <1>9, <1>10, <1>11, <1>12 DEF User

----------------------------------------------------------------------------

\* The end of a message: the views whose drafts change are the ones drawn.
LEMMA FinishKeeps ==
    ASSUME IInv, NEW m \in sends, NEW cleared, cleared \subseteq Sessions,
           Finish(m, cleared)
    PROVE  IInv'
<1> DEFINE After(k) == IF k = m.ws /\ k # None THEN Empty
                       ELSE IF k \in cleared
                       THEN [held[k] EXCEPT !.draft = 0, !.files = <<>>] ELSE held[k]
<1>1. /\ held' = [k \in Keys |-> After(k)]
      /\ view' = [v \in Views |-> IF v \in cleared \/ (v = New /\ m.ws # None)
                                  THEN Refreshed(view[v], held'[Key(v)]) ELSE view[v]]
      /\ sends' = sends \ {m} /\ UNCHANGED <<active, selected, reads, creating>>
  BY DEF Finish
<1>2. \A k \in Keys : IsDraft(After(k))
  BY EmptyDraft DEF IInv, HeldShape, IsDraft
<1>3. HeldShape' /\ \A k \in Keys : held'[k] = After(k)
  BY <1>1, <1>2 DEF HeldShape
<1>r. \A v \in Views : \A c : /\ IsView(view[v]) /\ IsView(Refreshed(view[v], c))
                              /\ Refreshed(view[v], c).editor = Editor(c)
                              /\ Refreshed(view[v], c).made = view[v].made
  BY RefreshedView DEF IInv, ViewShape
<1>4. ViewShape'
  <2>1. \A v \in Views : view'[v] = view[v] \/ view'[v] = Refreshed(view[v], held'[Key(v)])
    BY <1>1
  <2>2. \A v \in Views : IsView(view'[v])
    BY <1>r, <2>1
  <2> DEFINE Seen(v) == IF v \in cleared \/ (v = New /\ m.ws # None)
                        THEN Refreshed(view[v], held'[Key(v)]) ELSE view[v]
  <2>3. view' = [v \in Views |-> Seen(v)]
    BY <1>1
  <2> HIDE DEF Seen
  <2>4. view' = [v \in Views |-> view'[v]]
    BY <2>3
  <2> QED  BY <2>2, <2>4 DEF ViewShape
<1>5. ASSUME NEW v \in Views, view'[v].made # "no"
      PROVE  view'[v].editor = Editor(held'[Key(v)])
  <2>1. CASE v \in cleared \/ (v = New /\ m.ws # None)
    BY <1>1, <1>r, <2>1
  <2>2. CASE ~(v \in cleared \/ (v = New /\ m.ws # None))
    <3>1. Key(v) \in Keys /\ Key(v) \notin cleared /\ (Key(v) = m.ws => Key(v) = None)
      BY <2>2, OwnDrafts, ComposerAssumption
      DEF IInv, Selection, UnderWay, IsMessage, Views, Key
    <3>2. held'[Key(v)] = held[Key(v)]
      BY <3>1, <1>3
    <3> QED  BY <1>1, <1>5, <2>2, <3>2 DEF IInv, EditorShowsDraft, IsMade
  <2> QED  BY <2>1, <2>2
<1>k. selected' = selected
  BY <1>1
<1>6. EditorShowsDraft'
  <2>1. ASSUME NEW v \in Views, IsMade(v)' PROVE view'[v].editor = Editor(held[Key(v)])'
    BY <1>5, <1>k, <2>1 DEF IsMade, Key, Editor
  <2> QED  BY <2>1 DEF EditorShowsDraft
<1>7. Selection' /\ UnderWay'
  BY <1>1 DEF IInv, Selection, UnderWay, IsMessage
<1> QED  BY <1>3, <1>4, <1>6, <1>7 DEF IInv

LEMMA ServicesKeep == ASSUME IInv, Services PROVE IInv'
<1>1. ASSUME NEW w \in Workspaces \cup {selected}, WorkspacesChange(w) PROVE IInv'
  <2>1. w \in Keys \ Sessions /\ w \in Workspaces \cup {None}
    BY ComposerAssumption DEF IInv, Selection, Keys
  <2>2. /\ HeldShape' /\ held'[w] = held[w]
        /\ \A k \in Keys : Editor(held'[k]) = Editor(held[k])
    BY <1>1, <2>1, CorrectedDraft DEF WorkspacesChange, IInv, HeldShape
  <2>3. /\ ViewShape'
        /\ view'[New].editor = Editor(held[w])
        /\ \A s \in Sessions : view'[s].made = view[s].made
                               /\ (IsMade(s) => view'[s].editor = Editor(held[s]))
    <3> DEFINE Seen(v) == IF v = New
                          THEN [Refreshed(view[v], held[w]) EXCEPT !.approval = held[w].approval]
                          ELSE IF IsMade(v)
                          THEN [Refreshed(view[v], held[v]) EXCEPT !.pickers = Pickers(held[v], offer)]
                          ELSE view[v]
    <3>r. \A v \in Views : \A c : /\ IsView(view[v]) /\ IsView(Refreshed(view[v], c))
                                  /\ Refreshed(view[v], c).editor = Editor(c)
                                  /\ Refreshed(view[v], c).made = view[v].made
      BY RefreshedView DEF IInv, ViewShape
    <3>1. ASSUME NEW v \in Views PROVE IsView(Seen(v)) /\ Seen(v).made = view[v].made
      <4>1. CASE v = New
        <5> DEFINE r == Refreshed(view[v], held[w])
        <5>1. IsView(r) /\ r.made = view[v].made
          BY <3>r
        <5> HIDE DEF r
        <5>2. /\ IsView([r EXCEPT !.approval = held[w].approval])
              /\ [r EXCEPT !.approval = held[w].approval].made = r.made
          BY <5>1, PickerOnly
        <5> QED  BY <4>1, <5>1, <5>2 DEF r
      <4>2. CASE v # New /\ IsMade(v)
        <5> DEFINE r == Refreshed(view[v], held[v])
        <5>1. IsView(r) /\ r.made = view[v].made
          BY <3>r
        <5> HIDE DEF r
        <5>2. /\ IsView([r EXCEPT !.pickers = Pickers(held[v], offer)])
              /\ [r EXCEPT !.pickers = Pickers(held[v], offer)].made = r.made
          BY <5>1, PickerOnly
        <5> QED  BY <4>2, <5>1, <5>2 DEF r
      <4>3. CASE v # New /\ ~IsMade(v)
        BY <4>3, <3>r
      <4> QED  BY <4>1, <4>2, <4>3
    <3>2. Seen(New).editor = Editor(held[w])
      BY <3>r, PickerOnly DEF Views
    <3>3. ASSUME NEW s \in Sessions, IsMade(s) PROVE Seen(s).editor = Editor(held[s])
      BY <3>3, <3>r, PickerOnly, ComposerAssumption DEF Views
    <3>4. view' = [v \in Views |-> Seen(v)]
      BY <1>1 DEF WorkspacesChange
    <3> QED  BY <3>1, <3>2, <3>3, <3>4 DEF ViewShape, Views
  <2>4. selected' = w /\ UNCHANGED <<active, reads, creating, sends>>
    BY <1>1 DEF WorkspacesChange
  <2>5. EditorShowsDraft'
    <3> SUFFICES ASSUME NEW v \in Views, view'[v].made # "no"
                 PROVE  view'[v].editor = Editor(held'[IF v = New THEN w ELSE v])
      BY <2>4 DEF EditorShowsDraft, IsMade, Key, Editor
    <3> QED  BY <2>2, <2>3 DEF Views, Keys, IsMade
  <2>6. Selection' /\ UnderWay'
    BY <2>1, <2>4 DEF IInv, Selection, UnderWay, IsMessage
  <2> QED  BY <2>2, <2>3, <2>5, <2>6 DEF IInv
<1>2. ASSUME NEW o, ManagementChanges(o) PROVE IInv'
  <2>1. HeldShape' /\ \A k \in Keys : Editor(held'[k]) = Editor(held[k])
    BY <1>2, CorrectedDraft DEF ManagementChanges, IInv, HeldShape
  <2>2. /\ ViewShape'
        /\ \A v \in Views : /\ view'[v].made = view[v].made
                            /\ IsMade(v) => view'[v].editor = Editor(held[Key(v)])
    <3> DEFINE Drawn(v) == [view[v] EXCEPT !.pickers = Pickers(held[Key(v)], o)]
               Seen(v) == IF ~IsMade(v) THEN view[v]
                          ELSE IF v = New
                          THEN [Refreshed(Drawn(v), held[Key(v)]) EXCEPT
                                    !.approval = held[Key(v)].approval]
                          ELSE Drawn(v)
    <3>1. ASSUME NEW v \in Views
          PROVE  IsView(Drawn(v)) /\ Drawn(v).made = view[v].made
                 /\ Drawn(v).editor = view[v].editor
      BY DEF IInv, ViewShape, IsView, IsEditor
    <3>2. ASSUME NEW v \in Views
          PROVE  IsView(Seen(v)) /\ Seen(v).made = view[v].made
                 /\ (IsMade(v) => Seen(v).editor = Editor(held[Key(v)]))
      <4>1. CASE v = New /\ IsMade(v)
        <5>1. /\ IsView(Refreshed(Drawn(v), held[Key(v)]))
              /\ Refreshed(Drawn(v), held[Key(v)]).editor = Editor(held[Key(v)])
              /\ Refreshed(Drawn(v), held[Key(v)]).made = Drawn(v).made
          BY <3>1, RefreshedView
        <5> DEFINE r == Refreshed(Drawn(v), held[Key(v)])
        <5>2. Seen(v) = [r EXCEPT !.approval = held[Key(v)].approval]
          BY <4>1
        <5>3. IsView(r) /\ r.editor = Editor(held[Key(v)]) /\ r.made = view[v].made
          BY <3>1, <5>1
        <5> HIDE DEF Seen, r
        <5>4. /\ IsView([r EXCEPT !.approval = held[Key(v)].approval])
              /\ [r EXCEPT !.approval = held[Key(v)].approval].editor = r.editor
              /\ [r EXCEPT !.approval = held[Key(v)].approval].made = r.made
          BY <5>3, PickerOnly
        <5> QED  BY <5>2, <5>3, <5>4
      <4>2. CASE ~(v = New /\ IsMade(v))
        BY <3>1, <4>2 DEF IInv, ViewShape, EditorShowsDraft
      <4> QED  BY <4>1, <4>2
    <3>3. view' = [v \in Views |-> Seen(v)]
      BY <1>2 DEF ManagementChanges
    <3> QED  BY <3>2, <3>3 DEF ViewShape
  <2>3. UNCHANGED <<active, selected, reads, creating, sends>>
    BY <1>2 DEF ManagementChanges
  <2>4. EditorShowsDraft'
    <3> SUFFICES ASSUME NEW v \in Views, view'[v].made # "no"
                 PROVE  view'[v].editor = Editor(held'[Key(v)])
      BY <2>3 DEF EditorShowsDraft, IsMade, Key, Editor
    <3> QED  BY <2>1, <2>2, OwnDrafts DEF IInv, IsMade
  <2>5. Selection' /\ UnderWay'
    BY <2>3 DEF IInv, Selection, UnderWay, IsMessage
  <2> QED  BY <2>1, <2>2, <2>4, <2>5 DEF IInv
<1>3. ASSUME NEW r \in reads, FilesRead(r) PROVE IInv'
  <2> DEFINE c == [held[Key(r.view)] EXCEPT !.files = Append(@, r.file)]
             s == [view[r.view] EXCEPT !.editor.files = c.files]
  <2>1. r.view \in Views /\ Key(r.view) \in Keys
    BY OwnDrafts DEF IInv, UnderWay
  <2>2. IsDraft(held[Key(r.view)]) /\ IsView(view[r.view])
    BY <2>1 DEF IInv, HeldShape, ViewShape
  <2>3. /\ IsDraft(c) /\ IsView(s) /\ s.made = view[r.view].made
        /\ view[r.view].editor = Editor(held[Key(r.view)]) => s.editor = Editor(c)
    <3> DEFINE d == held[Key(r.view)]
               e == view[r.view]
               x == Append(d.files, r.file)
    <3>1. c = [d EXCEPT !.files = x] /\ c.files = x
      BY <2>2 DEF IsDraft, Fields
    <3>2. IsDraft(d) /\ IsView(e) /\ s = [e EXCEPT !.editor.files = x]
      BY <2>2, <3>1
    <3> HIDE DEF c, s, d, e, x
    <3>3. /\ IsDraft(c) /\ IsView(s) /\ s.made = e.made
          /\ e.editor = Editor(d) => s.editor = Editor(c)
      BY <3>1, <3>2, FilesDrawn
    <3> QED  BY <3>3 DEF d, e
  <2>4. s.made # "no" => view[r.view].editor = Editor(held[Key(r.view)])
    BY <2>1, <2>3 DEF IInv, EditorShowsDraft, IsMade
  <2>5. s.made # "no" => s.editor = Editor(c)
    BY <2>3, <2>4
  <2>6. Change(r.view, c, s)
    BY <1>3 DEF FilesRead
  <2>7. reads' = reads \ {r} /\ UNCHANGED <<active, selected, creating, sends>>
    BY <1>3 DEF FilesRead
  <2>8. HeldShape' /\ ViewShape' /\ EditorShowsDraft'
    BY <2>1, <2>3, <2>5, <2>6, <2>7, ChangeKeeps
  <2> QED  BY <2>7, <2>8 DEF IInv, Selection, UnderWay, IsMessage
<1>4. ASSUME NEW r, ReadFails(r) PROVE IInv'
  BY <1>4 DEF ReadFails, IInv, HeldShape, ViewShape, Selection, UnderWay, IsMessage,
              EditorShowsDraft, IsMade, Key
<1>5. ASSUME NEW t \in Sessions, Created(t) PROVE IInv'
  <2>1. /\ held' = [held EXCEPT ![t] = creating.input]
        /\ view' = [view EXCEPT ![t] =
                        Refreshed(Made("created", held[t], offer), creating.input)]
        /\ active' = t /\ creating' = NoInput /\ UNCHANGED <<selected, reads>>
    BY <1>5 DEF Created
  <2>2. t \in Views /\ t \in Keys /\ Key(t) = t /\ \A v \in Views : v # t => Key(v) # t
    BY OwnDrafts, ComposerAssumption DEF IInv, Views, Keys, Key
  <2>3. HeldShape' /\ held'[t] = creating.input /\ \A k \in Keys : k # t => held'[k] = held[k]
    BY <2>1, <2>2 DEF IInv, HeldShape, UnderWay
  <2>4. /\ ViewShape' /\ view'[t].editor = Editor(creating.input)
        /\ \A v \in Views : v # t => view'[v] = view[v]
    BY <2>1, <2>2, MadeView, RefreshedView DEF IInv, ViewShape
  <2>5. EditorShowsDraft'
    <3> SUFFICES ASSUME NEW v \in Views, view'[v].made # "no"
                 PROVE  view'[v].editor = Editor(held'[Key(v)])
      BY <2>1 DEF EditorShowsDraft, IsMade, Key, Editor
    <3>1. Key(v) \in Keys
      BY OwnDrafts DEF IInv
    <3> QED  BY <3>1, <2>2, <2>3, <2>4 DEF IInv, EditorShowsDraft, IsMade
  <2>6. \A m \in sends' : IsMessage(m)
    BY <1>5 DEF Created, Message, IsMessage, IInv, UnderWay
  <2>7. Selection' /\ UnderWay'
    BY <2>1, <2>6, EmptyDraft DEF IInv, Selection, UnderWay
  <2> QED  BY <2>3, <2>4, <2>5, <2>7 DEF IInv
<1>6. CASE CreateFails
  <2>1. /\ view' = [view EXCEPT ![New] = Refreshed(@, held[selected])]
        /\ creating' = NoInput /\ UNCHANGED <<held, active, selected, reads, sends>>
    BY <1>6 DEF CreateFails
  <2>r. /\ IsView(Refreshed(view[New], held[selected]))
        /\ Refreshed(view[New], held[selected]).editor = Editor(held[selected])
    BY RefreshedView DEF IInv, ViewShape, Views
  <2>2. ViewShape' /\ EditorShowsDraft'
    <3>1. ViewShape'
      BY <2>1, <2>r DEF IInv, ViewShape
    <3>2. ASSUME NEW v \in Views, view'[v].made # "no"
          PROVE  view'[v].editor = Editor(held'[Key(v)])
      BY <2>1, <2>r, <3>2 DEF IInv, ViewShape, EditorShowsDraft, IsMade, Key
    <3> QED  BY <2>1, <3>1, <3>2 DEF EditorShowsDraft, IsMade, Key, Editor
  <2>3. HeldShape' /\ Selection' /\ UnderWay'
    BY <2>1, EmptyDraft DEF IInv, HeldShape, Selection, UnderWay, IsMessage
  <2> QED  BY <2>2, <2>3 DEF IInv
<1>7. ASSUME NEW m \in sends, Compose(m) PROVE IInv'
  <2>1. \A n \in sends' : IsMessage(n)
    BY <1>7 DEF Compose, IsMessage, IInv, UnderWay
  <2>2. UNCHANGED <<held, view, active, selected, reads, creating>>
    BY <1>7 DEF Compose
  <2> QED  BY <2>1, <2>2 DEF IInv, HeldShape, ViewShape, Selection, UnderWay,
                              EditorShowsDraft, IsMade, Key
<1>8. ASSUME NEW m \in sends, Prompted(m) PROVE IInv'
  BY <1>8, FinishKeeps DEF Prompted, IInv, UnderWay, IsMessage
<1>9. ASSUME NEW m \in sends, NothingToSend(m) PROVE IInv'
  BY <1>9, FinishKeeps DEF NothingToSend
<1>10. ASSUME NEW m \in sends, SendFails(m) PROVE IInv'
  <2>1. /\ view' = [view EXCEPT ![New] = IF m.ws # None THEN Refreshed(@, held[selected]) ELSE @]
        /\ sends' = sends \ {m} /\ UNCHANGED <<held, active, selected, reads, creating>>
    BY <1>10 DEF SendFails
  <2>r. /\ IsView(Refreshed(view[New], held[selected]))
        /\ Refreshed(view[New], held[selected]).editor = Editor(held[selected])
    BY RefreshedView DEF IInv, ViewShape, Views
  <2>2. ViewShape' /\ EditorShowsDraft'
    <3>1. ViewShape'
      BY <2>1, <2>r DEF IInv, ViewShape
    <3>2. ASSUME NEW v \in Views, view'[v].made # "no"
          PROVE  view'[v].editor = Editor(held'[Key(v)])
      BY <2>1, <2>r, <3>2 DEF IInv, ViewShape, EditorShowsDraft, IsMade, Key
    <3> QED  BY <2>1, <3>1, <3>2 DEF EditorShowsDraft, IsMade, Key, Editor
  <2>3. HeldShape' /\ Selection' /\ UnderWay'
    BY <2>1 DEF IInv, HeldShape, Selection, UnderWay, IsMessage
  <2> QED  BY <2>2, <2>3 DEF IInv
<1> QED
  BY <1>1, <1>2, <1>3, <1>4, <1>5, <1>6, <1>7, <1>8, <1>9, <1>10 DEF Services

LEMMA StepKeeps == IInv /\ [Next]_vars => IInv'
<1>1. IInv /\ Next => IInv'
  BY UserKeeps, ServicesKeep DEF Next
<1>2. IInv /\ UNCHANGED vars => IInv'
  BY DEF vars, IInv, HeldShape, ViewShape, Selection, UnderWay, IsMessage,
         EditorShowsDraft, IsMade, Key
<1> QED  BY <1>1, <1>2

(* AgentComposer.refresh: whatever clears, restores, corrects or moves a   *)
(* draft, the editor of every view is that of the draft sent from it.      *)
THEOREM EditorAgrees == Spec => []EditorShowsDraft
<1>1. IInv => EditorShowsDraft
  BY DEF IInv
<1> QED  BY Begins, StepKeeps, <1>1, PTL DEF Spec

----------------------------------------------------------------------------

(* zaw.session.create: a session begins with the draft that was submitted, *)
(* although the making of its view corrects the draft of the session too.  *)
THEOREM BeginsAsSubmitted == Spec => CreatedAsSubmitted
<1> DEFINE Given == \A s \in known' \ known : /\ held'[s] = creating.input
                                              /\ view'[s].editor = Editor(creating.input)
<1>1. ASSUME IInv, [Next]_vars PROVE [Given]_known
  <2>1. ASSUME NEW t \in Sessions, Created(t) PROVE Given
    <3>1. t \in Keys /\ t \in Views /\ known' \ known \subseteq {t}
      BY <2>1 DEF Created, Keys, Views
    <3>h. held' = [held EXCEPT ![t] = creating.input]
      BY <2>1 DEF Created
    <3>2. held'[t] = creating.input
      BY <1>1, <3>1, <3>h DEF IInv, HeldShape
    <3>v. view' = [view EXCEPT ![t] =
                       Refreshed(Made("created", held[t], offer), creating.input)]
      BY <2>1 DEF Created
    <3>3. view'[t] = Refreshed(Made("created", held[t], offer), creating.input)
      BY <1>1, <3>1, <3>v DEF IInv, ViewShape
    <3>4. view'[t].editor = Editor(creating.input)
      BY <3>3, MadeView, RefreshedView
    <3> QED  BY <3>1, <3>2, <3>4
  <2>2. CASE User
    BY <2>2 DEF User, Type, attachFiles, Submit, Send, NewSession, Reload, selectMode,
       selectModel, selectReasoningEffort, selectApproval, removeAttachment, Open, Edit
  <2>3. ASSUME Services, \A t \in Sessions : ~Created(t) PROVE UNCHANGED known
    BY <2>3 DEF Services, WorkspacesChange, ManagementChanges, FilesRead, ReadFails,
       CreateFails, Compose, Prompted, NothingToSend, SendFails, Finish
  <2> QED  BY <1>1, <2>1, <2>2, <2>3 DEF Next, vars
<1> QED  BY <1>1, Begins, StepKeeps, PTL DEF Spec, CreatedAsSubmitted

----------------------------------------------------------------------------

(* What the toolbar and the permission picker of an opened session show,   *)
(* against the draft of the session.  The pickers may fall behind while    *)
(* models are being loaded; the permission never does, and has to be known *)
(* then too, since loading the models does not draw it again.              *)
Fits(drawn, c, o) ==
    /\ drawn.pickers = [f \in {"mode", "model", "effort", "had"} |-> drawn.pickers[f]]
    /\ drawn.made = "opened" =>
           /\ drawn.approval = c.approval
           /\ o.state = "ready" => /\ drawn.pickers.mode = c.mode
                                   /\ drawn.pickers.model = c.model
                                   /\ drawn.pickers.effort = c.effort

PickersFit == \A s \in Sessions : Fits(view[s], held[s], offer)

SameChoices(c, d) ==
    c.mode = d.mode /\ c.model = d.model /\ c.effort = d.effort /\ c.approval = d.approval

\* AgentComposer.refresh draws no picker, and pickers show no text or file.
LEMMA EditorDrawn ==
    ASSUME NEW s, IsView(s), NEW c, NEW o, Fits(s, c, o), NEW d, SameChoices(c, d)
    PROVE  /\ \A e : Fits(Refreshed(s, e), d, o)
           /\ \A x : Fits([s EXCEPT !.editor.files = x], d, o)
           /\ \A x : Fits([s EXCEPT !.editor.draft = x], d, o)
           /\ Fits(s, d, o)
  BY DEF IsView, Fits, SameChoices, Refreshed

\* refreshPickers and its microtask make the pickers and the draft agree.
LEMMA PickersDrawn ==
    ASSUME NEW s, IsView(s), NEW c, IsDraft(c), NEW o,
           s.made = "opened" => s.approval = c.approval
    PROVE  Fits([s EXCEPT !.pickers = Pickers(c, o)], Corrected(c, o), o)
<1> DEFINE p == Pickers(c, o)
           t == [s EXCEPT !.pickers = p]
<1>1. /\ p = [f \in {"mode", "model", "effort", "had"} |-> p[f]]
      /\ p.mode = c.mode
  BY DEF Pickers
<1>2. /\ Corrected(c, o).mode = c.mode /\ Corrected(c, o).approval = c.approval
      /\ o.state = "ready" => /\ Corrected(c, o).model = p.model
                              /\ Corrected(c, o).effort = p.effort
  BY DEF Corrected, IsDraft, Fields
<1> HIDE DEF p
<1>3. t.pickers = p /\ t.made = s.made /\ t.approval = s.approval
  BY DEF IsView
<1> QED  BY <1>1, <1>2, <1>3 DEF Fits, p

\* A view is made with the pickers of the draft it corrects.
LEMMA MadeFits ==
    ASSUME NEW how, NEW c, IsDraft(c), NEW o
    PROVE  Fits(Made(how, c, o), Corrected(c, o), o)
<1> DEFINE p == Pickers(c, o)
<1>1. /\ p = [f \in {"mode", "model", "effort", "had"} |-> p[f]]
      /\ p.mode = c.mode
  BY DEF Pickers
<1>2. /\ Corrected(c, o).mode = c.mode /\ Corrected(c, o).approval = c.approval
      /\ o.state = "ready" => /\ Corrected(c, o).model = p.model
                              /\ Corrected(c, o).effort = p.effort
  BY DEF Corrected, IsDraft, Fields
<1> HIDE DEF p
<1>3. Made(how, c, o).pickers = p /\ Made(how, c, o).approval = c.approval
  BY DEF Made, p
<1> QED  BY <1>1, <1>2, <1>3 DEF Fits

\* What is not opened only has to have its pickers.
LEMMA NotOpenedFits ==
    ASSUME NEW s, NEW c, NEW o, Fits(s, c, o), s.made # "opened", NEW d, NEW n
    PROVE  Fits(s, d, n)
  BY DEF Fits

\* The draft of one view changes together with the view.
LEMMA ChangeFits ==
    ASSUME IInv, PickersFit, NEW v \in Views, NEW c, IsDraft(c), NEW s, IsView(s),
           v # New => Fits(s, c, offer), Change(v, c, s), UNCHANGED offer
    PROVE  PickersFit'
<1>1. New \notin Sessions /\ Key(v) \in Keys /\ (v = New => Key(v) \notin Sessions)
      /\ (v # New => Key(v) = v)
  BY OwnDrafts, ComposerAssumption DEF IInv, Selection, Key
<1>2. ASSUME NEW t \in Sessions PROVE Fits(view'[t], held'[t], offer)
  <2>1. t \in Keys /\ t \in Views
    BY DEF Keys, Views
  <2>2. CASE t = v
    <3>1. held'[t] = c
      BY <1>1, <2>1, <2>2 DEF Change, IInv, HeldShape
    <3>2. view'[t] = Refreshed(s, c)
      BY <1>1, <2>1, <2>2 DEF Change, IInv, ViewShape
    <3>3. Fits(Refreshed(s, c), c, offer)
      BY <1>1, <2>2, EditorDrawn DEF SameChoices
    <3> QED  BY <3>1, <3>2, <3>3
  <2>3. CASE t # v
    <3>1. held'[t] = held[t]
      BY <1>1, <2>1, <2>3 DEF Change, IInv, HeldShape
    <3>2. view'[t] = view[t]
      BY <2>1, <2>3 DEF Change, IInv, ViewShape
    <3> QED  BY <3>1, <3>2 DEF PickersFit
  <2> QED  BY <2>2, <2>3
<1> QED  BY <1>2 DEF PickersFit, Fits

\* Where no draft, view or list of models changes, nothing has to be shown.
LEMMA UntouchedFits == PickersFit /\ UNCHANGED <<held, view, offer>> => PickersFit'
  BY DEF PickersFit, Fits

LEMMA EditFits ==
    ASSUME IInv, PickersFit, NEW c, IsDraft(c), NEW s, IsView(s),
           Visible # New => Fits(s, c, offer), Edit(c, s)
    PROVE  PickersFit'
  BY OnScreen, ChangeFits DEF IInv, Edit

LEMMA NotMadeFits == \A c, o : Fits(NotMade, c, o)
<1>1. Fits(NotMade, Corrected(Empty, Starting), Starting) /\ NotMade.made = "no"
  BY EmptyDraft, MadeFits, MadeView DEF NotMade
<1> HIDE DEF NotMade
<1> QED  BY <1>1, NotOpenedFits

LEMMA BeginsFit == Init => PickersFit
<1> SUFFICES ASSUME Init, NEW s \in Sessions PROVE Fits(view[s], held[s], offer)
  BY DEF PickersFit
<1>1. view[s] = NotMade
  BY ComposerAssumption DEF Init, Views
<1> QED  BY <1>1, NotMadeFits

LEMMA UserFits == ASSUME IInv, PickersFit, User PROVE PickersFit'
<1>v. /\ IsView(Shown) /\ IsDraft(Draft)
      /\ Visible # New => Fits(Shown, Draft, offer)
  BY OnScreen, OwnDrafts DEF IInv, ViewShape, HeldShape, PickersFit, Shown, Draft, Key, Views
<1>p. \A name, value : IsView(Picked(name, value))
  BY <1>v DEF IsView, IsEditor, Picked
<1>1. CASE Type
  <2> DEFINE c == [Draft EXCEPT !.draft = acts']
             s == [Shown EXCEPT !.editor.draft = acts']
  <2>1. IsDraft(c) /\ IsView(s)
    BY <1>v DEF IsDraft, IsView, IsEditor
  <2>2. SameChoices(Draft, c)
    BY <1>v DEF IsDraft, Fields, SameChoices
  <2>3. Visible # New => Fits(s, c, offer)
    BY <1>v, <2>2, EditorDrawn
  <2>4. Edit(c, s)
    BY <1>1 DEF Type
  <2> QED  BY <2>1, <2>3, <2>4, EditFits
<1>2. ASSUME NEW mode, selectMode(mode) PROVE PickersFit'
  <2> DEFINE c == [Draft EXCEPT !.mode = mode]
             s == Picked("mode", mode)
  <2>1. IsDraft(c) /\ IsView(s)
    BY <1>v, <1>p DEF IsDraft
  <2>2. /\ c.mode = mode /\ c.model = Draft.model /\ c.effort = Draft.effort
        /\ c.approval = Draft.approval
    BY <1>v DEF IsDraft, Fields
  <2>3. Visible # New => Fits(s, c, offer)
    BY <1>v, <2>2 DEF Fits, IsView, Picked
  <2>4. Edit(c, s)
    BY <1>2 DEF selectMode
  <2> QED  BY <2>1, <2>3, <2>4, EditFits
<1>3. ASSUME NEW model, selectModel(model) PROVE PickersFit'
  <2> DEFINE c == [Draft EXCEPT !.model = model, !.effort = None]
             s == [Shown EXCEPT !.pickers = Pickers(c, offer)]
  <2>1. IsDraft(c) /\ IsView(s)
    <3>1. IsDraft(c)
      BY <1>v, TwoFields
    <3>2. IsView(s)
      BY <1>v, PickerOnly
    <3> QED  BY <3>1, <3>2
  <2>2. c.approval = Draft.approval
    BY <1>v DEF IsDraft, Fields
  <2>3. Visible # New => Fits(s, Corrected(c, offer), offer)
    <3> HIDE DEF c
    <3>1. Visible # New /\ Shown.made = "opened" => Shown.approval = c.approval
      BY <1>v, <2>2 DEF Fits
    <3> QED  BY <1>v, <2>1, <3>1, PickersDrawn
  <2>4. Edit(Corrected(c, offer), s) /\ IsDraft(Corrected(c, offer))
    BY <1>3, <2>1, CorrectedDraft DEF selectModel
  <2> QED  BY <2>1, <2>3, <2>4, EditFits
<1>4. ASSUME NEW effort, selectReasoningEffort(effort) PROVE PickersFit'
  <2> DEFINE p == Shown.pickers
             c == [Draft EXCEPT !.effort = effort,
                                !.model = IF ~p.had /\ p.model # None THEN p.model ELSE @]
             s == Picked("effort", effort)
  <2>1. IsDraft(c) /\ IsView(s)
    BY <1>v, <1>p, TwoFields
  <2>2. /\ c.mode = Draft.mode /\ c.effort = effort /\ c.approval = Draft.approval
        /\ c.model \in {Draft.model, p.model}
    BY <1>v DEF IsDraft, Fields
  <2>3. ASSUME Visible # New PROVE Fits(s, c, offer)
    <3> HIDE DEF c
    <3> QED  BY <1>v, <2>2, <2>3 DEF Fits, IsView, Picked
  <2>4. Edit(c, s)
    BY <1>4 DEF selectReasoningEffort
  <2> QED  BY <2>1, <2>3, <2>4, EditFits
<1>5. ASSUME NEW approval, selectApproval(approval) PROVE PickersFit'
  <2> DEFINE c == [Draft EXCEPT !.approval = approval]
             s == [Shown EXCEPT !.approval = approval]
  <2>1. IsDraft(c) /\ IsView(s)
    BY <1>v, PickerOnly DEF IsDraft
  <2>2. Visible # New => Fits(s, c, offer)
    BY <1>v DEF Fits, IsView, IsDraft, Fields
  <2>3. Edit(c, s)
    BY <1>5 DEF selectApproval
  <2> QED  BY <2>1, <2>2, <2>3, EditFits
<1>6. ASSUME NEW i, removeAttachment(i) PROVE PickersFit'
  <2> DEFINE c == [Draft EXCEPT !.files = RemoveAt(@, i)]
             s == [Shown EXCEPT !.editor.files = c.files]
  <2>1. IsDraft(c) /\ IsView(s)
    BY <1>v DEF IsDraft, IsView, IsEditor
  <2>2. SameChoices(Draft, c)
    BY <1>v DEF IsDraft, Fields, SameChoices
  <2>3. Visible # New => Fits(s, c, offer)
    BY <1>v, <2>2, EditorDrawn
  <2>4. Edit(c, s)
    BY <1>6 DEF removeAttachment
  <2> QED  BY <2>1, <2>3, <2>4, EditFits
<1>7. CASE attachFiles \/ Send \/ NewSession
  BY <1>7, UntouchedFits DEF attachFiles, Send, NewSession
<1>8. CASE Submit
  <2>1. view' = [view EXCEPT ![New] = Refreshed(@, Draft)] /\ UNCHANGED <<held, offer>>
    BY <1>8 DEF Submit
  <2>2. \A s \in Sessions : view'[s] = view[s]
    BY <2>1, ComposerAssumption DEF IInv, ViewShape, Views
  <2> QED  BY <2>1, <2>2 DEF PickersFit, Fits
<1>9. CASE Reload
  <2>1. \A s \in Sessions : view'[s] = NotMade
    BY <1>9, ComposerAssumption DEF Reload, Views
  <2>2. \A s \in Sessions : Fits(view'[s], held'[s], offer')
    BY <2>1, NotMadeFits
  <2> QED  BY <2>2 DEF PickersFit, Fits
<1>10. ASSUME NEW t \in Sessions, Open(t) PROVE PickersFit'
  <2>1. /\ view' = [view EXCEPT ![t] = IF IsMade(t) THEN @ ELSE Made("opened", held[t], offer)]
        /\ held' = [held EXCEPT ![t] = IF IsMade(t) THEN @ ELSE Corrected(@, offer)]
        /\ offer' = offer
    BY <1>10 DEF Open, ShowSession
  <2>2. \A s \in Sessions : s \in Views /\ s \in Keys
    BY DEF Views, Keys
  <2>3. \A s \in Sessions : s # t => view'[s] = view[s] /\ held'[s] = held[s]
    BY <2>1, <2>2 DEF IInv, ViewShape, HeldShape
  <2>4. Fits(view'[t], held'[t], offer)
    <3>1. CASE IsMade(t)
      BY <2>1, <2>2, <3>1 DEF IInv, ViewShape, HeldShape, PickersFit
    <3>2. CASE ~IsMade(t)
      <4>1. view'[t] = Made("opened", held[t], offer) /\ held'[t] = Corrected(held[t], offer)
        BY <2>1, <2>2, <3>2 DEF IInv, ViewShape, HeldShape
      <4> QED  BY <2>2, <4>1, MadeFits DEF IInv, HeldShape
    <3> QED  BY <3>1, <3>2
  <2>5. \A s \in Sessions : Fits(view'[s], held'[s], offer)
    BY <2>3, <2>4 DEF PickersFit
  <2> QED  BY <2>1, <2>5 DEF PickersFit, Fits
<1> QED  BY <1>1, <1>2, <1>3, <1>4, <1>5, <1>6, <1>7, <1>8, <1>9, <1>10 DEF User

\* The end of a message changes texts and files of sessions, no choices.
LEMMA FinishFits ==
    ASSUME IInv, PickersFit, NEW m \in sends, NEW cleared, Finish(m, cleared)
    PROVE  PickersFit'
<1>1. ASSUME NEW s \in Sessions PROVE Fits(view'[s], held'[s], offer)
  <2>1. s \in Keys /\ s \in Views /\ s # m.ws /\ s # New
    BY ComposerAssumption DEF IInv, UnderWay, IsMessage, Keys, Views
  <2>2. IsDraft(held[s]) /\ IsView(view[s]) /\ Fits(view[s], held[s], offer)
    BY <2>1 DEF IInv, HeldShape, ViewShape, PickersFit
  <2>3. held'[s] = IF s \in cleared THEN [held[s] EXCEPT !.draft = 0, !.files = <<>>]
                   ELSE held[s]
    BY <2>1 DEF Finish
  <2>4. SameChoices(held[s], held'[s])
    BY <2>2, <2>3 DEF IsDraft, Fields, SameChoices
  <2>5. PICK c : view'[s] \in {view[s], Refreshed(view[s], c)}
    BY <2>1 DEF Finish
  <2> QED  BY <2>2, <2>4, <2>5, EditorDrawn
<1> QED  BY <1>1 DEF PickersFit, Fits, Finish

LEMMA ServicesFit == ASSUME IInv, PickersFit, Services PROVE PickersFit'
<1>s. ASSUME NEW s \in Sessions
      PROVE  /\ s \in Keys /\ s \in Views /\ s # New /\ Key(s) = s
             /\ IsDraft(held[s]) /\ IsView(view[s]) /\ Fits(view[s], held[s], offer)
  BY ComposerAssumption DEF IInv, HeldShape, ViewShape, PickersFit, Keys, Views, Key
<1>1. ASSUME NEW w, WorkspacesChange(w) PROVE PickersFit'
  <2>1. ASSUME NEW s \in Sessions PROVE Fits(view'[s], held'[s], offer)
    <3>1. CASE ~IsMade(s)
      <4>1. view'[s] = view[s] /\ view[s].made # "opened"
        BY <1>1, <1>s, <3>1 DEF WorkspacesChange, IsMade
      <4> QED  BY <1>s, <4>1, NotOpenedFits
    <3>2. CASE IsMade(s)
      <4> DEFINE r == Refreshed(view[s], held[s])
      <4>1. /\ view'[s] = [r EXCEPT !.pickers = Pickers(held[s], offer)]
            /\ held'[s] = Corrected(held[s], offer)
        BY <1>1, <1>s, <3>2 DEF WorkspacesChange
      <4>2. IsView(r) /\ Fits(r, held[s], offer)
        BY <1>s, RefreshedView, EditorDrawn DEF SameChoices
      <4> HIDE DEF r
      <4>3. r.made = "opened" => r.approval = held[s].approval
        BY <4>2 DEF Fits
      <4> QED  BY <1>s, <4>1, <4>2, <4>3, PickersDrawn
    <3> QED  BY <3>1, <3>2
  <2>2. offer' = offer
    BY <1>1 DEF WorkspacesChange
  <2> QED  BY <2>1, <2>2 DEF PickersFit, Fits
<1>2. ASSUME NEW o, ManagementChanges(o) PROVE PickersFit'
  <2>1. ASSUME NEW s \in Sessions PROVE Fits(view'[s], held'[s], o)
    <3>1. CASE ~IsMade(s)
      <4>1. view'[s] = view[s] /\ view[s].made # "opened"
        BY <1>2, <1>s, <3>1 DEF ManagementChanges, IsMade
      <4> QED  BY <1>s, <4>1, NotOpenedFits
    <3>2. CASE IsMade(s)
      <4>1. /\ view'[s] = [view[s] EXCEPT !.pickers = Pickers(held[s], o)]
            /\ held'[s] = Corrected(held[s], o)
        BY <1>2, <1>s, <3>2 DEF ManagementChanges
      <4>2. view[s].made = "opened" => view[s].approval = held[s].approval
        BY <1>s DEF Fits
      <4> QED  BY <1>s, <4>1, <4>2, PickersDrawn
    <3> QED  BY <3>1, <3>2
  <2>2. offer' = o
    BY <1>2 DEF ManagementChanges
  <2> QED  BY <2>1, <2>2 DEF PickersFit, Fits
<1>3. ASSUME NEW r \in reads, FilesRead(r) PROVE PickersFit'
  <2> DEFINE c == [held[Key(r.view)] EXCEPT !.files = Append(@, r.file)]
             s == [view[r.view] EXCEPT !.editor.files = c.files]
  <2>1. r.view \in Views /\ Key(r.view) \in Keys
    BY OwnDrafts DEF IInv, UnderWay
  <2>2. IsDraft(held[Key(r.view)]) /\ IsView(view[r.view])
    BY <2>1 DEF IInv, HeldShape, ViewShape
  <2>3. IsDraft(c) /\ IsView(s) /\ SameChoices(held[Key(r.view)], c)
    <3>1. IsDraft(c)
      BY <2>2 DEF IsDraft
    <3>2. SameChoices(held[Key(r.view)], c)
      BY <2>2 DEF IsDraft, Fields, SameChoices
    <3>3. IsView(s)
      <4> HIDE DEF c
      <4> QED  BY <2>2 DEF IsView, IsEditor
    <3> QED  BY <3>1, <3>2, <3>3
  <2>4. ASSUME r.view # New PROVE Fits(s, c, offer)
    <3>1. r.view \in Sessions
      BY <2>1, <2>4 DEF Views
    <3>2. Fits(view[r.view], held[Key(r.view)], offer)
      BY <1>s, <3>1
    <3> HIDE DEF c
    <3> QED  BY <2>2, <2>3, <3>2, EditorDrawn
  <2>5. Change(r.view, c, s) /\ offer' = offer
    BY <1>3 DEF FilesRead
  <2> HIDE DEF c, s
  <2> QED  BY <2>1, <2>3, <2>4, <2>5, ChangeFits
<1>4. ASSUME NEW r, ReadFails(r) PROVE PickersFit'
  BY <1>4, UntouchedFits DEF ReadFails
<1>5. ASSUME NEW t \in Sessions, Created(t) PROVE PickersFit'
  <2>1. /\ held' = [held EXCEPT ![t] = creating.input]
        /\ view' = [view EXCEPT ![t] =
                        Refreshed(Made("created", held[t], offer), creating.input)]
        /\ offer' = offer
    BY <1>5 DEF Created
  <2>2. \A s \in Sessions : s # t => view'[s] = view[s] /\ held'[s] = held[s]
    BY <1>s, <2>1 DEF IInv, ViewShape, HeldShape
  <2>3. Fits(view'[t], held'[t], offer)
    <3> DEFINE made == Made("created", held[t], offer)
    <3>1. view'[t] = Refreshed(made, creating.input)
      BY <1>s, <2>1 DEF IInv, ViewShape
    <3>2. IsView(made) /\ made.made = "created" /\ Fits(made, Corrected(held[t], offer), offer)
      BY <1>s, MadeView, MadeFits
    <3> HIDE DEF made
    <3>3. /\ Fits(Refreshed(made, creating.input), Corrected(held[t], offer), offer)
          /\ Refreshed(made, creating.input).made = "created"
      BY <3>2, RefreshedView, EditorDrawn DEF SameChoices
    <3> QED  BY <3>1, <3>3, NotOpenedFits
  <2>4. \A s \in Sessions : Fits(view'[s], held'[s], offer)
    BY <1>s, <2>2, <2>3
  <2> QED  BY <2>1, <2>4 DEF PickersFit, Fits
<1>6. ASSUME NEW m, CreateFails \/ SendFails(m) PROVE PickersFit'
  <2>1. PICK x : view' = [view EXCEPT ![New] = x]
    BY <1>6 DEF CreateFails, SendFails
  <2>2. \A s \in Sessions : view'[s] = view[s]
    BY <1>s, <2>1 DEF IInv, ViewShape
  <2>3. UNCHANGED <<held, offer>>
    BY <1>6 DEF CreateFails, SendFails
  <2> QED  BY <2>2, <2>3 DEF PickersFit, Fits
<1>7. ASSUME NEW m \in sends, Compose(m) PROVE PickersFit'
  BY <1>7, UntouchedFits DEF Compose
<1>8. ASSUME NEW m \in sends, Prompted(m) \/ NothingToSend(m) PROVE PickersFit'
  BY <1>8, FinishFits DEF Prompted, NothingToSend
<1> QED  BY <1>1, <1>2, <1>3, <1>4, <1>5, <1>6, <1>7, <1>8 DEF Services

LEMMA StepFits == IInv /\ PickersFit /\ [Next]_vars => PickersFit'
  BY UserFits, ServicesFit, UntouchedFits DEF Next, vars

(* refreshPickers: with the models loaded, the pickers of a session that   *)
(* was opened show what its messages are sent with, for any lists of       *)
(* models that come and go.                                                *)
THEOREM PickersAgreeWithDrafts == Spec => []OpenedPickersAgree
<1>1. PickersFit => OpenedPickersAgree
  BY ComposerAssumption DEF PickersFit, Fits, OpenedPickersAgree, PickersAgree, Key
<1> QED  BY Begins, BeginsFit, StepKeeps, StepFits, <1>1, PTL DEF Spec

-----------------------------------------------------------------------------
(***************************************************************************)
(* WorkbenchManagement.                                                    *)
(*                                                                         *)
(* The settings window for every number of items, clicks and reloads: its  *)
(* lists implement FreshView, a list presented as ready holds what this    *)
(* window has had acknowledged, a delete is sent for the item on screen,   *)
(* and the log terminal shows no other workspace's log.                    *)
(*                                                                         *)
(* Reloads is inductive and carries the rest: Covered says that the newest *)
(* reload began after every acknowledged write, which ReadyIsFresh needs   *)
(* to survive its answer; Dialogs relates the sheet on screen to what the  *)
(* service remembers, although the two change in different steps.          *)
(***************************************************************************)

\* Reloads are numbered by loader, and each began when every list of its was at
\* some revision that is still in the history.
Reloads ==
    /\ lists \in [Lists -> Seq(SUBSET Ids)] /\ \A k \in Lists : Rev(k) > 0
    /\ shown \in [Lists -> Nat] /\ \A k \in Lists : shown[k] <= Rev(k)
    /\ generation \in [Loaders -> Nat]
    /\ \A l \in loads : /\ l.loader \in Loaders
                        /\ l.gen \in 1..generation[l.loader]
                        /\ \A k \in ListsOf(l.loader) : l.from[k] \in 1..Rev(k)
    /\ \A l, m \in loads : l.loader = m.loader /\ l.gen = m.gen => l = m

Ops == {"save", "delete", "create", "start", "stop", "remove"}

\* A write is one of a list of the management service, or of the workspaces.
IsWrite(w) ==
    /\ w = [n |-> w.n, op |-> w.op, kind |-> w.kind, id |-> w.id, rev |-> w.rev]
    /\ w.op \in {"save", "delete"} <=> w.kind \in Kinds
    /\ w.op \notin {"save", "delete"} => w.kind = "workspace"
    /\ w.op \in Ops
    /\ w.rev \in Nat

\* What is acknowledged is at the server.
Writes ==
    /\ \A w \in writes : IsWrite(w) /\ w.rev <= Rev(w.kind)
    /\ acked \in [Lists -> Nat] /\ \A k \in Lists : acked[k] <= Rev(k)

\* The newest reload of all lists began after everything acknowledged so far.
Covered ==
    \A l \in loads : l.loader = "all" /\ l.gen = generation["all"]
                       => \A k \in Kinds : acked[k] <= l.from[k]

ManagementInv == Reloads /\ Writes /\ Covered /\ ReadyIsFresh

\* The sheet on screen is about the item the service remembers for it.
Dialogs ==
    /\ pendingID \in [{"template", "credential", "workspace"} -> Ids \cup {NoItem}]
    /\ screen = [sheet |-> screen.sheet, item |-> screen.item, typed |-> screen.typed]
    /\ sheet = "confirm-credential-delete" => pendingID["credential"] # NoItem
    /\ screen.sheet = "confirm-template-delete" => screen.item = pendingID["template"]
    /\ screen.sheet = "confirm-credential-delete"
         => screen.item = pendingID["credential"] /\ screen.item # NoItem
    /\ screen.sheet = "build-logs" => pendingID["workspace"] \in {NoItem, screen.item}

\* Only requests of the terminal on screen are live.
Terminal ==
    /\ LogsOfTheSheet
    /\ logs = [content |-> logs.content, requests |-> logs.requests]
    /\ \A r \in logs.requests : /\ r = [ws |-> r.ws, live |-> r.live]
                                /\ screen.sheet = "build-logs" /\ r.live
                                     => r.ws \in {NoItem, screen.item}

-----------------------------------------------------------------------------
(* Revisions *)

LEMMA RevIsNat == Reloads => \A k \in Lists : Rev(k) \in Nat /\ Current(k) \in SUBSET Ids
<1> SUFFICES ASSUME Reloads, NEW k \in Lists PROVE Rev(k) \in Nat /\ Current(k) \in SUBSET Ids
  OBVIOUS
<1>1. lists[k] \in Seq(SUBSET Ids) /\ Rev(k) > 0
  BY DEF Reloads
<1>2. Len(lists[k]) \in Nat
  BY <1>1, LenProperties
<1> QED  BY <1>1, <1>2, ElementOfSeq DEF Rev, Current

LEMMA SameRev == UNCHANGED lists => \A k \in Lists : Rev(k)' = Rev(k)
BY DEF Rev

LEMMA RevGrows ==
    ASSUME Reloads, NEW j \in Lists, NEW s \in SUBSET Ids,
           lists' = [lists EXCEPT ![j] = Append(@, s)]
    PROVE  /\ lists' \in [Lists -> Seq(SUBSET Ids)]
           /\ \A k \in Lists : Rev(k)' = IF k = j THEN Rev(k) + 1 ELSE Rev(k)
<1>1. lists \in [Lists -> Seq(SUBSET Ids)]
  BY DEF Reloads
<1>2. PICK q : q = lists[j]
  OBVIOUS
<1>3. q \in Seq(SUBSET Ids)
  BY <1>1, <1>2
<1>4. Append(q, s) \in Seq(SUBSET Ids) /\ Len(Append(q, s)) = Len(q) + 1
  BY <1>3, AppendProperties
<1>5. lists' = [lists EXCEPT ![j] = Append(q, s)]
  BY <1>2
<1>6. lists' \in [Lists -> Seq(SUBSET Ids)]
  BY <1>1, <1>4, <1>5
<1>7. ASSUME NEW k \in Lists PROVE Rev(k)' = IF k = j THEN Rev(k) + 1 ELSE Rev(k)
  <2>1. CASE k = j
    <3>1. lists'[k] = Append(q, s)
      BY <1>1, <1>5, <2>1
    <3>2. Rev(k)' = Len(q) + 1 /\ Rev(k) = Len(q)
      BY <1>2, <1>4, <2>1, <3>1 DEF Rev
    <3> QED  BY <2>1, <3>2
  <2>2. CASE k # j
    BY <1>1, <1>5, <2>2 DEF Rev
  <2> QED  BY <2>1, <2>2
<1> QED  BY <1>6, <1>7

LEMMA ListsOfLoader ==
    /\ \A l \in Loaders : ListsOf(l) \subseteq Lists
    /\ ListsOf("all") = Kinds
    /\ \A l \in Loaders : l # "all" => ListsOf(l) \cap Kinds = {}
    /\ \A k \in Kinds : k # "provisioner" /\ k # "workspace"
BY DEF ListsOf, Loaders, Lists, Kinds

LEMMA FourHaveMax ==
    ASSUME NEW a \in Nat, NEW b \in Nat, NEW c \in Nat, NEW d \in Nat
    PROVE  \E x \in {a, b, c, d} : \A y \in {a, b, c, d} : x >= y
<1>1. PICK e \in {a, b} : e >= a /\ e >= b
  OBVIOUS
<1>2. PICK f \in {c, d} : f >= c /\ f >= d
  OBVIOUS
<1>3. CASE e >= f
  BY <1>1, <1>2, <1>3
<1>4. CASE f >= e
  BY <1>1, <1>2, <1>4
<1> QED  BY <1>1, <1>2, <1>3, <1>4

LEMMA BehindIsNat == ASSUME Reloads, NEW l \in loads PROVE Behind(l) \in Nat
<1> DEFINE D(k) == Rev(k) - l.from[k]
           S == {D(k) : k \in ListsOf(l.loader)}
<1>1. l.loader \in Loaders /\ \A k \in ListsOf(l.loader) : D(k) \in Nat
  <2>1. l.loader \in Loaders /\ \A k \in ListsOf(l.loader) : l.from[k] \in 1..Rev(k)
    BY DEF Reloads
  <2> QED  BY <2>1, RevIsNat, ListsOfLoader
<1>2. \E x \in S : \A y \in S : x >= y
  <2> HIDE DEF D
  <2>1. CASE l.loader = "all"
    <3>1. S = {D("template"), D("credential"), D("provider"), D("model")}
      BY <2>1, ListsOfLoader DEF Kinds
    <3>2. D("template") \in Nat /\ D("credential") \in Nat /\ D("provider") \in Nat /\ D("model") \in Nat
      BY <1>1, <2>1, ListsOfLoader DEF Kinds
    <3> HIDE DEF S
    <3> QED  BY <3>1, <3>2, FourHaveMax
  <2>2. ASSUME NEW k, ListsOf(l.loader) = {k} PROVE \E x \in S : \A y \in S : x >= y
    <3>1. S = {D(k)} /\ D(k) \in Nat
      BY <1>1, <2>2
    <3> QED  BY <3>1
  <2> QED  BY <1>1, <2>1, <2>2 DEF Loaders, ListsOf
<1>3. Max(S) \in S
  BY <1>2 DEF Max
<1> QED  BY <1>1, <1>3 DEF Behind

-----------------------------------------------------------------------------
(* What the steps do to lists, reloads and writes *)

\* Most commands and the log terminal touch none of them.
Quiet == UNCHANGED <<server, shown, writes, generation, loads, modelsState>>

\* Opening the window and the refresh button reload everything.
Reloading == reload(Loaders, NoOp) /\ UNCHANGED <<server, shown, writes>>

\* The other commands send a write.
Sending ==
    /\ \E w : IsWrite(w) /\ w.rev = 0 /\ writes' = writes \cup {w}
    /\ UNCHANGED <<server, shown, generation, loads, modelsState>>

LEMMA SendSends ==
    ASSUME NEW op \in Ops, NEW k, NEW id, SendWrite(op, k, id),
           op \in {"save", "delete"} <=> k \in Kinds,
           op \notin {"save", "delete"} => k = "workspace"
    PROVE  Sending
<1>1. PICK w : w = [n |-> clicks + 1, op |-> op, kind |-> k, id |-> id, rev |-> 0]
  OBVIOUS
<1>2. IsWrite(w) /\ w.rev = 0
  BY <1>1 DEF IsWrite
<1>3. writes' = writes \cup {w} /\ UNCHANGED <<server, shown, generation, loads, modelsState>>
  BY <1>1 DEF SendWrite, NoReload
<1> QED  BY <1>2, <1>3 DEF Sending

LEMMA ClicksDo == Clicks => Quiet \/ Reloading \/ Sending
<1> SUFFICES ASSUME Clicks PROVE Quiet \/ Reloading \/ Sending
  OBVIOUS
<1>1. CASE openManagement \/ openWorkspaceCreate \/ Refresh
  BY <1>1 DEF openManagement, openWorkspaceCreate, Refresh, Command, NoReload, Quiet, Reloading
<1>2. CASE closeSheet \/ close \/ OtherServiceChanges \/ PickTheme \/ setDirty
           \/ \E p \in Pages : selectManagementView(p)
  BY <1>2 DEF closeSheet, close, OtherServiceChanges, PickTheme, setDirty, selectManagementView,
              Command, NoReload, Quiet
<1>3. CASE \/ addTemplate \/ chooseTemplateKind \/ addCredential \/ addModelProvider
           \/ \E id \in Ids : \/ editTemplate(id) \/ editCredential(id) \/ editModelProvider(id)
                             \/ addModel(id) \/ editModel(id)
  BY <1>3 DEF addTemplate, chooseTemplateKind, addCredential, addModelProvider, editTemplate,
              editCredential, editModelProvider, addModel, editModel, ShowSheet, Command,
              NoReload, Quiet
<1>4. CASE \E id \in Ids : \/ openBuildLogs(id) \/ requestDeleteTemplate(id)
                            \/ requestDeleteCredential(id) \/ requestWorkspaceStop(id)
  BY <1>4 DEF openBuildLogs, requestDeleteTemplate, requestDeleteCredential,
              requestWorkspaceStop, RequestConfirmation, Command, NoReload, Quiet
<1>5. CASE \/ saveTemplate \/ saveCredential \/ saveModelProvider \/ saveModel
           \/ deleteTemplate \/ deleteCredential
           \/ \E id \in Ids : deleteModelProvider(id) \/ deleteModel(id)
  BY <1>5, SendSends
     DEF saveTemplate, saveCredential, saveModelProvider, saveModel, deleteTemplate,
         deleteCredential, deleteModelProvider, deleteModel, Kinds, Ops
<1>6. CASE createWorkspace \/ stopWorkspace \/ \E id \in Ids : startWorkspace(id) \/ deleteWorkspace(id)
  <2>1. "workspace" \notin Kinds
    BY DEF Kinds
  <2> QED  BY <1>6, <2>1, SendSends DEF createWorkspace, stopWorkspace, startWorkspace, deleteWorkspace, Ops
<1> QED  BY <1>1, <1>2, <1>3, <1>4, <1>5, <1>6 DEF Clicks

-----------------------------------------------------------------------------
(* Reloads begin *)

\* Reloads that begin now have every list as it is now, and outdate the others
\* of their loaders.
LEMMA ReloadBegins ==
    ASSUME Reloads, NEW ls \in SUBSET Loaders, NEW o, reload(ls, o), UNCHANGED <<lists, shown>>
    PROVE  /\ Reloads'
           /\ \A l \in loads' : l.gen = generation'[l.loader] /\ l.loader \in ls
                  => \A k \in ListsOf(l.loader) : l.from[k] = Rev(k)
<1>1. generation \in [Loaders -> Nat]
      /\ generation' = [l \in Loaders |-> IF l \in ls THEN generation[l] + 1 ELSE generation[l]]
      /\ loads' = loads \cup {Load(l, o) : l \in ls}
  BY DEF reload, Reloads
<1>2. ASSUME NEW l \in ls
      PROVE  /\ Load(l, o).loader = l /\ Load(l, o).gen = generation[l] + 1
             /\ \A k \in ListsOf(l) : Load(l, o).from[k] = Rev(k)
  BY DEF Load
<1>3. generation' \in [Loaders -> Nat]
  BY <1>1
<1>4. \A l \in loads : /\ l.loader \in Loaders /\ l.gen \in 1..generation[l.loader]
                        /\ \A k \in ListsOf(l.loader) : l.from[k] \in 1..Rev(k)
  BY DEF Reloads
<1>5. ASSUME NEW l \in loads'
      PROVE  /\ l.loader \in Loaders /\ l.gen \in 1..generation'[l.loader]
             /\ \A k \in ListsOf(l.loader) : l.from[k] \in 1..Rev(k)
  <2>1. CASE l \in loads
    BY <1>1, <1>4, <2>1
  <2>2. ASSUME NEW m \in ls, l = Load(m, o)
        PROVE  /\ l.loader \in Loaders /\ l.gen \in 1..generation'[l.loader]
               /\ \A k \in ListsOf(l.loader) : l.from[k] \in 1..Rev(k)
    <3>1. m \in Loaders /\ l.loader = m /\ l.gen = generation'[m] /\ l.gen \in Nat \ {0}
      BY <1>1, <1>2, <2>2
    <3>2. \A k \in ListsOf(m) : l.from[k] = Rev(k) /\ Rev(k) \in Nat /\ Rev(k) > 0
      BY <1>2, <2>2, RevIsNat, ListsOfLoader DEF Reloads
    <3> QED  BY <3>1, <3>2
  <2> QED  BY <1>1, <2>1, <2>2
<1>6. ASSUME NEW l \in loads', NEW m \in loads', l.loader = m.loader, l.gen = m.gen PROVE l = m
  <2>1. CASE l \in loads /\ m \in loads
    BY <1>6, <2>1 DEF Reloads
  <2>2. ASSUME NEW r \in loads, NEW n \in ls, r.loader = n, r.gen = generation[n] + 1 PROVE FALSE
    BY <1>1, <1>4, <2>2
  <2>3. CASE l \notin loads /\ m \notin loads
    BY <1>1, <1>2, <1>6, <2>3
  <2> QED  BY <1>1, <1>2, <1>6, <2>1, <2>2, <2>3
<1>7. ASSUME NEW l \in loads', l.gen = generation'[l.loader], l.loader \in ls,
             NEW k \in ListsOf(l.loader)
      PROVE  l.from[k] = Rev(k)
  <2>1. l \notin loads
    BY <1>1, <1>4, <1>7
  <2>2. PICK n \in ls : l = Load(n, o)
    BY <1>1, <2>1
  <2> QED  BY <1>2, <1>7, <2>2
<1>8. Reloads'
  <2>1. \A k \in Lists : Rev(k)' = Rev(k)
    BY SameRev
  <2>2. \A l \in loads' : \A k \in ListsOf(l.loader) : Rev(k)' = Rev(k)
    BY <1>5, <2>1, ListsOfLoader
  <2> QED  BY <1>3, <1>5, <1>6, <2>1, <2>2 DEF Reloads
<1> QED  BY <1>7, <1>8

-----------------------------------------------------------------------------
(* What is ready is fresh *)

LEMMA QuietKeeps == ManagementInv /\ Quiet => ManagementInv'
<1> SUFFICES ASSUME ManagementInv, Quiet PROVE ManagementInv'
  OBVIOUS
<1>1. UNCHANGED <<lists, acked, shown, writes, generation, loads, modelsState>>
  BY DEF Quiet, server
<1> QED  BY <1>1 DEF ManagementInv, Reloads, Writes, Covered, ReadyIsFresh, Rev

LEMMA SendingKeeps == ManagementInv /\ Sending => ManagementInv'
<1> SUFFICES ASSUME ManagementInv, Sending PROVE ManagementInv'
  OBVIOUS
<1>1. UNCHANGED <<lists, acked, shown, generation, loads, modelsState>>
  BY DEF Sending, server
<1>2. PICK w : IsWrite(w) /\ w.rev = 0 /\ writes' = writes \cup {w}
  BY DEF Sending
<1>3. w.rev <= Rev(w.kind)
  <2>1. w.kind \in Lists
    BY <1>2 DEF IsWrite, Lists
  <2> QED  BY <1>2, <2>1, RevIsNat DEF ManagementInv
<1>4. Writes'
  BY <1>1, <1>2, <1>3 DEF ManagementInv, Writes, IsWrite, Rev
<1> QED  BY <1>1, <1>4 DEF ManagementInv, Reloads, Covered, ReadyIsFresh, Rev

LEMMA ReloadingKeeps == ManagementInv /\ Reloading => ManagementInv'
<1> SUFFICES ASSUME ManagementInv, Reloading PROVE ManagementInv'
  OBVIOUS
<1>1. reload(Loaders, NoOp) /\ UNCHANGED <<lists, acked, shown, writes>> /\ Reloads
  BY DEF Reloading, server, ManagementInv
<1>2. /\ Reloads'
      /\ \A l \in loads' : l.gen = generation'[l.loader] /\ l.loader \in Loaders
           => \A k \in ListsOf(l.loader) : l.from[k] = Rev(k)
  BY <1>1, ReloadBegins
<1>3. Writes'
  BY <1>1 DEF ManagementInv, Writes, Rev
<1>4. Covered'
  BY <1>1, <1>2, ListsOfLoader DEF ManagementInv, Covered, Writes, Loaders, Lists
<1>5. modelsState' = "loading"
  BY <1>1 DEF reload, Loaders
<1> QED  BY <1>2, <1>3, <1>4, <1>5 DEF ManagementInv, ReadyIsFresh

\* The answer to a write of a list starts a reload that will contain it.
LEMMA AnsweredKeeps == ASSUME ManagementInv, NEW w \in writes, WriteAnswered(w) PROVE ManagementInv'
<1>1. /\ writes' = writes \ {w} /\ UNCHANGED <<lists, shown>>
      /\ acked' = [acked EXCEPT ![w.kind] = IF w.rev > @ THEN w.rev ELSE @]
  BY DEF WriteAnswered
<1>2. /\ IsWrite(w) /\ w.rev <= Rev(w.kind) /\ w.kind \in Lists
      /\ \A k \in Lists : acked[k] \in Nat /\ acked[k] <= Rev(k) /\ Rev(k)' = Rev(k)
      /\ acked \in [Lists -> Nat]
  <2>1. IsWrite(w) /\ w.rev <= Rev(w.kind)
    BY DEF ManagementInv, Writes
  <2> QED  BY <1>1, <2>1, SameRev DEF ManagementInv, Writes, IsWrite, Lists
<1>3. /\ acked' \in [Lists -> Nat] /\ \A k \in Lists : acked'[k] <= Rev(k)
      /\ \A k \in Lists : k # w.kind => acked'[k] = acked[k]
  BY <1>1, <1>2 DEF IsWrite
<1>4. Writes'
  <2>1. \A v \in writes' : v.rev <= Rev(v.kind)'
    BY <1>1 DEF ManagementInv, Writes, Rev
  <2> QED  BY <1>1, <1>2, <1>3, <2>1 DEF ManagementInv, Writes, IsWrite
<1>5. CASE w.op \in {"save", "delete"}
  <2>1. reload({"all"}, w) /\ "all" \in Loaders
    BY <1>5 DEF WriteAnswered, Loaders
  <2>2. /\ Reloads'
        /\ \A l \in loads' : l.gen = generation'[l.loader] /\ l.loader \in {"all"}
             => \A k \in ListsOf(l.loader) : l.from[k] = Rev(k)
    BY <1>1, <2>1, ReloadBegins DEF ManagementInv
  <2>3. Covered'
    BY <1>3, <2>2, ListsOfLoader DEF Covered, Lists
  <2>4. modelsState' = "loading"
    BY <2>1 DEF reload
  <2> QED  BY <1>4, <2>2, <2>3, <2>4 DEF ManagementInv, ReadyIsFresh
<1>6. CASE w.op \notin {"save", "delete"}
  <2>1. \A k \in Kinds : acked'[k] = acked[k]
    BY <1>2, <1>3, <1>6, ListsOfLoader DEF IsWrite, Lists
  <2>2. PICK l \in {"runtime", "workspaces"} : reload({l}, w)
    BY <1>2, <1>6 DEF WriteAnswered, IsWrite, Ops
  <2>3. Reloads'
    <3>1. {l} \in SUBSET Loaders
      BY DEF Loaders
    <3> QED  BY <1>1, <2>2, <3>1, ReloadBegins DEF ManagementInv
  <2>4. Covered'
    <3>1. generation'["all"] = generation["all"]
      BY <2>2 DEF reload, Loaders, ManagementInv, Reloads
    <3>2. \A r \in loads' : r.loader = "all" => r \in loads
      BY <2>2 DEF reload, Load
    <3> QED  BY <2>1, <3>1, <3>2 DEF Covered, ManagementInv
  <2>5. UNCHANGED modelsState
    BY <2>2 DEF reload
  <2> QED  BY <1>1, <1>4, <2>1, <2>3, <2>4, <2>5 DEF ManagementInv, ReadyIsFresh
<1> QED  BY <1>5, <1>6

\* A list that grows leaves reloads and acknowledgements where they were.
LEMMA GrowthKeeps ==
    ASSUME ManagementInv, NEW j \in Lists, NEW s \in SUBSET Ids,
           lists' = [lists EXCEPT ![j] = Append(@, s)],
           UNCHANGED <<acked, shown, generation, loads, modelsState>>
    PROVE  /\ Reloads' /\ Covered' /\ ReadyIsFresh'
           /\ \A k \in Lists : acked[k] <= Rev(k)'
<1>1. /\ lists' \in [Lists -> Seq(SUBSET Ids)]
      /\ \A k \in Lists : Rev(k)' = (IF k = j THEN Rev(k) + 1 ELSE Rev(k)) /\ Rev(k) \in Nat
  BY RevGrows, RevIsNat DEF ManagementInv
<1>2. \A k \in Lists : Rev(k)' \in Nat /\ Rev(k)' >= Rev(k)
  BY <1>1
<1>3. ASSUME NEW l \in loads, NEW k \in ListsOf(l.loader) PROVE l.from[k] \in 1..Rev(k)'
  <2>1. l.from[k] \in 1..Rev(k) /\ k \in Lists
    BY ListsOfLoader DEF ManagementInv, Reloads
  <2> QED  BY <1>1, <1>2, <2>1
<1>4. Reloads'
  BY <1>1, <1>2, <1>3 DEF ManagementInv, Reloads
<1>5. \A k \in Lists : acked[k] <= Rev(k)'
  BY <1>1, <1>2 DEF ManagementInv, Writes
<1> QED  BY <1>4, <1>5 DEF ManagementInv, Covered, ReadyIsFresh

LEMMA AppliesKeeps == ASSUME ManagementInv, NEW w \in writes, ServerApplies(w) PROVE ManagementInv'
<1>1. IsWrite(w) /\ w.kind \in Lists
  BY DEF ManagementInv, Writes, IsWrite, Lists
<1>2. /\ UNCHANGED <<acked, shown, generation, loads, modelsState>>
      /\ writes' = (writes \ {w}) \cup {[w EXCEPT !.rev = Rev(w.kind) + 1]}
  BY DEF ServerApplies
<1>3. PICK s \in Effects(w) : lists' = [lists EXCEPT ![w.kind] = Append(@, s)]
  BY DEF ServerApplies
<1>4. s \in SUBSET Ids
  BY <1>1, RevIsNat DEF Effects, ManagementInv
<1>5. /\ Reloads' /\ Covered' /\ ReadyIsFresh' /\ \A k \in Lists : acked[k] <= Rev(k)'
      /\ \A k \in Lists : Rev(k)' = (IF k = w.kind THEN Rev(k) + 1 ELSE Rev(k)) /\ Rev(k) \in Nat
  BY <1>1, <1>2, <1>3, <1>4, GrowthKeeps, RevGrows, RevIsNat DEF ManagementInv
<1>6. PICK v : v = [w EXCEPT !.rev = Rev(w.kind) + 1]
  OBVIOUS
<1>7. v = [n |-> w.n, op |-> w.op, kind |-> w.kind, id |-> w.id, rev |-> Rev(w.kind) + 1]
  BY <1>1, <1>6 DEF IsWrite
<1>8. IsWrite(v) /\ v.rev <= Rev(v.kind)'
  BY <1>1, <1>5, <1>7 DEF IsWrite
<1>9. ASSUME NEW u \in writes PROVE IsWrite(u) /\ u.rev <= Rev(u.kind)'
  <2>1. IsWrite(u) /\ u.rev <= Rev(u.kind) /\ u.kind \in Lists
    BY DEF ManagementInv, Writes, IsWrite, Lists
  <2> QED  BY <1>5, <2>1 DEF IsWrite
<1>10. Writes'
  <2>1. \A u \in writes' : IsWrite(u) /\ u.rev <= Rev(u.kind)'
    BY <1>2, <1>6, <1>8, <1>9
  <2> QED  BY <1>2, <1>5, <2>1 DEF ManagementInv, Writes, IsWrite
<1> QED  BY <1>5, <1>10 DEF ManagementInv

LEMMA OthersKeep == ASSUME ManagementInv, SharedAssumption, NEW k \in Shared, OthersChange(k) PROVE ManagementInv'
<1>1. k \in Lists
  BY DEF SharedAssumption, Lists, Kinds
<1>2. UNCHANGED <<acked, shown, generation, loads, modelsState, writes>>
  BY DEF OthersChange
<1>3. PICK s \in {Current(k)} \cup {Current(k) \ {id} : id \in Current(k)} :
        lists' = [lists EXCEPT ![k] = Append(@, s)]
  BY DEF OthersChange
<1>4. s \in SUBSET Ids
  BY <1>1, RevIsNat DEF ManagementInv
<1>5. /\ Reloads' /\ Covered' /\ ReadyIsFresh' /\ \A j \in Lists : acked[j] <= Rev(j)'
      /\ \A j \in Lists : Rev(j)' = (IF j = k THEN Rev(j) + 1 ELSE Rev(j)) /\ Rev(j) \in Nat
  BY <1>1, <1>2, <1>3, <1>4, GrowthKeeps, RevGrows, RevIsNat DEF ManagementInv
<1>6. ASSUME NEW u \in writes PROVE IsWrite(u) /\ u.rev <= Rev(u.kind)'
  <2>1. IsWrite(u) /\ u.rev <= Rev(u.kind) /\ u.kind \in Lists
    BY DEF ManagementInv, Writes, IsWrite, Lists
  <2> QED  BY <1>5, <2>1 DEF IsWrite
<1>7. Writes'
  BY <1>2, <1>5, <1>6 DEF ManagementInv, Writes, IsWrite
<1> QED  BY <1>5, <1>7 DEF ManagementInv

\* The answer of a reload is shown when it is the newest of its loader.
Shows(l) ==
    \A k \in Lists : IF Newest(l) /\ k \in ListsOf(l.loader)
                       THEN shown'[k] \in l.from[k]..Rev(k) ELSE shown'[k] = shown[k]

LEMMA Answered == ASSUME Reloads, NEW l \in loads, LoadDone(l) PROVE Shows(l)
<1>1. PICK since \in [ListsOf(l.loader) -> 0..Behind(l)] :
         /\ \A k \in ListsOf(l.loader) : l.from[k] + since[k] <= Rev(k)
         /\ shown' = [k \in Lists |-> IF Newest(l) /\ k \in ListsOf(l.loader)
                                         THEN l.from[k] + since[k] ELSE shown[k]]
  BY DEF LoadDone
<1>2. ASSUME NEW k \in Lists, Newest(l), k \in ListsOf(l.loader)
      PROVE  shown'[k] \in l.from[k]..Rev(k)
  <2>1. since[k] \in Nat /\ l.from[k] \in Nat /\ Rev(k) \in Nat
    BY <1>1, <1>2, BehindIsNat, RevIsNat DEF Reloads
  <2>2. shown'[k] = l.from[k] + since[k] /\ l.from[k] + since[k] <= Rev(k)
    BY <1>1, <1>2
  <2> QED  BY <2>1, <2>2
<1>3. ASSUME NEW k \in Lists, ~(Newest(l) /\ k \in ListsOf(l.loader)) PROVE shown'[k] = shown[k]
  BY <1>1, <1>3
<1> QED  BY <1>2, <1>3 DEF Shows

\* What a reload of the runtime leaves behind, besides its end.
LEMMA ReloadEnds ==
    ASSUME Reloads, NEW l \in loads, LoadDone(l) \/ LoadFails(l)
    PROVE  /\ l \notin loads' /\ loads \ {l} \subseteq loads'
           /\ \A r \in loads' : r.loader \in Guarded => r \in loads
           /\ \A g \in Guarded : generation'[g] = generation[g]
           /\ generation' \in [Loaders -> Nat]
           /\ \A r \in loads' : /\ r.loader \in Loaders
                                /\ r.gen \in 1..generation'[r.loader]
                                /\ \A k \in ListsOf(r.loader) : r.from[k] \in 1..Rev(k)
           /\ \A r, q \in loads' : r.loader = q.loader /\ r.gen = q.gen => r = q
<1>1. CASE loads' = loads \ {l} /\ UNCHANGED generation
  BY <1>1 DEF Reloads, Guarded, Loaders
<1>2. CASE /\ loads' = (loads \ {l}) \cup {Load("workspaces", NoOp)}
           /\ generation' = [generation EXCEPT !["workspaces"] = @ + 1]
           /\ l.loader = "runtime"
  <2>1. PICK n : n = Load("workspaces", NoOp)
    OBVIOUS
  <2>2. /\ n.loader = "workspaces" /\ n.gen = generation["workspaces"] + 1
        /\ \A k \in ListsOf("workspaces") : n.from[k] = Rev(k)
    BY <2>1 DEF Load
  <2>3. generation \in [Loaders -> Nat] /\ "workspaces" \in Loaders
    BY DEF Reloads, Loaders
  <2>4. /\ generation' \in [Loaders -> Nat]
        /\ \A g \in Loaders : generation'[g] = IF g = "workspaces" THEN generation[g] + 1 ELSE generation[g]
    BY <1>2, <2>3
  <2>5. \A k \in ListsOf("workspaces") : n.from[k] \in 1..Rev(k)
    BY <2>2, <2>3, RevIsNat, ListsOfLoader DEF Reloads
  <2>6. \A r \in loads : /\ r.loader \in Loaders /\ r.gen \in 1..generation[r.loader]
                          /\ \A k \in ListsOf(r.loader) : r.from[k] \in 1..Rev(k)
    BY DEF Reloads
  <2>7. \A r \in loads : r.loader = "workspaces" => r.gen # n.gen
    BY <2>2, <2>3, <2>6
  <2>8. \A r \in loads' : r \in loads \/ r = n
    BY <1>2, <2>1
  <2>9. \A r \in loads' : /\ r.loader \in Loaders
                            /\ r.gen \in 1..generation'[r.loader]
                            /\ \A k \in ListsOf(r.loader) : r.from[k] \in 1..Rev(k)
    <3>1. ASSUME NEW r \in loads PROVE r.gen \in 1..generation'[r.loader]
      BY <2>3, <2>4, <2>6
    <3>2. n.gen \in 1..generation'[n.loader]
      BY <2>2, <2>3, <2>4
    <3> QED  BY <2>2, <2>3, <2>5, <2>6, <2>8, <3>1, <3>2
  <2>10. \A r, q \in loads' : r.loader = q.loader /\ r.gen = q.gen => r = q
    BY <2>2, <2>7, <2>8 DEF Reloads
  <2>11. l # n
    BY <1>2, <2>2
  <2> QED  BY <1>2, <2>1, <2>2, <2>4, <2>8, <2>9, <2>10, <2>11 DEF Guarded, Loaders
<1> QED  BY <1>1, <1>2 DEF LoadDone, LoadFails

LEMMA DoneKeeps == ASSUME ManagementInv, NEW l \in loads, LoadDone(l) PROVE ManagementInv'
<1>1. UNCHANGED <<lists, acked, writes>>
  BY DEF LoadDone, server
<1>2. Shows(l)
  BY Answered DEF ManagementInv
<1>3. l.loader \in Loaders /\ \A k \in ListsOf(l.loader) : l.from[k] \in 1..Rev(k)
  BY DEF ManagementInv, Reloads
<1>4. shown' \in [Lists -> Nat] /\ \A k \in Lists : shown'[k] <= Rev(k)
  <2>1. ASSUME NEW k \in Lists PROVE shown'[k] \in Nat /\ shown'[k] <= Rev(k)
    <3>1. CASE Newest(l) /\ k \in ListsOf(l.loader)
      <4>1. l.from[k] \in Nat /\ Rev(k) \in Nat /\ shown'[k] \in l.from[k]..Rev(k)
        BY <1>2, <1>3, <3>1, RevIsNat DEF ManagementInv, Shows
      <4> QED  BY <4>1
    <3>2. CASE ~(Newest(l) /\ k \in ListsOf(l.loader))
      BY <1>2, <3>2 DEF ManagementInv, Reloads, Shows
    <3> QED  BY <3>1, <3>2
  <2>2. \E f : shown' = [k \in Lists |-> f[k]]
    <3>1. PICK since \in [ListsOf(l.loader) -> 0..Behind(l)] :
            shown' = [k \in Lists |-> IF Newest(l) /\ k \in ListsOf(l.loader)
                                         THEN l.from[k] + since[k] ELSE shown[k]]
      BY DEF LoadDone
    <3>2. shown' = [k \in Lists |-> shown'[k]]
      BY <3>1
    <3> QED  BY <3>2
  <2> QED  BY <2>1, <2>2
<1>5. Reloads'
  <2>1. \A k \in Lists : Rev(k)' = Rev(k)
    BY <1>1, SameRev
  <2>2. /\ generation' \in [Loaders -> Nat]
        /\ \A r \in loads' : /\ r.loader \in Loaders
                             /\ r.gen \in 1..generation'[r.loader]
                             /\ \A k \in ListsOf(r.loader) : r.from[k] \in 1..Rev(k)
        /\ \A r, q \in loads' : r.loader = q.loader /\ r.gen = q.gen => r = q
    BY ReloadEnds DEF ManagementInv
  <2>3. \A r \in loads' : \A k \in ListsOf(r.loader) : r.from[k] \in 1..Rev(k)'
    BY <2>1, <2>2, ListsOfLoader
  <2> QED  BY <1>1, <1>4, <2>1, <2>2, <2>3 DEF ManagementInv, Reloads
<1>6. Writes'
  BY <1>1 DEF ManagementInv, Writes, IsWrite, Rev
<1>7. Covered'
  BY <1>1, ReloadEnds DEF ManagementInv, Covered, Guarded
<1>8. ReadyIsFresh'
  <2>1. CASE l.loader = "all" /\ Newest(l)
    <3>1. \A k \in Kinds : acked[k] <= l.from[k]
      BY <2>1 DEF ManagementInv, Covered, Newest, Guarded
    <3>2. ASSUME NEW k \in Kinds PROVE acked'[k] <= shown'[k]
      <4>1. k \in Lists /\ k \in ListsOf(l.loader)
        BY <2>1, ListsOfLoader DEF Lists
      <4>2. /\ shown'[k] \in l.from[k]..Rev(k) /\ l.from[k] \in Nat /\ Rev(k) \in Nat
            /\ acked[k] \in Nat
        BY <1>2, <1>3, <2>1, <4>1, RevIsNat DEF ManagementInv, Writes, Shows
      <4> QED  BY <1>1, <3>1, <4>2
    <3> QED  BY <3>2 DEF ReadyIsFresh
  <2>2. CASE ~(l.loader = "all" /\ Newest(l))
    <3>1. UNCHANGED modelsState
      BY <2>2 DEF LoadDone
    <3>2. \A k \in Kinds : shown'[k] = shown[k]
      BY <1>2, <1>3, <2>2, ListsOfLoader DEF Lists, Shows
    <3> QED  BY <1>1, <3>1, <3>2 DEF ManagementInv, ReadyIsFresh
  <2> QED  BY <2>1, <2>2
<1> QED  BY <1>5, <1>6, <1>7, <1>8 DEF ManagementInv

LEMMA FailKeeps == ASSUME ManagementInv, NEW l \in loads, LoadFails(l) PROVE ManagementInv'
<1>1. /\ UNCHANGED <<lists, acked, writes, shown, generation>> /\ loads' = loads \ {l}
      /\ modelsState' \in {modelsState, "error"}
  BY DEF LoadFails, server
<1> QED  BY <1>1 DEF ManagementInv, Reloads, Writes, Covered, ReadyIsFresh, Rev

LEMMA IInvKept == ManagementInv /\ [NextManagement]_varsManagement => ManagementInv'
<1> SUFFICES ASSUME ManagementInv, [NextManagement]_varsManagement PROVE ManagementInv'
  OBVIOUS
<1>1. CASE Clicks
  BY <1>1, ClicksDo, QuietKeeps, ReloadingKeeps, SendingKeeps
<1>2. ASSUME NEW w \in writes, WriteFails(w) PROVE ManagementInv'
  <2>1. UNCHANGED <<lists, acked, shown, generation, loads, modelsState>> /\ writes' = writes \ {w}
    BY <1>2 DEF WriteFails, server
  <2> QED  BY <2>1 DEF ManagementInv, Reloads, Writes, Covered, ReadyIsFresh, Rev
<1>3. CASE Answers
  BY <1>2, <1>3, AppliesKeeps, AnsweredKeeps, DoneKeeps, FailKeeps DEF Answers
<1>4. CASE LogTimer \/ (\E r \in logs.requests : LogAnswered(r)) \/ UNCHANGED varsManagement
  BY <1>4, QuietKeeps DEF LogTimer, LogAnswered, Quiet, varsManagement, server
<1>5. CASE \E k \in Shared : OthersChange(k)
  BY <1>5, OthersKeep, SharedAssumption
<1> QED  BY <1>1, <1>3, <1>4, <1>5 DEF NextManagement

LEMMA IInvBegins == InitManagement => ManagementInv
<1> SUFFICES ASSUME InitManagement PROVE ManagementInv
  OBVIOUS
<1>1. \A k \in Lists : \E s \in SUBSET Ids : lists[k] = <<s>>
  BY DEF InitManagement
<1>2. lists \in [Lists -> Seq(SUBSET Ids)] /\ \A k \in Lists : Rev(k) = 1
  <2>1. \A s \in SUBSET Ids : <<s>> \in Seq(SUBSET Ids) /\ Len(<<s>>) = 1
    OBVIOUS
  <2>2. lists = [k \in Lists |-> lists[k]]
    BY DEF InitManagement
  <2> QED  BY <1>1, <2>1, <2>2 DEF Rev
<1>3. generation \in [Loaders -> Nat] /\ generation["all"] = 1 /\ generation["workspaces"] = 1
  BY DEF InitManagement, Loaders
<1>4. ASSUME NEW l \in loads
      PROVE  /\ l.loader \in {"all", "workspaces"} /\ l.gen = 1
             /\ \A k \in ListsOf(l.loader) : l.from[k] = 1
             /\ l = [loader |-> l.loader, gen |-> 1, from |-> [k \in ListsOf(l.loader) |-> 1], owner |-> NoOp]
  <2>1. PICK n \in {"all", "workspaces"} :
          l = [loader |-> n, gen |-> 1, from |-> [k \in ListsOf(n) |-> 1], owner |-> NoOp]
    BY DEF InitManagement
  <2> QED  BY <2>1
<1>5. Reloads
  <2>1. shown \in [Lists -> Nat] /\ \A k \in Lists : shown[k] = 0
    BY DEF InitManagement
  <2>2. \A l \in loads : /\ l.loader \in Loaders
                          /\ l.gen \in 1..generation[l.loader]
                          /\ \A k \in ListsOf(l.loader) : l.from[k] \in 1..Rev(k)
    BY <1>2, <1>3, <1>4, ListsOfLoader DEF Loaders
  <2>3. \A l, m \in loads : l.loader = m.loader /\ l.gen = m.gen => l = m
    BY <1>4
  <2> QED  BY <1>2, <1>3, <2>1, <2>2, <2>3 DEF Reloads
<1>6. acked \in [Lists -> Nat] /\ (\A k \in Lists : acked[k] = 0) /\ writes = {}
  BY DEF InitManagement
<1>7. Writes
  BY <1>2, <1>6 DEF Writes
<1>8. Covered
  BY <1>4, <1>6, ListsOfLoader DEF Covered, Lists
<1>9. ReadyIsFresh
  BY DEF InitManagement, ReadyIsFresh
<1> QED  BY <1>5, <1>7, <1>8, <1>9 DEF ManagementInv

(* A list presented as ready contains everything this window has saved or   *)
(* deleted and got an answer for: no reload that was under way when the     *)
(* write was acknowledged brings the old contents back                      *)
(* (reloadGeneration in ManagementService.reload).                          *)
THEOREM ReadyHoldsTheAcknowledged == SpecManagement => []ReadyIsFresh
<1>1. ManagementInv => ReadyIsFresh
  BY DEF ManagementInv
<1> QED  BY <1>1, IInvBegins, IInvKept, PTL DEF SpecManagement

-----------------------------------------------------------------------------
(* The lists of the management service implement FreshView *)

LoaderOf(k) == IF k = "provisioner" THEN "runtime" ELSE "all"

NewestOf(k) == {r \in loads : r.loader = LoaderOf(k) /\ r.gen = generation[LoaderOf(k)]}

LEMMA FreshLoaders ==
    \A k \in FreshLists : /\ k \in Lists /\ LoaderOf(k) \in Guarded /\ LoaderOf(k) \in Loaders
                          /\ k \in ListsOf(LoaderOf(k))
                          /\ \A l \in Loaders : k \in ListsOf(l) => l = LoaderOf(k)
<1> SUFFICES ASSUME NEW k \in FreshLists
             PROVE  /\ k \in Lists /\ LoaderOf(k) \in Guarded /\ LoaderOf(k) \in Loaders
                    /\ k \in ListsOf(LoaderOf(k))
                    /\ \A l \in Loaders : k \in ListsOf(l) => l = LoaderOf(k)
  OBVIOUS
<1>1. /\ ListsOf("all") = Kinds /\ ListsOf("runtime") = {"provisioner"}
      /\ ListsOf("workspaces") = {"workspace"}
  BY DEF ListsOf
<1> QED  BY <1>1 DEF FreshLists, LoaderOf, Lists, Kinds, Guarded, Loaders

\* What FreshView calls the floor of list k: at most one reload is the newest.
Floors ==
    \A k \in FreshLists : /\ \A r \in NewestOf(k) : FloorOf(k) = r.from[k]
                          /\ NewestOf(k) = {} => FloorOf(k) = shown[k]

LEMMA FloorIs == Reloads => Floors
<1> SUFFICES ASSUME Reloads, NEW k \in FreshLists
             PROVE  /\ \A r \in NewestOf(k) : FloorOf(k) = r.from[k]
                    /\ NewestOf(k) = {} => FloorOf(k) = shown[k]
  BY DEF Floors
<1>1. FloorOf(k) = IF NewestOf(k) = {} THEN shown[k]
                                       ELSE (CHOOSE r \in NewestOf(k) : TRUE).from[k]
  BY DEF FloorOf, NewestOf, LoaderOf
<1>2. \A r, q \in NewestOf(k) : r = q
  BY DEF NewestOf, Reloads
<1>3. ASSUME NEW r \in NewestOf(k) PROVE FloorOf(k) = r.from[k]
  <2>1. (CHOOSE q \in NewestOf(k) : TRUE) \in NewestOf(k)
    BY <1>3
  <2>2. (CHOOSE q \in NewestOf(k) : TRUE) = r
    BY <1>2, <1>3, <2>1
  <2> QED  BY <1>1, <1>3, <2>2
<1> QED  BY <1>1, <1>3

LEMMA FloorIsNext == Reloads' => Floors'
  BY FloorIs, PTL

LEMMA QuietIsFresh ==
    ASSUME UNCHANGED <<lists, shown, generation, loads>>, NEW k \in FreshLists
    PROVE  [Fresh(k)!Next]_(Fresh(k)!vars)
<1>1. FloorOf(k)' = FloorOf(k) /\ Rev(k)' = Rev(k)
  BY DEF FloorOf, Rev
<1> QED  BY <1>1 DEF Fresh!vars

LEMMA ReloadIsFresh ==
    ASSUME Reloads, NEW ls \in SUBSET Loaders, NEW o, reload(ls, o), UNCHANGED <<lists, shown>>,
           NEW k \in FreshLists
    PROVE  [Fresh(k)!Next]_(Fresh(k)!vars)
<1>1. Reloads' /\ Rev(k)' = Rev(k)
  BY ReloadBegins DEF Rev
<1>2. Floors /\ Floors'
  BY <1>1, FloorIs, FloorIsNext
<1>3. /\ generation' = [l \in Loaders |-> IF l \in ls THEN generation[l] + 1 ELSE generation[l]]
      /\ loads' = loads \cup {Load(l, o) : l \in ls}
      /\ \A l \in ls : Load(l, o).loader = l /\ Load(l, o).gen = generation[l] + 1
  BY DEF reload, Load
<1>4. CASE LoaderOf(k) \in ls
  <2>1. PICK r : r = Load(LoaderOf(k), o)
    OBVIOUS
  <2>2. r \in NewestOf(k)'
    BY <1>3, <1>4, <2>1 DEF NewestOf
  <2>3. r.from[k] = Rev(k)
    BY <2>1, FreshLoaders DEF Load
  <2>4. FloorOf(k)' = Rev(k)
    BY <1>2, <2>2, <2>3 DEF Floors
  <2> QED  BY <1>1, <2>4 DEF Fresh!Next, Fresh!Ask
<1>5. CASE LoaderOf(k) \notin ls
  <2>1. NewestOf(k)' = NewestOf(k)
    <3>1. generation'[LoaderOf(k)] = generation[LoaderOf(k)]
      BY <1>3, <1>5, FreshLoaders
    <3>2. \A l \in ls : Load(l, o).loader # LoaderOf(k)
      BY <1>3, <1>5
    <3> QED  BY <1>3, <3>1, <3>2 DEF NewestOf
  <2>2. FloorOf(k)' = FloorOf(k)
    <3>1. CASE NewestOf(k) = {}
      BY <1>2, <2>1, <3>1 DEF Floors
    <3>2. CASE NewestOf(k) # {}
      BY <1>2, <2>1, <3>2 DEF Floors
    <3> QED  BY <3>1, <3>2
  <2> QED  BY <1>1, <2>2 DEF Fresh!vars
<1> QED  BY <1>4, <1>5

\* The newest reload shows its answer or is given up; of an outdated one, and
\* of one of another loader, nothing is to be seen.
LEMMA EndIsFresh ==
    ASSUME Reloads, Reloads', NEW l \in loads, LoadDone(l) \/ LoadFails(l), NEW k \in FreshLists
    PROVE  [Fresh(k)!Next]_(Fresh(k)!vars)
<1>1. Rev(k)' = Rev(k)
  BY DEF LoadDone, LoadFails, server, Rev
<1>2. Floors /\ Floors'
  BY FloorIs, FloorIsNext
<1>3. NewestOf(k)' = NewestOf(k) \ {l}
  <2>1. LoaderOf(k) \in Guarded
    BY FreshLoaders
  <2>2. generation'[LoaderOf(k)] = generation[LoaderOf(k)]
    BY <2>1, ReloadEnds
  <2> QED  BY <2>1, <2>2, ReloadEnds DEF NewestOf
<1>4. CASE l \in NewestOf(k)
  <2>1. NewestOf(k)' = {}
    BY <1>3, <1>4 DEF NewestOf, Reloads
  <2>2. FloorOf(k) = l.from[k] /\ FloorOf(k)' = shown'[k]
    BY <1>2, <1>4, <2>1 DEF Floors
  <2>3. Newest(l) /\ k \in ListsOf(l.loader) /\ k \in Lists
    BY <1>4, FreshLoaders DEF NewestOf, Newest
  <2>4. CASE LoadFails(l)
    BY <1>1, <2>2, <2>4 DEF LoadFails, Fresh!Next, Fresh!GiveUp
  <2>5. CASE LoadDone(l)
    <3>1. shown'[k] \in l.from[k]..Rev(k)
      BY <2>3, <2>5, Answered DEF Shows
    <3> QED  BY <1>1, <2>2, <3>1 DEF Fresh!Next, Fresh!Show
  <2> QED  BY <2>4, <2>5
<1>5. CASE l \notin NewestOf(k)
  <2>1. shown'[k] = shown[k]
    <3>1. CASE LoadFails(l)
      BY <3>1 DEF LoadFails
    <3>2. CASE LoadDone(l)
      <4>1. ~(Newest(l) /\ k \in ListsOf(l.loader))
        BY <1>5, FreshLoaders DEF NewestOf, Newest, Reloads
      <4> QED  BY <3>2, <4>1, Answered, FreshLoaders DEF Shows
    <3> QED  BY <3>1, <3>2
  <2>2. NewestOf(k)' = NewestOf(k)
    BY <1>3, <1>5
  <2>3. FloorOf(k)' = FloorOf(k)
    <3>1. CASE NewestOf(k) = {}
      BY <1>2, <2>1, <2>2, <3>1 DEF Floors
    <3>2. CASE NewestOf(k) # {}
      BY <1>2, <2>2, <3>2 DEF Floors
    <3> QED  BY <3>1, <3>2
  <2> QED  BY <1>1, <2>1, <2>3 DEF Fresh!vars
<1> QED  BY <1>4, <1>5

LEMMA GrowthIsFresh ==
    ASSUME Reloads, NEW j \in Lists, NEW s \in SUBSET Ids,
           lists' = [lists EXCEPT ![j] = Append(@, s)],
           UNCHANGED <<shown, generation, loads>>, NEW k \in FreshLists
    PROVE  [Fresh(k)!Next]_(Fresh(k)!vars)
<1>1. FloorOf(k)' = FloorOf(k)
  BY DEF FloorOf
<1>2. Rev(k)' = IF k = j THEN Rev(k) + 1 ELSE Rev(k)
  BY RevGrows, FreshLoaders
<1> QED  BY <1>1, <1>2 DEF Fresh!Next, Fresh!Change, Fresh!vars

LEMMA StepIsFresh ==
    ASSUME ManagementInv, ManagementInv', [NextManagement]_varsManagement, NEW k \in FreshLists
    PROVE  [Fresh(k)!Next]_(Fresh(k)!vars)
<1>1. CASE Clicks
  <2>1. CASE Quiet \/ Sending
    BY <2>1, QuietIsFresh DEF Quiet, Sending, server
  <2>2. CASE Reloading
    BY <2>2, ReloadIsFresh DEF Reloading, server, ManagementInv
  <2> QED  BY <1>1, <2>1, <2>2, ClicksDo
<1>2. ASSUME NEW w \in writes, ServerApplies(w) PROVE [Fresh(k)!Next]_(Fresh(k)!vars)
  <2>1. w.kind \in Lists
    BY DEF ManagementInv, Writes, IsWrite, Lists
  <2>2. PICK s \in Effects(w) : lists' = [lists EXCEPT ![w.kind] = Append(@, s)]
    BY <1>2 DEF ServerApplies
  <2>3. s \in SUBSET Ids
    BY <2>1, RevIsNat DEF Effects, ManagementInv
  <2> QED  BY <1>2, <2>1, <2>2, <2>3, GrowthIsFresh DEF ServerApplies, ManagementInv
<1>3. ASSUME NEW w \in writes, WriteAnswered(w) PROVE [Fresh(k)!Next]_(Fresh(k)!vars)
  <2>1. IsWrite(w)
    BY DEF ManagementInv, Writes
  <2>2. PICK l \in Loaders : reload({l}, w)
    BY <1>3, <2>1 DEF WriteAnswered, IsWrite, Ops, Loaders
  <2>3. {l} \in SUBSET Loaders
    OBVIOUS
  <2> QED  BY <1>3, <2>2, <2>3, ReloadIsFresh DEF WriteAnswered, ManagementInv
<1>4. ASSUME NEW w \in writes, WriteFails(w) PROVE [Fresh(k)!Next]_(Fresh(k)!vars)
  BY <1>4, QuietIsFresh DEF WriteFails, server
<1>5. CASE Answers
  BY <1>2, <1>3, <1>4, <1>5, EndIsFresh DEF Answers, ManagementInv
<1>6. CASE LogTimer \/ (\E r \in logs.requests : LogAnswered(r)) \/ UNCHANGED varsManagement
  BY <1>6, QuietIsFresh DEF LogTimer, LogAnswered, varsManagement, server
<1>7. ASSUME NEW j \in Shared, OthersChange(j) PROVE [Fresh(k)!Next]_(Fresh(k)!vars)
  <2>1. j \in Lists
    BY SharedAssumption DEF Lists, Kinds
  <2>2. PICK s \in {Current(j)} \cup {Current(j) \ {id} : id \in Current(j)} :
          lists' = [lists EXCEPT ![j] = Append(@, s)]
    BY <1>7 DEF OthersChange
  <2>3. s \in SUBSET Ids
    BY <2>1, RevIsNat DEF ManagementInv
  <2> QED  BY <1>7, <2>1, <2>2, <2>3, GrowthIsFresh DEF OthersChange, ManagementInv
<1> QED  BY <1>1, <1>5, <1>6, <1>7 DEF NextManagement

(* The lists of the management service implement FreshView: only the newest *)
(* reload of a loader is shown, whatever reloads overlap it, fail or are    *)
(* awaited by a command (ManagementService.reload, reloadRuntime).          *)
THEOREM ListsImplementFreshView == SpecManagement => ListsAreFresh
<1>1. InitManagement => \A k \in FreshLists : Fresh(k)!Init
  <2> SUFFICES ASSUME InitManagement, NEW k \in FreshLists PROVE Fresh(k)!Init
    OBVIOUS
  <2>1. Reloads /\ Floors /\ k \in Lists
    BY IInvBegins, FloorIs, FreshLoaders DEF ManagementInv
  <2>2. shown[k] = 0 /\ Rev(k) \in Nat
    BY <2>1, RevIsNat DEF InitManagement
  <2>3. FloorOf(k) \in {shown[k], Rev(k)}
    <3>1. CASE NewestOf(k) = {}
      BY <2>1, <3>1 DEF Floors
    <3>2. CASE NewestOf(k) # {}
      <4>1. PICK r : r \in NewestOf(k)
        BY <3>2
      <4>2. r.loader = LoaderOf(k) /\ r \in loads
        BY <4>1 DEF NewestOf
      <4>3. r.from[k] = 1
        <5>1. PICK n \in {"all", "workspaces"} :
                r = [loader |-> n, gen |-> 1, from |-> [j \in ListsOf(n) |-> 1], owner |-> NoOp]
          BY <4>2 DEF InitManagement
        <5> QED  BY <4>2, <5>1, FreshLoaders
      <4>4. Rev(k) = 1
        <5>1. \E s \in SUBSET Ids : lists[k] = <<s>>
          BY <2>1 DEF InitManagement
        <5> QED  BY <5>1 DEF Rev
      <4> QED  BY <2>1, <4>1, <4>3, <4>4 DEF Floors
    <3> QED  BY <3>1, <3>2
  <2> QED  BY <2>2, <2>3 DEF Fresh!Init
<1>2. ManagementInv /\ ManagementInv' /\ [NextManagement]_varsManagement
        => [\A k \in FreshLists : [Fresh(k)!Next]_(Fresh(k)!vars)]_varsManagement
  BY StepIsFresh
<1> QED  BY <1>1, <1>2, IInvBegins, IInvKept, PTL DEF SpecManagement, ListsAreFresh

\* What follows for whoever shows such a list.
Bracketed == \A k \in FreshLists : Fresh(k)!TypeOK /\ Fresh(k)!Bracketed

NeverBack == \A k \in FreshLists : shown'[k] >= shown[k] /\ shown'[k] <= Rev(k)'

LEMMA FreshSteps ==
    ASSUME Bracketed, NEW k \in FreshLists, [Fresh(k)!Next]_(Fresh(k)!vars)
    PROVE  /\ (Fresh(k)!TypeOK)' /\ (Fresh(k)!Bracketed)'
           /\ shown'[k] >= shown[k] /\ shown'[k] <= Rev(k)'
BY DEF Bracketed, Fresh!TypeOK, Fresh!Bracketed, Fresh!Next, Fresh!vars, Fresh!Change, Fresh!Ask, Fresh!Show,
   Fresh!GiveUp

(* Whatever reloads overlap or fail, a list on screen is never replaced by  *)
(* an older one, nor by one the server does not have                        *)
(* (ManagementService.reload, reloadRuntime).                               *)
THEOREM ListsNeverGoBack == SpecManagement => [][NeverBack]_varsManagement
<1>1. (\A k \in FreshLists : Fresh(k)!Init) => Bracketed
  BY DEF Bracketed, Fresh!Init, Fresh!TypeOK, Fresh!Bracketed
<1>2. Bracketed /\ [\A k \in FreshLists : [Fresh(k)!Next]_(Fresh(k)!vars)]_varsManagement
        => Bracketed' /\ [NeverBack]_varsManagement
  <2>1. Bracketed /\ (\A k \in FreshLists : [Fresh(k)!Next]_(Fresh(k)!vars)) => Bracketed' /\ NeverBack
    BY FreshSteps DEF Bracketed, NeverBack
  <2>2. Bracketed /\ UNCHANGED varsManagement => Bracketed'
    <3> SUFFICES ASSUME Bracketed, UNCHANGED varsManagement, NEW k \in FreshLists
                 PROVE  (Fresh(k)!TypeOK)' /\ (Fresh(k)!Bracketed)'
      BY DEF Bracketed
    <3> QED  BY QuietIsFresh, FreshSteps DEF varsManagement, server
  <2> QED  BY <2>1, <2>2
<1> QED  BY <1>1, <1>2, ListsImplementFreshView, PTL DEF ListsAreFresh

-----------------------------------------------------------------------------
(* The sheet on screen *)

\* What the service may remember when the pane is drawn anew.
Drawable ==
    /\ pendingID' \in [{"template", "credential", "workspace"} -> Ids \cup {NoItem}]
    /\ sheet' = "confirm-credential-delete" => pendingID'["credential"] # NoItem

LEMMA RenderDraws ==
    ASSUME Dialogs, Terminal, render, Drawable PROVE Dialogs' /\ Terminal'
<1>1. PICK Q : logs' = [content |-> NoItem,
                        requests |-> {[r EXCEPT !.live = FALSE] : r \in logs.requests} \cup Q]
               /\ \/ Q = {}
                  \/ Q = {[ws |-> pendingID'["workspace"], live |-> TRUE]}
  BY DEF render, buildLogs
<1>2. /\ logs' = [content |-> logs'.content, requests |-> logs'.requests]
      /\ logs'.content = NoItem
      /\ logs'.requests = {[r EXCEPT !.live = FALSE] : r \in logs.requests} \cup Q
  BY <1>1
<1>3. ASSUME NEW r \in logs'.requests
      PROVE  r = [ws |-> r.ws, live |-> r.live] /\ (r.live => r.ws = pendingID'["workspace"])
  <2>1. CASE r \in Q
    BY <1>1, <2>1
  <2>2. CASE r \notin Q
    <3>1. PICK q \in logs.requests : r = [q EXCEPT !.live = FALSE]
      BY <1>2, <2>2
    <3>2. q = [ws |-> q.ws, live |-> q.live]
      BY <3>1 DEF Terminal
    <3>3. r = [ws |-> q.ws, live |-> FALSE]
      BY <3>1, <3>2
    <3> QED  BY <3>3
  <2> QED  BY <2>1, <2>2
<1>4. CASE screen' = Blank
  <2>1. screen'.sheet = NoItem /\ screen' = [sheet |-> screen'.sheet, item |-> screen'.item, typed |-> screen'.typed]
    BY <1>4 DEF Blank
  <2>2. screen'.sheet \notin {"confirm-template-delete", "confirm-credential-delete", "build-logs"}
    BY <2>1, NoSheetAssumption DEF Sheets
  <2> QED  BY <1>2, <1>3, <2>1, <2>2 DEF Dialogs, Terminal, Drawable, LogsOfTheSheet
<1>5. CASE screen' = openSheetWindow(sheet', editing', pendingID')
  <2>1. /\ screen' = [sheet |-> screen'.sheet, item |-> screen'.item, typed |-> screen'.typed]
        /\ screen'.sheet = sheet' /\ screen'.item = ItemOf(sheet', editing', pendingID')
    BY <1>5 DEF openSheetWindow
  <2>2. /\ sheet' = "confirm-template-delete" => screen'.item = pendingID'["template"]
        /\ sheet' = "confirm-credential-delete" => screen'.item = pendingID'["credential"]
        /\ sheet' = "build-logs" => screen'.item = pendingID'["workspace"]
    BY <2>1 DEF ItemOf
  <2> QED  BY <1>2, <1>3, <2>1, <2>2 DEF Dialogs, Terminal, Drawable, LogsOfTheSheet
<1> QED  BY <1>4, <1>5 DEF render

\* The screen stays, and the service forgets the workspace at most.
LEMMA NothingDrawn ==
    ASSUME Dialogs, Terminal, UNCHANGED drawing,
           \/ UNCHANGED pendingID
           \/ pendingID' = [pendingID EXCEPT !["workspace"] = NoItem],
           sheet' \in {sheet, NoItem}
    PROVE  Dialogs' /\ Terminal'
<1>1. UNCHANGED <<screen, logs>>
  BY DEF drawing
<1>2. /\ pendingID' \in [{"template", "credential", "workspace"} -> Ids \cup {NoItem}]
      /\ pendingID'["template"] = pendingID["template"]
      /\ pendingID'["credential"] = pendingID["credential"]
      /\ pendingID'["workspace"] \in {NoItem, pendingID["workspace"]}
  BY DEF Dialogs
<1>3. NoItem # "confirm-credential-delete"
  BY NoSheetAssumption DEF Sheets
<1> QED  BY <1>1, <1>2, <1>3 DEF Dialogs, Terminal, LogsOfTheSheet

\* A command draws what it asks for, marks its form dirty or sends a write.
LEMMA ClicksDraw ==
    ASSUME Dialogs, Terminal, Clicks PROVE Dialogs' /\ Terminal'
<1>1. ASSUME render, UNCHANGED pendingID, sheet' # "confirm-credential-delete" \/ UNCHANGED sheet
      PROVE  Dialogs' /\ Terminal'
  BY <1>1, RenderDraws DEF Drawable, Dialogs
<1>2. CASE \/ openManagement \/ Refresh \/ OtherServiceChanges \/ PickTheme
           \/ \E p \in Pages : selectManagementView(p)
  BY <1>1, <1>2 DEF openManagement, Refresh, OtherServiceChanges, PickTheme, selectManagementView,
                    service
<1>3. CASE openWorkspaceCreate \/ closeSheet \/ close
  <2>1. NoItem # "confirm-credential-delete"
    BY NoSheetAssumption DEF Sheets
  <2> QED  BY <1>1, <1>3, <2>1 DEF openWorkspaceCreate, closeSheet, close
<1>4. CASE \/ addTemplate \/ addCredential \/ addModelProvider
           \/ \E id \in Ids : \/ editTemplate(id) \/ editCredential(id) \/ editModelProvider(id)
                             \/ addModel(id) \/ editModel(id)
  BY <1>1, <1>4 DEF addTemplate, addCredential, addModelProvider, editTemplate, editCredential,
                    editModelProvider, addModel, editModel, ShowSheet
<1>5. CASE chooseTemplateKind
  BY <1>1, <1>5 DEF chooseTemplateKind, ShowSheet
<1>6. ASSUME NEW k \in {"template", "credential", "workspace"}, NEW id \in Ids, render,
             pendingID' = [pendingID EXCEPT ![k] = id],
             sheet' = "confirm-credential-delete" => k = "credential"
      PROVE  Dialogs' /\ Terminal'
  <2>1. pendingID' \in [{"template", "credential", "workspace"} -> Ids \cup {NoItem}]
        /\ pendingID'[k] = id
    BY <1>6 DEF Dialogs
  <2> QED  BY <1>6, <2>1, RenderDraws, NoItemAssumption DEF Drawable
<1>7. ASSUME NEW id \in Ids,
             \/ openBuildLogs(id) \/ requestDeleteTemplate(id) \/ requestDeleteCredential(id)
             \/ requestWorkspaceStop(id)
      PROVE  Dialogs' /\ Terminal'
  BY <1>6, <1>7 DEF openBuildLogs, requestDeleteTemplate, requestDeleteCredential,
                    requestWorkspaceStop, RequestConfirmation
<1>8. CASE setDirty
  <2>1. screen' = [screen EXCEPT !.typed = TRUE] /\ UNCHANGED <<logs, sheet, pendingID>>
    BY <1>8 DEF setDirty
  <2>2. screen' = [sheet |-> screen.sheet, item |-> screen.item, typed |-> TRUE]
    BY <2>1 DEF Dialogs
  <2>3. /\ screen'.sheet = screen.sheet /\ screen'.item = screen.item
        /\ screen' = [sheet |-> screen'.sheet, item |-> screen'.item, typed |-> screen'.typed]
    BY <2>2
  <2> QED  BY <2>1, <2>3 DEF Dialogs, Terminal, LogsOfTheSheet
<1>9. ASSUME NEW op, NEW k, NEW id, SendWrite(op, k, id) PROVE Dialogs' /\ Terminal'
  BY <1>9, NothingDrawn DEF SendWrite, service
<1>10. CASE \/ saveTemplate \/ saveCredential \/ saveModelProvider \/ saveModel
            \/ createWorkspace \/ deleteTemplate \/ deleteCredential \/ stopWorkspace
            \/ \E id \in Ids : \/ deleteModelProvider(id) \/ deleteModel(id)
                              \/ startWorkspace(id) \/ deleteWorkspace(id)
  BY <1>9, <1>10
     DEF saveTemplate, saveCredential, saveModelProvider, saveModel, createWorkspace,
         deleteTemplate, deleteCredential, stopWorkspace, deleteModelProvider, deleteModel,
         startWorkspace, deleteWorkspace
<1> QED  BY <1>2, <1>3, <1>4, <1>5, <1>7, <1>8, <1>10 DEF Clicks

\* A write that is answered closes a sheet without drawing only when it stops
\* a workspace; a reload that ends forgets a deleted item only when it draws.
LEMMA AnswersDraw ==
    ASSUME ManagementInv, Dialogs, Terminal, Answers PROVE Dialogs' /\ Terminal'
<1>0. NoItem # "confirm-credential-delete"
  BY NoSheetAssumption DEF Sheets
<1>1. ASSUME NEW w \in writes, ServerApplies(w) \/ WriteFails(w) PROVE Dialogs' /\ Terminal'
  BY <1>1, NothingDrawn DEF ServerApplies, WriteFails, service
<1>2. ASSUME NEW w \in writes, WriteAnswered(w) PROVE Dialogs' /\ Terminal'
  <2>1. IsWrite(w)
    BY DEF ManagementInv, Writes
  <2>2. CASE w.op \in {"save", "delete"}
    <3>1. render /\ UNCHANGED <<sheet, pendingID>>
      BY <1>2, <2>2 DEF WriteAnswered
    <3> QED  BY <3>1, RenderDraws DEF Drawable, Dialogs
  <2>3. CASE w.op \notin {"save", "delete"}
    <3>1. UNCHANGED drawing
      BY <1>2, <2>1, <2>3 DEF WriteAnswered, IsWrite, Ops
    <3> QED  BY <1>2, <3>1, NothingDrawn DEF WriteAnswered
  <2> QED  BY <2>2, <2>3
<1>3. ASSUME NEW l \in loads, LoadDone(l) PROVE Dialogs' /\ Terminal'
  <2>1. PICK o : o = l.owner
    OBVIOUS
  <2>2. AfterReload(o) /\ (render \/ UNCHANGED drawing)
        /\ (o.op = "delete" /\ o.kind \in Posted => render)
    <3>1. o.op = "delete" => o # NoOp
      BY DEF NoOp
    <3> QED  BY <1>3, <2>1, <3>1 DEF LoadDone
  <2>3. sheet' \in {sheet, NoItem}
    BY <2>2 DEF AfterReload
  <2>4. CASE o.op = "delete" /\ o.kind \in Posted
    <3>1. render /\ sheet' = NoItem /\ pendingID' = [pendingID EXCEPT ![o.kind] = NoItem]
      BY <2>2, <2>4 DEF AfterReload
    <3>2. Drawable
      BY <1>0, <2>4, <3>1 DEF Drawable, Dialogs
    <3> QED  BY <3>1, <3>2, RenderDraws
  <2>5. CASE ~(o.op = "delete" /\ o.kind \in Posted)
    <3>1. UNCHANGED pendingID
      BY <2>2, <2>5 DEF AfterReload
    <3>2. CASE render
      BY <1>0, <2>3, <3>1, <3>2, RenderDraws DEF Drawable, Dialogs
    <3>3. CASE UNCHANGED drawing
      BY <2>3, <3>1, <3>3, NothingDrawn
    <3> QED  BY <2>2, <3>2, <3>3
  <2> QED  BY <2>4, <2>5
<1>4. ASSUME NEW l \in loads, LoadFails(l) PROVE Dialogs' /\ Terminal'
  <2>1. UNCHANGED <<sheet, pendingID>> /\ (render \/ UNCHANGED drawing)
    BY <1>4 DEF LoadFails, service
  <2>2. CASE render
    BY <2>1, <2>2, RenderDraws DEF Drawable, Dialogs
  <2>3. CASE UNCHANGED drawing
    BY <2>1, <2>3, NothingDrawn
  <2> QED  BY <2>1, <2>2, <2>3
<1> QED  BY <1>1, <1>2, <1>3, <1>4 DEF Answers

LEMMA TerminalDraws ==
    ASSUME Dialogs, Terminal, LogTimer \/ \E r \in logs.requests : LogAnswered(r)
    PROVE  Dialogs' /\ Terminal'
<1>1. UNCHANGED <<sheet, pendingID, screen>>
  BY DEF LogTimer, LogAnswered, service
<1>2. Dialogs'
  BY <1>1 DEF Dialogs
<1>3. CASE LogTimer
  <2>1. PICK n : n = [ws |-> pendingID["workspace"], live |-> TRUE]
    OBVIOUS
  <2>2. logs' = [logs EXCEPT !.requests = logs.requests \cup {n}] /\ screen.sheet = "build-logs"
    BY <1>3, <2>1 DEF LogTimer
  <2>3. logs' = [content |-> logs.content, requests |-> logs.requests \cup {n}]
    <3>1. PICK Q : Q = logs.requests \cup {n}
      OBVIOUS
    <3>2. logs' = [logs EXCEPT !.requests = Q]
      BY <2>2, <3>1
    <3>3. logs' = [content |-> logs.content, requests |-> Q]
      BY <3>2 DEF Terminal
    <3> QED  BY <3>1, <3>3
  <2>4. n = [ws |-> n.ws, live |-> n.live] /\ n.ws \in {NoItem, screen.item}
    BY <2>1, <2>2 DEF Dialogs
  <2>5. /\ logs' = [content |-> logs'.content, requests |-> logs'.requests]
        /\ logs'.content = logs.content /\ logs'.requests = logs.requests \cup {n}
    BY <2>3
  <2> QED  BY <1>1, <1>2, <2>4, <2>5 DEF Terminal, LogsOfTheSheet
<1>4. ASSUME NEW r \in logs.requests, LogAnswered(r) PROVE Terminal'
  <2>1. logs' = [requests |-> logs.requests \ {r},
                 content |-> IF r.live THEN r.ws ELSE logs.content]
    BY <1>4 DEF LogAnswered
  <2>2. /\ logs' = [content |-> logs'.content, requests |-> logs'.requests]
        /\ logs'.content = (IF r.live THEN r.ws ELSE logs.content)
        /\ logs'.requests = logs.requests \ {r}
    BY <2>1
  <2> QED  BY <1>1, <2>2 DEF Terminal, LogsOfTheSheet
<1> QED  BY <1>2, <1>3, <1>4

LEMMA ScreenKept == ManagementInv /\ Dialogs /\ Terminal /\ [NextManagement]_varsManagement => Dialogs' /\ Terminal'
<1> SUFFICES ASSUME ManagementInv, Dialogs, Terminal, [NextManagement]_varsManagement PROVE Dialogs' /\ Terminal'
  OBVIOUS
<1>1. CASE (\E k \in Shared : OthersChange(k)) \/ UNCHANGED varsManagement
  <2>1. UNCHANGED <<pendingID, sheet, drawing>>
    BY <1>1 DEF OthersChange, varsManagement, service
  <2> QED  BY <2>1, NothingDrawn
<1> QED  BY <1>1, ClicksDraw, AnswersDraw, TerminalDraws DEF NextManagement

LEMMA ScreenBegins == InitManagement => Dialogs /\ Terminal
<1> SUFFICES ASSUME InitManagement PROVE Dialogs /\ Terminal
  OBVIOUS
<1>1. screen = [sheet |-> NoItem, item |-> NoItem, typed |-> FALSE] /\ sheet = NoItem
      /\ logs = [content |-> NoItem, requests |-> {}]
  BY DEF InitManagement, Blank
<1>2. pendingID \in [{"template", "credential", "workspace"} -> Ids \cup {NoItem}]
  BY DEF InitManagement
<1>3. NoItem \notin {"confirm-template-delete", "confirm-credential-delete", "build-logs"}
  BY NoSheetAssumption DEF Sheets
<1> QED  BY <1>1, <1>2, <1>3 DEF Dialogs, Terminal, LogsOfTheSheet

(* The terminal on screen shows the log of its workspace or none, whatever  *)
(* requests of earlier sheets are under way, and also when the service has  *)
(* closed the sheet or forgotten the workspace without drawing that         *)
(* (ManagementPane's build-log sheet, ManagementService.stopWorkspace).     *)
THEOREM TerminalShowsItsWorkspace == SpecManagement => []LogsOfTheSheet
<1>1. Dialogs /\ Terminal => LogsOfTheSheet
  BY DEF Terminal
<1> QED  BY <1>1, IInvBegins, IInvKept, ScreenBegins, ScreenKept, PTL DEF SpecManagement

(* A delete is sent for the item whose confirmation is on screen: other     *)
(* commands that end meanwhile may forget the item only together with the   *)
(* sheet that shows it (ManagementService.deleteTemplate, deleteCredential). *)
THEOREM DeletesWhatIsShown == SpecManagement => DeleteMatchesDialog
<1>1. ManagementInv /\ Dialogs /\ [NextManagement]_varsManagement
        => [\A w \in writes' \ writes :
              w.op = "delete" /\ w.kind \in Posted /\ w.rev = 0
                => w.id = screen.item /\ w.id # NoItem]_writes
  <2> SUFFICES ASSUME ManagementInv, Dialogs, [NextManagement]_varsManagement, NEW w \in writes' \ writes,
                      w.op = "delete", w.kind \in Posted, w.rev = 0
               PROVE  w.id = screen.item /\ w.id # NoItem
    OBVIOUS
  <2>1. ASSUME NEW op, NEW k, NEW id, SendWrite(op, k, id) PROVE op = w.op /\ k = w.kind /\ id = w.id
    <3>1. PICK v : v = [n |-> clicks + 1, op |-> op, kind |-> k, id |-> id, rev |-> 0]
      OBVIOUS
    <3>2. w = v
      BY <2>1, <3>1 DEF SendWrite
    <3> QED  BY <3>1, <3>2
  <2>2. CASE deleteTemplate
    BY <2>1, <2>2 DEF deleteTemplate, Dialogs
  <2>3. CASE deleteCredential
    BY <2>1, <2>3 DEF deleteCredential, Dialogs
  <2>4. ASSUME \/ saveTemplate \/ saveCredential \/ saveModelProvider \/ saveModel
               \/ createWorkspace \/ stopWorkspace
               \/ \E id \in Ids : \/ deleteModelProvider(id) \/ deleteModel(id)
                                 \/ startWorkspace(id) \/ deleteWorkspace(id)
        PROVE  FALSE
    BY <2>1, <2>4
       DEF saveTemplate, saveCredential, saveModelProvider, saveModel, createWorkspace,
           stopWorkspace, deleteModelProvider, deleteModel, startWorkspace, deleteWorkspace, Posted
  <2>5. ASSUME UNCHANGED writes PROVE FALSE
    BY <2>5
  <2>6. CASE Clicks
    BY <2>2, <2>3, <2>4, <2>5, <2>6
       DEF Clicks, openManagement, openWorkspaceCreate, closeSheet, close, Refresh,
           OtherServiceChanges, PickTheme, setDirty, selectManagementView, addTemplate,
           chooseTemplateKind, addCredential, addModelProvider, openBuildLogs, editTemplate,
           editCredential, editModelProvider, addModel, editModel, requestDeleteTemplate,
           requestDeleteCredential, requestWorkspaceStop, RequestConfirmation, ShowSheet, Command
  <2>7. ASSUME NEW v \in writes, ServerApplies(v) PROVE FALSE
    <3>1. IsWrite(v) /\ v.kind \in Lists
      BY DEF ManagementInv, Writes, IsWrite, Lists
    <3>2. PICK u : u = [v EXCEPT !.rev = Rev(v.kind) + 1]
      OBVIOUS
    <3>3. u.rev = Rev(v.kind) + 1 /\ Rev(v.kind) \in Nat
      BY <3>1, <3>2, RevIsNat DEF IsWrite, ManagementInv
    <3>4. w = u
      BY <2>7, <3>2 DEF ServerApplies
    <3> QED  BY <3>3, <3>4
  <2>8. CASE Answers
    BY <2>7, <2>8 DEF Answers, WriteAnswered, WriteFails, LoadDone, LoadFails
  <2>9. CASE LogTimer \/ (\E r \in logs.requests : LogAnswered(r)) \/ UNCHANGED varsManagement
             \/ \E k \in Shared : OthersChange(k)
    BY <2>5, <2>9 DEF LogTimer, LogAnswered, OthersChange, varsManagement
  <2> QED  BY <2>6, <2>8, <2>9 DEF NextManagement
<1> QED  BY <1>1, IInvBegins, IInvKept, ScreenBegins, ScreenKept, PTL DEF SpecManagement, DeleteMatchesDialog
================================================================================
