------------------------- MODULE WorkbenchManagement -------------------------
(***************************************************************************)
(* The settings window of the workbench: ManagementService, the pane that  *)
(* draws it (ManagementPane) and the HTTP provider behind it.              *)
(*                                                                         *)
(* Every command of the service is asynchronous: a write is sent, its      *)
(* answer starts a reload of the lists, and the end of that reload closes  *)
(* the sheet, whichever sheet is open by then.  Meanwhile the user goes on *)
(* clicking, other reloads are under way, requests fail, and other clients *)
(* change the lists.  The pane draws itself anew, form fields included,    *)
(* each time the service fires its change event, and only then: what is on *)
(* screen and what the service holds are separate state here.              *)
(*                                                                         *)
(* A list is abstracted to the history of its contents at the server       *)
(* (lists[k]); what the window shows of it is a position in that history.  *)
(***************************************************************************)
EXTENDS Naturals, Sequences, FiniteSets, FiniteSetsExt

CONSTANTS
    Ids,         \* identifiers of templates, credentials, models, workspaces
    NoItem,        \* no identifier: "" or null in the code
    MaxClicks,   \* bound: user actions in a behaviour
    Shared,      \* the lists other clients change as well
    MaxRev       \* bound: changes of the lists up to which other clients add theirs

ASSUME NoItemAssumption == NoItem \notin Ids

ASSUME BoundAssumption == MaxClicks \in Nat /\ MaxRev \in Nat

ASSUME SharedAssumption ==
    Shared \subseteq {"template", "credential", "provider", "model",
                     "provisioner", "workspace"}

VARIABLES
    open,        \* _open: the settings window exists
    viewID,      \* _managementViewID
    sheet,       \* _sheet, NoItem when no sheet is open
    editing,     \* _editingTemplate, _editingCredential, ...: the edited item
    pendingID,   \* _pendingTemplateDeleteID, ..., _pendingWorkspaceID
    dirty,       \* _dirty
    screen,      \* the sheet on screen, the item it was drawn for, and
                 \* whether its fields hold input of the user
    logs,        \* the build-log terminal on screen and the log requests
    lists,       \* the contents of each list at the server, oldest first
    shown,       \* the revision of each list the window shows, 0 before the
                 \* first load
    acked,       \* the newest revision an acknowledged write of this window made
    generation,  \* reloadGeneration, runtimeReloadGeneration
    loads,       \* reloads under way
    writes,      \* writes under way
    modelsState, \* _modelsState
    clicks       \* user actions so far

service == <<open, viewID, sheet, editing, pendingID, dirty>>
drawing == <<screen, logs>>
server == <<lists, acked>>
varsManagement ==
    <<service, drawing, server, shown, generation, loads, writes, modelsState, clicks>>

----------------------------------------------------------------------------

Kinds == {"template", "credential", "provider", "model"}
Lists == Kinds \cup {"provisioner", "workspace"}

\* A saved template or credential is always posted; a model or a model
\* provider is patched when one is being edited.
Posted == {"template", "credential"}

\* The three loaders.  Those of the management service carry a generation,
\* the one of the workspace service does not (its number is an identity only).
ListsOf(l) == CASE l = "all" -> Kinds
                [] l = "runtime" -> {"provisioner"}
                [] l = "workspaces" -> {"workspace"}
Loaders == {"all", "runtime", "workspaces"}
Guarded == {"all", "runtime"}

Pages == {"settings", "workspaces", "templates", "credentials", "models",
          "provisioners"}
Forms == {"template", "credential", "model-provider", "model",
          "workspace-create"}
Sheets == Forms \cup {"template-source", "build-logs",
                      "confirm-template-delete", "confirm-credential-delete",
                      "confirm-workspace-stop"}

ASSUME NoSheetAssumption == NoItem \notin Sheets

FormOf(k) == IF k = "provider" THEN "model-provider" ELSE k

NoOp == [n |-> 0, op |-> "none", kind |-> "none", id |-> NoItem, rev |-> 0]

Rev(k) == Len(lists[k])
Current(k) == lists[k][Rev(k)]
Listed(k) == IF shown[k] = 0 THEN {} ELSE lists[k][shown[k]]

----------------------------------------------------------------------------
(* Drawing. *)

Blank == [sheet |-> NoItem, item |-> NoItem, typed |-> FALSE]

\* The item a sheet is drawn for.
ItemOf(s, e, p) ==
    CASE s \in {"template", "credential", "model"} -> e[s]
      [] s = "model-provider" -> e["provider"]
      [] s = "confirm-template-delete" -> p["template"]
      [] s = "confirm-credential-delete" -> p["credential"]
      [] s \in {"confirm-workspace-stop", "build-logs"} -> p["workspace"]
      [] OTHER -> NoItem

\* Opening the sheet window: a fresh form, filled in from the edited item.
openSheetWindow(s, e, p) == [sheet |-> s, item |-> ItemOf(s, e, p), typed |-> FALSE]

\* Drawing the build-log sheet asks for the logs at once; the requests of the
\* terminal drawn before are disposed of.
buildLogs(wanted) ==
    logs' = [content |-> NoItem,
             requests |-> {[r EXCEPT !.live = FALSE] : r \in logs.requests} \cup
                          (IF wanted THEN {[ws |-> pendingID'["workspace"], live |-> TRUE]}
                                     ELSE {})]

\* The pane is thrown away and drawn from the service's state.
render ==
    /\ screen' = IF open' /\ sheet' # NoItem
                   THEN openSheetWindow(sheet', editing', pendingID') ELSE Blank
    /\ buildLogs(open' /\ sheet' = "build-logs")

\* A sheet is modal: the page under it takes no clicks.
PageShown(p) == open /\ screen.sheet = NoItem /\ viewID = p

WorkspaceRow(id) == PageShown("workspaces") /\ id \in Listed("workspace")
TemplateRow(id) == PageShown("templates") /\ id \in Listed("template")
CredentialRow(id) == PageShown("credentials") /\ id \in Listed("credential")
ModelsDrawn == PageShown("models") /\ modelsState \notin {"loading", "error"}
ModelProviderRow(id) == ModelsDrawn /\ id \in Listed("provider")
ModelRow(id) == ModelsDrawn /\ Listed("provider") # {} /\ id \in Listed("model")

\* A form can be submitted once it is filled in: by the user or from the item.
FormFilled(s) == screen.sheet = s /\ (screen.typed \/ screen.item # NoItem)

Click == clicks < MaxClicks /\ clicks' = clicks + 1

----------------------------------------------------------------------------
(* Requests. *)

Load(l, o) == [loader |-> l, gen |-> generation[l] + 1,
               from |-> [k \in ListsOf(l) |-> Rev(k)], owner |-> o]

\* reload, reloadRuntime and the workspace service's reload up to their await.
reload(ls, o) ==
    /\ generation' = [l \in Loaders |-> IF l \in ls THEN generation[l] + 1
                                                    ELSE generation[l]]
    /\ loads' = loads \cup {Load(l, o) : l \in ls}
    /\ modelsState' = IF "all" \in ls THEN "loading" ELSE modelsState

NoReload == UNCHANGED <<generation, loads, modelsState>>

\* A command of the service that only changes its own state.
Command == Click /\ UNCHANGED <<server, shown, writes>>

\* A command that sends a write and awaits it.
SendWrite(op, k, id) ==
    /\ Click
    /\ writes' = writes \cup
         {[n |-> clicks + 1, op |-> op, kind |-> k, id |-> id, rev |-> 0]}
    /\ UNCHANGED <<service, drawing, server, shown>>
    /\ NoReload

----------------------------------------------------------------------------
(* The window. *)

openManagement ==
    /\ Command
    /\ open' = TRUE
    /\ UNCHANGED <<viewID, sheet, editing, pendingID, dirty>>
    /\ IF open THEN NoReload ELSE reload(Loaders, NoOp)
    /\ render

openWorkspaceCreate ==
    /\ Command
    /\ ~open \/ PageShown("workspaces")
    /\ open' = TRUE
    /\ viewID' = "workspaces"
    /\ sheet' = "workspace-create"
    /\ dirty' = FALSE
    /\ UNCHANGED <<editing, pendingID>>
    /\ IF open THEN NoReload ELSE reload(Loaders, NoOp)
    /\ render

\* Also offered by the new-session view, where no settings window draws it.
openBuildLogs(w) ==
    /\ Command
    /\ WorkspaceRow(w) \/ (~open /\ w \in Listed("workspace"))
    /\ pendingID' = [pendingID EXCEPT !["workspace"] = w]
    /\ sheet' = "build-logs"
    /\ UNCHANGED <<open, viewID, editing, dirty>>
    /\ NoReload
    /\ render

NothingEdited == [k \in Kinds |-> NoItem]

closeSheet ==
    /\ Command
    /\ screen.sheet # NoItem
    /\ dirty' = FALSE
    /\ sheet' = NoItem
    /\ editing' = NothingEdited
    /\ UNCHANGED <<open, viewID, pendingID>>
    /\ NoReload
    /\ render

close ==
    /\ Command
    /\ open /\ screen.sheet = NoItem
    /\ open' = FALSE
    /\ dirty' = FALSE
    /\ sheet' = NoItem
    /\ editing' = NothingEdited
    /\ UNCHANGED <<viewID, pendingID>>
    /\ NoReload
    /\ render

selectManagementView(p) ==
    /\ Command
    /\ open /\ screen.sheet = NoItem /\ viewID # p
    /\ viewID' = p
    /\ UNCHANGED <<open, sheet, editing, pendingID, dirty>>
    /\ NoReload
    /\ render

\* The refresh button of the toolbar.
Refresh ==
    /\ Command
    /\ open /\ screen.sheet = NoItem
    /\ UNCHANGED service
    /\ reload(Loaders, NoOp)
    /\ render

\* The theme or the workspace service changes: the pane is drawn anew.
OtherServiceChanges ==
    /\ Command
    /\ open
    /\ UNCHANGED service
    /\ NoReload
    /\ render

\* The page of common settings: the pane listens to the theme service.
PickTheme == PageShown("settings") /\ OtherServiceChanges

----------------------------------------------------------------------------
(* The sheets. *)

ShowSheet(s, e) ==
    /\ Command
    /\ sheet' = s
    /\ editing' = e
    /\ dirty' = FALSE
    /\ UNCHANGED <<open, viewID, pendingID>>
    /\ NoReload
    /\ render

\* The form for a new workspace offers a new template when there is none.
addTemplate ==
    /\ \/ PageShown("templates")
       \/ screen.sheet = "workspace-create" /\ Listed("template") = {}
    /\ ShowSheet("template-source", [editing EXCEPT !["template"] = NoItem])

chooseTemplateKind ==
    /\ screen.sheet = "template-source"
    /\ ShowSheet("template", editing)

editTemplate(id) ==
    /\ TemplateRow(id)
    /\ ShowSheet("template", [editing EXCEPT !["template"] = id])

addCredential ==
    /\ PageShown("credentials")
    /\ ShowSheet("credential", [editing EXCEPT !["credential"] = NoItem])

editCredential(id) ==
    /\ CredentialRow(id)
    /\ ShowSheet("credential", [editing EXCEPT !["credential"] = id])

addModelProvider ==
    /\ PageShown("models")
    /\ ShowSheet("model-provider", [editing EXCEPT !["provider"] = NoItem])

editModelProvider(id) ==
    /\ ModelProviderRow(id)
    /\ ShowSheet("model-provider", [editing EXCEPT !["provider"] = id])

addModel(p) ==
    /\ ModelProviderRow(p)
    /\ ShowSheet("model", [editing EXCEPT !["model"] = NoItem])

editModel(id) ==
    /\ ModelRow(id)
    /\ ShowSheet("model", [editing EXCEPT !["model"] = id])

\* Typing marks the form and the service dirty; nothing is drawn anew.
setDirty ==
    /\ Command
    /\ screen.sheet \in Forms /\ ~screen.typed
    /\ screen' = [screen EXCEPT !.typed = TRUE]
    /\ dirty' = TRUE
    /\ UNCHANGED <<open, viewID, sheet, editing, pendingID, logs>>
    /\ NoReload

\* The confirmation sheets.
RequestConfirmation(s, k, id) ==
    /\ Command
    /\ pendingID' = [pendingID EXCEPT ![k] = id]
    /\ sheet' = s
    /\ UNCHANGED <<open, viewID, editing, dirty>>
    /\ NoReload
    /\ render

requestDeleteTemplate(id) ==
    TemplateRow(id) /\ RequestConfirmation("confirm-template-delete", "template", id)

requestDeleteCredential(id) ==
    CredentialRow(id) /\ RequestConfirmation("confirm-credential-delete", "credential", id)

requestWorkspaceStop(w) ==
    WorkspaceRow(w) /\ RequestConfirmation("confirm-workspace-stop", "workspace", w)

----------------------------------------------------------------------------
(* The writes. *)

saveTemplate == FormFilled("template") /\ SendWrite("save", "template", NoItem)

saveCredential == FormFilled("credential") /\ SendWrite("save", "credential", NoItem)

saveModelProvider ==
    FormFilled("model-provider") /\ SendWrite("save", "provider", editing["provider"])

saveModel == FormFilled("model") /\ SendWrite("save", "model", editing["model"])

createWorkspace ==
    /\ FormFilled("workspace-create") /\ Listed("template") # {}
    /\ SendWrite("create", "workspace", NoItem)

deleteTemplate ==
    /\ screen.sheet = "confirm-template-delete"
    /\ pendingID["template"] # NoItem
    /\ SendWrite("delete", "template", pendingID["template"])

deleteCredential ==
    /\ screen.sheet = "confirm-credential-delete"
    /\ SendWrite("delete", "credential", pendingID["credential"])

deleteModelProvider(id) == ModelProviderRow(id) /\ SendWrite("delete", "provider", id)

deleteModel(id) == ModelRow(id) /\ SendWrite("delete", "model", id)

startWorkspace(w) == WorkspaceRow(w) /\ SendWrite("start", "workspace", w)

stopWorkspace ==
    /\ screen.sheet = "confirm-workspace-stop"
    /\ SendWrite("stop", "workspace", pendingID["workspace"])

deleteWorkspace(w) == WorkspaceRow(w) /\ SendWrite("remove", "workspace", w)

\* What the server makes of a write: a post adds an item, a patch or a build
\* keeps the items, a delete removes one.  Anything else it refuses.
Effects(w) ==
    LET now == Current(w.kind) IN
    IF w.op = "create" \/ (w.op = "save" /\ w.id = NoItem)
      THEN {now \cup {id} : id \in Ids \ now}
      ELSE IF w.id \notin now THEN {}
      ELSE IF w.op = "delete" THEN {now \ {w.id}} ELSE {now}

ServerApplies(w) ==
    /\ w \in writes /\ w.rev = 0
    /\ \E s \in Effects(w) : lists' = [lists EXCEPT ![w.kind] = Append(@, s)]
    /\ writes' = (writes \ {w}) \cup {[w EXCEPT !.rev = Rev(w.kind) + 1]}
    /\ UNCHANGED <<service, drawing, shown, acked, generation, loads,
                   modelsState, clicks>>

\* The answer arrives and the command goes on to its reload.  Stopping a
\* workspace closes the sheet here, without firing the change event; saving
\* a model or a provider forgets the edited item before the reload redraws.
WriteAnswered(w) ==
    /\ w \in writes /\ w.rev > 0
    /\ writes' = writes \ {w}
    /\ acked' = [acked EXCEPT ![w.kind] = IF w.rev > @ THEN w.rev ELSE @]
    /\ editing' = IF w.op = "save" /\ w.kind \notin Posted
                    THEN [editing EXCEPT ![w.kind] = NoItem] ELSE editing
    /\ sheet' = IF w.op = "stop" THEN NoItem ELSE sheet
    /\ pendingID' = IF w.op = "stop" THEN [pendingID EXCEPT !["workspace"] = NoItem]
                                     ELSE pendingID
    /\ UNCHANGED <<open, viewID, dirty, lists, shown, clicks>>
    /\ CASE w.op \in {"save", "delete"} -> reload({"all"}, w) /\ render
         [] w.op \in {"start", "stop", "remove"} ->
              reload({"runtime"}, w) /\ UNCHANGED drawing
         [] w.op = "create" -> reload({"workspaces"}, w) /\ UNCHANGED drawing

\* The write fails, or takes effect and its answer is lost.  The form stays.
WriteFails(w) ==
    /\ w \in writes
    /\ writes' = writes \ {w}
    /\ UNCHANGED <<service, drawing, server, shown, generation, loads,
                   modelsState, clicks>>

----------------------------------------------------------------------------
(* The reloads. *)

\* Mutant: no reload is ever outdated.
BugNewest(l) == TRUE

Newest(l) == l.loader \notin Guarded \/ l.gen = generation[l.loader]

\* Mutant: the end of a delete forgets its item and leaves the sheet open.
BugAfterReload(o) ==
    /\ sheet' = IF o.op \in {"save", "create"} THEN NoItem ELSE sheet
    /\ dirty' = IF o.op \in {"save", "create"} THEN FALSE ELSE dirty
    /\ editing' = IF o.op = "create" THEN NothingEdited
                  ELSE IF o.op = "save" THEN [editing EXCEPT ![o.kind] =
                                                IF o.kind \in Posted THEN NoItem ELSE @]
                  ELSE editing
    /\ pendingID' = IF o.op = "delete" /\ o.kind \in Posted
                      THEN [pendingID EXCEPT ![o.kind] = NoItem] ELSE pendingID
    /\ UNCHANGED <<open, viewID>>

\* The service's state once the command that awaited this reload returns.
AfterReload(o) ==
    /\ sheet' = IF \/ o.op \in {"save", "create"}
                   \/ o.op = "delete" /\ o.kind \in Posted
                  THEN NoItem ELSE sheet
    /\ dirty' = IF o.op \in {"save", "create"} THEN FALSE ELSE dirty
    /\ editing' = IF o.op = "create" THEN NothingEdited
                  ELSE IF o.op = "save" THEN [editing EXCEPT ![o.kind] =
                                                IF o.kind \in Posted THEN NoItem ELSE @]
                  ELSE editing
    /\ pendingID' = IF o.op = "delete" /\ o.kind \in Posted
                      THEN [pendingID EXCEPT ![o.kind] = NoItem] ELSE pendingID
    /\ UNCHANGED <<open, viewID>>

\* The most any list has changed since the reload began.
Behind(l) == Max({Rev(k) - l.from[k] : k \in ListsOf(l.loader)})

\* All lists of a reload have arrived, each as it was at some moment since
\* the reload began.  An outdated reload is dropped, but the command that
\* awaits it goes on all the same; a build command then reloads workspaces.
LoadDone(l) ==
    /\ l \in loads
    /\ \E since \in [ListsOf(l.loader) -> 0..Behind(l)] :
         /\ \A k \in ListsOf(l.loader) : l.from[k] + since[k] <= Rev(k)
         /\ shown' = [k \in Lists |-> IF Newest(l) /\ k \in ListsOf(l.loader)
                                         THEN l.from[k] + since[k] ELSE shown[k]]
    /\ AfterReload(l.owner)
    /\ LET follows == l.loader = "runtime" /\ l.owner # NoOp
       IN /\ loads' = (loads \ {l}) \cup
                        (IF follows THEN {Load("workspaces", NoOp)} ELSE {})
          /\ generation' = IF follows
               THEN [generation EXCEPT !["workspaces"] = @ + 1] ELSE generation
    /\ modelsState' = IF l.loader = "all" /\ Newest(l) THEN "ready" ELSE modelsState
    /\ IF Newest(l) \/ (l.owner # NoOp /\ l.owner.op # "start" /\
                        ~(l.owner.op = "delete" /\ l.owner.kind \notin Posted))
         THEN render ELSE UNCHANGED drawing
    /\ UNCHANGED <<server, writes, clicks>>

\* Mutant: a failure leaves the models in their loading state.
BugLoadFails(l) ==
    /\ l \in loads
    /\ loads' = loads \ {l}
    /\ UNCHANGED <<service, drawing, server, shown, generation, writes, clicks,
                   modelsState>>

\* One of the requests of a reload fails.  The awaiting command is abandoned.
LoadFails(l) ==
    /\ l \in loads
    /\ loads' = loads \ {l}
    /\ UNCHANGED <<service, server, shown, generation, writes, clicks>>
    /\ IF l.loader = "all" /\ Newest(l)
         THEN modelsState' = "error" /\ render
         ELSE UNCHANGED <<modelsState, drawing>>

\* Another client changes a list.
OthersChange(k) ==
    /\ Cardinality(UNION {{j} \X (2..Rev(j)) : j \in Lists}) < MaxRev
    /\ \E s \in {Current(k)} \cup {Current(k) \ {id} : id \in Current(k)} :
         lists' = [lists EXCEPT ![k] = Append(@, s)]
    /\ UNCHANGED <<service, drawing, acked, shown, generation, loads, writes,
                   modelsState, clicks>>

----------------------------------------------------------------------------
(* The build logs. *)

\* The two-second timer; a terminal has one request under way at most.
LogTimer ==
    /\ screen.sheet = "build-logs"
    /\ ~ \E r \in logs.requests : r.live
    /\ logs' = [logs EXCEPT !.requests =
                  @ \cup {[ws |-> pendingID["workspace"], live |-> TRUE]}]
    /\ UNCHANGED <<service, screen, server, shown, generation, loads, writes,
                   modelsState, clicks>>

\* Mutant: the answer is written whether its terminal is still there or not.
BugLogAnswered(r) ==
    /\ r \in logs.requests
    /\ logs' = [requests |-> logs.requests \ {r}, content |-> r.ws]
    /\ UNCHANGED <<service, screen, server, shown, generation, loads, writes,
                   modelsState, clicks>>

\* Logs, or the lack of them, are written to the terminal that asked.
LogAnswered(r) ==
    /\ r \in logs.requests
    /\ logs' = [requests |-> logs.requests \ {r},
                content |-> IF r.live THEN r.ws ELSE logs.content]
    /\ UNCHANGED <<service, screen, server, shown, generation, loads, writes,
                   modelsState, clicks>>

----------------------------------------------------------------------------

InitManagement ==
    /\ open = FALSE /\ viewID = "settings"
    /\ sheet = NoItem /\ editing = NothingEdited /\ dirty = FALSE
    /\ pendingID = [k \in {"template", "credential", "workspace"} |-> NoItem]
    /\ screen = Blank
    /\ logs = [content |-> NoItem, requests |-> {}]
    /\ lists \in [Lists -> {<<s>> : s \in SUBSET Ids}]
    /\ shown = [k \in Lists |-> 0]
    /\ acked = [k \in Lists |-> 0]
    /\ generation = [l \in Loaders |-> IF l = "runtime" THEN 0 ELSE 1]
    /\ loads = {[loader |-> l, gen |-> 1, from |-> [k \in ListsOf(l) |-> 1],
                 owner |-> NoOp] : l \in {"all", "workspaces"}}
    /\ writes = {} /\ modelsState = "loading" /\ clicks = 0

Clicks ==
    \/ openManagement \/ openWorkspaceCreate \/ closeSheet \/ close
    \/ Refresh \/ OtherServiceChanges \/ PickTheme \/ setDirty
    \/ \E p \in Pages : selectManagementView(p)
    \/ addTemplate \/ chooseTemplateKind \/ addCredential \/ addModelProvider
    \/ saveTemplate \/ saveCredential \/ saveModelProvider \/ saveModel
    \/ createWorkspace \/ deleteTemplate \/ deleteCredential \/ stopWorkspace
    \/ \E id \in Ids :
         \/ openBuildLogs(id) \/ editTemplate(id) \/ editCredential(id)
         \/ editModelProvider(id) \/ addModel(id) \/ editModel(id)
         \/ requestDeleteTemplate(id) \/ requestDeleteCredential(id)
         \/ requestWorkspaceStop(id) \/ deleteModelProvider(id)
         \/ deleteModel(id) \/ startWorkspace(id) \/ deleteWorkspace(id)

Answers ==
    \/ \E w \in writes : ServerApplies(w) \/ WriteAnswered(w) \/ WriteFails(w)
    \/ \E l \in loads : LoadDone(l) \/ LoadFails(l)

NextManagement ==
    \/ Clicks \/ Answers \/ LogTimer
    \/ \E r \in logs.requests : LogAnswered(r)
    \/ \E k \in Shared : OthersChange(k)

\* The browser settles every request, with an answer or with an error.
Fairness == WF_varsManagement(Answers)

SpecManagement == InitManagement /\ [][NextManagement]_varsManagement /\ Fairness

----------------------------------------------------------------------------

OpKinds == [n : 0..MaxClicks, op : {"none", "save", "delete", "create", "start",
                                   "stop", "remove"},
            kind : Kinds \cup {"none", "workspace"}, id : Ids \cup {NoItem}, rev : Nat]

TypeOK ==
    /\ open \in BOOLEAN /\ dirty \in BOOLEAN
    /\ viewID \in Pages
    /\ sheet \in Sheets \cup {NoItem}
    /\ editing \in [Kinds -> Ids \cup {NoItem}]
    /\ pendingID \in [{"template", "credential", "workspace"} -> Ids \cup {NoItem}]
    /\ screen \in [sheet : Sheets \cup {NoItem}, item : Ids \cup {NoItem}, typed : BOOLEAN]
    /\ logs.requests \subseteq [ws : Ids \cup {NoItem}, live : BOOLEAN]
    /\ \A k \in Lists : lists[k] \in Seq(SUBSET Ids) /\ shown[k] \in 0..Rev(k)
    /\ writes \subseteq OpKinds
    /\ \A l \in loads : l.loader \in Loaders /\ l.owner \in OpKinds
    /\ modelsState \in {"loading", "ready", "error"}

(* A list presented as ready contains everything this window has saved or  *)
(* deleted and got an answer for: no reload that was under way when the    *)
(* write was acknowledged can bring the old contents back                  *)
(* (reloadGeneration in ManagementService.reload).                         *)
ReadyIsFresh ==
    modelsState = "ready" => \A k \in Kinds : acked[k] <= shown[k]

(* A delete is sent for the item whose confirmation is on screen, although *)
(* the item is read from the service when the button is pressed and other  *)
(* commands forget it when they end.                                       *)
DeleteMatchesDialog ==
    [][\A w \in writes' \ writes :
         w.op = "delete" /\ w.kind \in Posted /\ w.rev = 0
           => w.id = screen.item /\ w.id # NoItem]_writes

(* The build-log terminal on screen never shows the log of another         *)
(* workspace, whatever requests of earlier sheets are still under way.     *)
LogsOfTheSheet ==
    screen.sheet = "build-logs" => logs.content \in {NoItem, screen.item}

(* The model list does not stay in its loading state: every reload ends in *)
(* the lists or in an error, also when later reloads outdate it.           *)
LoadingSettles == modelsState = "loading" ~> modelsState # "loading"

\* The revision the newest reload of a list returns at least.
FloorOf(k) ==
    LET l == IF k = "provisioner" THEN "runtime" ELSE "all"
        newest == {r \in loads : r.loader = l /\ r.gen = generation[l]}
    IN IF newest = {} THEN shown[k] ELSE (CHOOSE r \in newest : TRUE).from[k]

Fresh(k) == INSTANCE FreshView WITH
    source <- Rev(k), floor <- FloorOf(k), shown <- shown[k]

FreshLists == Kinds \cup {"provisioner"}

(* The lists of the management service implement FreshView: only the       *)
(* newest reload is shown and no list goes back in time.  The workspace    *)
(* list has no generation and is not among them.                           *)
ListsAreFresh ==
    /\ \A k \in FreshLists : Fresh(k)!Init
    /\ [][\A k \in FreshLists : [Fresh(k)!Next]_(Fresh(k)!vars)]_varsManagement

==============================================================================
