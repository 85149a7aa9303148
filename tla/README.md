# Zaw in TLA+

Zaw runs coding agents in remote workspaces. A Go server (the *control plane*) keeps
workspaces and their builds in a database; *provisioner workers* execute builds with
Terraform; an *Agent Host* in each workspace connects back to the server and runs agent
sessions and terminals; the *workbench*, a TypeScript application in the browser, talks to
the server over HTTP and to the Agent Host, through the server, over the Agent Host Protocol
(AHP). This directory models the parts in which something can go wrong that a unit test
hardly reaches: interleavings of handlers, goroutines, processes and callbacks, lost and late
messages, full queues, and what is on screen against what the services behind it hold.

`PROJECT.json` lists components, runs, mutants, findings, hazards and theorems in
machine-readable form, and maps each definition to the source lines it stands for.

## Inventory

| Component | State | Operations | Hard behaviour |
|---|---|---|---|
| Workspace builds (`interfaces/http/workspaces.go`, `domain/workspace`, `usecase/workspace`) | rows `workspaces`, `workspace_builds` | create a workspace, request a build | the row is validated outside the transaction that writes it |
| Provisioner queue (`interfaces/http/provisioners.go`) | rows `provisioner_jobs`, `workspace_resources` | register, claim, report | two claims of one job; two reports of one job; a claim nobody works on |
| Provisioner worker (`provisioner/worker.go`, `infra/terraform`) | current job, infrastructure | claim, execute, report | crash, lost response, lost report, HTTP timeout, failure after a partial apply |
| Agent Host registry (`interfaces/http/ahp.go`) | live host per workspace | accept, register, replace, disconnect | the desired state is checked before the upgrade |
| AHP multiplexer (`interfaces/http/ahp.go`, `ahpmux`, `agenthost/mux.go`, `agenthost/host.go`) | stream table, queues, peer table | open, forward, deliver, close, teardown | open timeout against a late answer; queues at their limit; a stream opened while the connection goes down |
| Agent Host permissions and turns (`agenthost/host.go`, `terminal.go`, `ahp_state.go`) | active turn, approval mode, pending permissions, needed input | ask, answer, cancel, dispose, close | the lock is released between registering, announcing, taking and settling a permission |
| Agent Host action stream (`ahp_state.go`) | chat state, sequence number, subscriptions | apply and emit an action, subscribe | an action is applied under the lock and sent after it, by three goroutines |
| Session catalog on the server (`session_catalog.go`, `usecase/session`, `session_repository.go`) | mirrored session rows | watch a host, replace, upsert, remove | a replaced connection writes after its successor; events are buffered while the list is fetched |
| Workbench chat projection (`ahp-projection-service.ts`, `chat-session.ts`, `conversation-transcript.ts`) | rows, active turn, segments, DOM elements | apply a snapshot or an action, draw | snapshots overtaken by actions; text of a turn broken at tool calls; elements updated in place |
| Workbench attachment and loading (`workspace-attachment.ts`, `ahp-client.ts`, `session-service.ts`, `workspace-resource-service.ts`, `terminal-service.ts`) | the one connection, its requests, generations, listings | attach, open, send, create, load | attachments superseded while they wait; answers of overlapping loads; no timeouts |
| Workbench composer and drafts (`agent-composer.ts`, `new-session-view.ts`, `active-session-view.ts`, `chat-session.ts`) | drafts of workspaces and sessions, editors, pickers | type, pick, attach files, submit, send | what a view shows is drawn on other events than those that change its draft |
| Workbench session list (`session-catalog-service.ts`, `session-catalog-view.ts`) | items, marks, rows, selection, hover | refresh, mark, select, filter, draw | refreshes answered in any order; a hover that never ends; a selection older than the rows |
| Workbench management (`management-service.ts`, `management-view.ts`, `http-management-provider.ts`) | lists, sheet, edited item, dialogs, log terminal | load, edit, save, delete, poll logs | a write, its reload and the sheet it closes, while the user goes on clicking |
| Templates, credentials, identity, models and their gateway, telemetry, updater, working tree, terminals, Copilot adapter, Terraform provider, bootstrap, other workbench views, widgets | | | see *Not modelled* |

What makes them correct, in a sentence each: a build is executed by one worker and ends
once; rows that refer to each other agree; an accepted request is not undone by a stale one;
a client receives what its peer emitted without gaps and no peer or caller is left behind; a
permission is decided once, by the answer meant for it; the catalog follows the host; a
window that waits for nothing shows what the host has; one connection is in use and nobody
waits for an answer that cannot come; what is sent is what was on screen; no list goes back
in time.

## Modules

| Module | Models |
|---|---|
| `WorkspaceLifecycle` | workspaces, builds, jobs, workers, reports and the host registry |
| `AhpMux` | one multiplexed connection between the server and an Agent Host |
| `AgentPermissions` | the turns and permission requests of one Agent Host session |
| `SessionCatalog` | the sessions of one host, its connections, and the server's mirror of them |
| `ChatTranscript` | pure: how rows become items and elements, and how elements are updated in place |
| `ChatProjection` | one chat from the host's goroutines over the connection to the rows and elements of the window; extends `ChatTranscript` |
| `WorkbenchAttachment` | commands of the window as tasks over one connection at a time |
| `WorkbenchComposer` | drafts, editors and pickers, creation and sending |
| `WorkbenchSessionList` | the list of sessions, its service and its rows |
| `WorkbenchManagement` | the settings window, its service, its sheets and the HTTP requests behind it |
| `FreshView` | abstract: what a loader promises the view that shows its list |
| `...Proofs` | inductive invariants and theorems of `WorkspaceLifecycle`, `AhpMux`, `AgentPermissions` and `ChatProjection` (`AgentHostProofs` for both, `ChatMirrorProofs` for what a settled window shows), `SessionCatalog`, `WorkbenchAttachment`, `WorkbenchSessionList`, `WorkbenchComposer` and `WorkbenchManagement` (both in `WorkbenchProofs`) |
| `MC...` | the modules for TLC: symmetry, constants, states a behaviour may begin in |

The modules of the two sides meet in three places. `ChatProjection` composes the host's
action stream, the permission requests `AgentPermissions` treats in detail, the connection
and the window. `WorkspaceLifecycle` contains the host registry whose connections `AhpMux`
and `SessionCatalog` look into. `FreshView` is implemented by `WorkbenchManagement`
(`ListsAreFresh`) and by `WorkbenchSessionList` (`ItemsAreFresh`).

### WorkspaceLifecycle

A transaction is one action. A handler that reads before its transaction is two: `RequestRead`
(validate the operation against the row) and `RequestCommit` (insert build and job, set
desired and observed state and, once committed, disconnect the host of a workspace that is
to stop); `ClaimSelect` (the oldest queued job) and `ClaimCommit` (the conditional update) or
`ClaimMiss`; `ReportCheck` (job, owner, and the transition of the build) and `ReportCommit`
(job, build, and `finalizeWorkspaceBuild` with the resource rows). Builds and their jobs share
a number, drawn in order; `created_at` order is number order. A worker process registers under a
new provisioner number each time it starts. Its Terraform run (`Execute`) succeeds or fails,
and a failed run may have changed the infrastructure. Faults are actions of their own:
`WorkerCrash`, `ClaimResponseLost` (the claim committed, the worker never hears of it),
`ReportLost`, `ReportTimeout` (the worker gives up on a report that the server handles later).

Source checkout, variables, credentials and log events of a build are folded into the choice
of success or failure.

### AhpMux

One variable per table and queue: the server's `streams` table, each stream's `opened` and
`frames` channels and `done`, the goroutine that opened it (`caller`), the frames on their way
in both directions, the host's logical peers. `ahpHostConnection.close` is two actions (`done`
and the socket, then the sweep of the table), because streams are opened and frames routed
between them. `ahpStream.close` is two as well (table and `done`, then the close frame),
because the next stream may be admitted between them. Payloads are numbers in the order a
peer emits them. Each in-memory queue and the wire behind it are one FIFO queue of the queue's
capacity. Heartbeats and frame validation are not modelled: both sides send valid frames only.

### AgentPermissions

`handler[p]` is the goroutine the SDK calls `handleAgentPermission` on, `reader` the host's
reader loop in the middle of a handler, `jobs` the permissions it has taken out of the map and
not settled. Every section between two lock operations is an action. The reducers that apply
actions to session and chat state belong to the AHP library and are modelled by their effect
on the active turn and on the list of needed input. The context passed to
`handleAgentPermission` is not cancelled by the SDK before the session is closed, so the wait
ends with a decision.

### SessionCatalog

A summary is a version number drawn from one clock, so that an older summary can be told from
a newer one; 0 is no session. On the host, the reader loop (`"reader"`) and the goroutines of
the Agent SDK (`"sdk"`) change a session (`Create`, `Dispose`, `Dispatch`, `AgentEvent`), read
its summary under the lock (`Summarise`) and send it afterwards (`Emit`). On the server,
`Register` and `ClosePrevious` are the two halves of accepting a connection, `ConnLost`,
`Unregister` and `Disconnect` its ends, and `watcher[c]` is the program counter of
`watchSessionCatalog` for connection `c`: `Initialize` (new peer and subscription),
`ListSessions`, `CheckCurrent`, `Replace`, then `TakeEvent` and `Apply` for each notification.
`SyncFails` is any error on a connection that stays up, `WatchEnds` the cancelled context or a
replaced connection. `HostCrash` ends the host process, whose sessions are in memory only.
Partial summaries are whole ones here: the host always sends title, status and time.
Announcing the removal of a session that is already gone is left out; it deletes no row.

### ChatTranscript and ChatProjection

The host applies an action to the chat under its lock and hands it to the connection after
releasing the lock. Three goroutines do so: `agent` (events of the SDK), `ask` (a permission
request) and `reader` (requests of the window, which also answers a subscription with a
snapshot taken under the lock). `chat` is the host's chat, the turns that are past and the
active one; `Applied` is what an action makes of it. The reducers belong to the AHP library and
are external; the model has their effect on turns and parts. `flight` holds what is on its way
in the order it was applied, each entry with its goroutine (`from`), the action (`msg`) and the
chat it was made from (`was`: what a snapshot shows, history for an action). What a goroutine
still has to send may be overtaken by what the others send: `odd` (the chat had no use for the
action) and `late` (something sent after it arrived before it) are history, which `blurred`
collects for the window.

In the window, `SnapshotArrives` and the arrivals of the actions are the cases of
`AHPProjectionService`: a delta is added to the row of its turn and segment, a tool call
begins a new segment and replaces its own card, a request for approval becomes a card with
buttons, the end of a turn leaves an error row. Each change of the rows is followed by a
refresh of the view: `updateTranscript` and `updateLane` compare the new items with those
drawn before, index by index, as the code does.

### WorkbenchAttachment

An asynchronous command is a task: `at` says what it awaits, and everything that follows one
event without another await is one step, because JavaScript runs it so; tasks at `attach` or
`attached` go before the next event. A connection (`conn[c]`) answers requests in order, has
no timeouts, and rejects all pending requests in its close event. `generation` and `current`
are those of `WorkspaceAttachmentService`, `loads` the generations of
`WorkspaceResourceService`. Refused connections and requests and lost connections are counted
by `MaxFaults`.

### WorkbenchComposer

`held` are the drafts, by workspace for the new session view and by session for the others;
`view` is what each view shows. `AgentComposer.refresh` updates the editor, `refreshPickers`
the pickers; which event calls which is what the module is about. `refreshPickers` corrects
the draft in a microtask, which runs before anything that awaits goes on, so the correction
is part of the step. Sending reads the draft at once when the workspace is attached and
after attaching otherwise (`Message`), and `Created` is the order in which the pane, the view
and `zaw.session.create` run when a session is there.

### WorkbenchSessionList

The server's list is the history of its contents, and the window holds a position in it for
each provider (`seen`). `Newest` is the test of the serial numbers with which an answer is
accepted. A change of the service reaches the pane as `catalogChanged`, which draws the rows
(`updateRows`) or defers that while the pointer rests on a row (`hovered`, `pending`); `Redraw`
is its timer. `Rows` is the order of a full drawing, workspace by workspace (`Joined`, `RowsOf`). Selection, keyboard position
and context menu outlive the rows they were made for; `actionContext` decides which sessions
a command is about.

### WorkbenchManagement

A command is a write, its answer, and the reload it starts, whose end closes the sheet
(`AfterReload`); `writes` and `loads` hold those under way, with the command that awaits
them. The pane draws itself when the service fires, so `screen` is what was drawn last and
may differ from `sheet` and `editing`. Logs are polled by a timer of the sheet. Templates may
be changed by other clients.

## Runs

| Run | Instance | Distinct states | Checks |
|---|---|---|---|
| `lifecycle_safety` | two workspaces, two workers, three builds, one loss, one late report | 1,880,698 | `TypeOK`, `ClaimExclusive`, `RowsAgree`, `TerminalFinal` |
| `lifecycle_serial` | one workspace, one worker, one request at a time, all operations, three builds, one host connection | 379,648 | `LatestBuildDecides`, `DeletedAcceptsNoBuilds`, `NoLostRequest`; under fairness `BuildsSettle` |
| `mux` | two streams over a limit of one on both sides, a write queue of two, a receive queue of one, one message each way | 130,956 | `ReliableDelivery`, `RefusedOnlyForEnding`, `NoOrphanPeer`; under fairness `DownReleasesCallers`, `EndedPeersReleased` |
| `permissions` | two requests, two clients, two turns | 696,472 | `DecidedOnce`, `OnlyApprovedRuns`, `WaitingIsVisible`; under fairness `DisposedReleasesAll` |
| `catalog` | one session with three versions, two connections, one failed sync | 1,072,231 | `QuietMirrors`, `AliveStaysListed`; under fairness `CatalogCatchesUp` |
| `chat` | two turns, chunks and tool calls, two losses, cancellations or answers, four of all together | 1,885,891 | `Mirrors`, `TextAfterTools` |
| `attachment` | two workspaces, three sessions, one of them created, two tasks at a time, three commands, three connections, one fault | 2,158,515 | `TypeOK`, `AtMostOneClient`, `NobodyWaitsInVain`, `FilesNeverGoBack`, `PromptsReachTheirHost` |
| `composer` | two workspaces, two sessions, one of them created, two models, six acts | 2,679,142 | `EditorShowsDraft`, `OpenedPickersAgree`, `CreatedAsSubmitted` |
| `session_list` | two sessions of two providers in one workspace, two user acts, two refreshes, two revisions | 231,881 | `RowsMirror`, `MarksStored`, `MarksOnScreen`, the refinement `ItemsAreFresh`; under fairness `CatchesUp` |
| `management` | two items in each list, three clicks, one change by others | 693,896 | `ReadyIsFresh`, `LogsOfTheSheet`, `DeleteMatchesDialog`, the refinement `ListsAreFresh`; under fairness `LoadingSettles` |
| `deleted_race` | two concurrent requests | | `DeletedAcceptsNoBuilds` is violated |
| `composer_pickers` | as `composer`, three acts | | `NewPickersAgree` is violated |

Every property of a passing run has a mutant, a plausible mistake in one definition
(`Bug...`), that breaks it. Every module but `FreshView` and `ChatTranscript` has, or is
extended by one that has, a run.

**Bounds.** Two workers are what an exclusive claim is about, and three builds give two
builds of one workspace in progress next to a build of another. A lost claim stays lost, so
faults are bounded. Two workers with two builds of the same workspace may finish in either
order, and a report that outlives its timeout may follow a later one: `LatestBuildDecides`
therefore holds for one worker whose reports are in time, which is what `lifecycle_serial`
states. Queue capacities are reduced (128, 256 and 64 in the code) to sizes that overflow;
the limits of both sides are equal, as in the code. The outgoing queue of the host holds what
an instance emits (`OutQueue`), because a full one drops messages (see *Observations*). Two
permission requests are enough for one to be mistaken for the other, two turns for one to be
ended in place of the other. Rows of different sessions do not depend on each other in the
catalog, and three versions are a creation, a client's change and one of the SDK; two
connections are one that replaces another. `MaxLag` counts the writes of a watcher whose
connection is closed while its context is not cancelled yet. It is 0 in `catalog`: the
goroutine that cancels has nothing to wait for, while its successor needs two round trips and
a transaction before it can be overwritten. The theorems about the catalog state what both
bounds stand for as conditions.

In `chat`, text before and after a tool call, a second call and a lost connection fit into
four events; two messages in flight are what overtaking needs. In `attachment`, two tasks
are one that supersedes or overtakes another, and the third connection is the one a
superseded task would wrongly fall back to; when `MaxConns` are used up no further connection
is made. In `composer`, six acts suffice to select a workspace, type, attach files, submit and
change the workspace or the draft meanwhile; answers, file reads and failures are not
counted. `session_list` and `management` begin in states a few clicks into the window, which
the MC modules write down, so that two or three clicks reach across sheets and refreshes.

**Deadlock** is not checked: every instance comes to rest when its bounds are used up.

**Fairness.** Weak fairness for the steps of a goroutine or process that needs nobody else:
workers loop for ever and Terraform has a timeout; the server answers what it has received;
`openStream` has a timer; the reader settles what it has taken; the read from a socket that
was closed fails, at both of its ends. In the window, the browser settles every HTTP request
with an answer or an error (`management`), and an interval timer draws the rows
(`session_list`). No client is obliged to send, answer, disconnect or request anything, no
user to click, and no fault has to happen.

## Findings

- `deleted_race`: `workspaceBuilds` writes a desired state computed from a row it read before
  its transaction; a request that read the row before a delete committed revives the deleted
  workspace ("deleted workspace cannot accept builds").
- `composer_pickers`: selecting another workspace in the new session view brings its draft into
  the editor, but the mode, model and effort pickers keep showing the choices of the workspace
  before; what is submitted is the draft. The roadmap promises that switching hosts does not
  mix the states of drafts.

## Observations

What the models show, or what reading for them showed, without a run of its own.

Server and host:

- A stop between the check of `agentHostAHP` (`ahp.go:96`) and the registration leaves the host
  of a stopped workspace registered, although `milestone-verification.md:343` says that
  reconnection is refused in the stopped state.
- A full outgoing queue of the Agent Host drops a message of a stream that stays open
  (`host.go:438`), although the transport is to deliver "reliably (no silent drops)".
- A permission can be cancelled or answered between its registration and the announcement of
  its input request (`host.go:922`); the entry set afterwards is never removed.
- Two goroutines can send the summaries of a session in the opposite order (`ahp_state.go:748`);
  the catalog keeps the older one.
- The watcher of a connection that has been replaced twice may still store its list over that of
  the newest (`session_catalog.go:172`): the second connection is still in `closeWithReason`,
  which may wait a second for the socket (`ahp.go:257`), when the third registers and closes
  the second only (`ahp.go:110`). So may a write that gets to the database before the
  goroutine beside the watcher has cancelled its context. Either leaves the rows wrong until the
  sessions change or the host connects again; `MaxConns = 3`, or `MaxLag = 1`, has it.
- `resolveToolPermission` ignores the confirmation of a peer that is not subscribed to the chat.
- A successful repair of a stopped workspace makes its observed state `running` while the
  desired state stays `stopped`.
- An idle event names no turn (`ahp_state.go:339`), and the autopilot's continuation is sent
  from a goroutine of its own (`copilot/runtime.go:233`): whether either reaches a later turn
  depends on the SDK.

Window:

- A session opened, then left for another workspace while its terminals load, can attach the
  window to the first workspace again (`terminal-service.ts:154`).
- `SessionService.send` clears the draft when the prompt is answered: what was typed meanwhile is
  lost unsent (`session-service.ts:87-96`). Likewise what is picked, and files that are read,
  while a new session is being created (`new-session-view.ts:372`).
- A `createSession` whose answer is lost leaves the draft; submitting it again creates a second
  session (`new-session-view.ts:374`).
- Files that are dropped go to the draft of the workspace selected when reading ends
  (`agent-composer.ts:539-547`).
- The view of a created session builds its model, mode and permission pickers from the empty
  draft and is then given the submitted one, which only its editor follows; choosing an effort
  there brings the model of the picker into the draft (`agent-composer.ts:344-346`). Clearing
  the new session view after a submission leaves its pickers as they were.
- The reasoning effort of a session is not persisted (`chat-session.ts:236-247`), and
  `chat/draftChanged` is sent by nobody.
- "Toggle read" decides from the first session and applies to all (`session-catalog-view.ts:699`).
- A plain click on the active, read session changes the selection without drawing it
  (`session-catalog-view.ts:642-668`).
- The hint of an empty conversation is removed by the next refresh
  (`conversation-transcript.ts:103-112`).

## Proofs

All proofs hold for every value of the constants that satisfies the named assumptions.

**`WorkspaceLifecycleProofs`** (from `BoundsAssumption` and `RequestOpsAssumption`):

- `TypeCorrect`: `TypeOK` is invariant;
- `ClaimsAreExclusive`: no two workers execute the same build, whatever crashes and losses;
- `DatabaseConsistent`: `RowsAgree`, that is, job and build rows agree, a pending workspace has
  an open current build, and resource rows come from a successful build of that workspace;
- `FinishedBuildsAreFinal`: a finished build and its job never change.

None of these is inductive. That a finished build stays finished needs that the report which
passed its check finds the job still claimed at its commit; this needs that it is the only
report of its job, which needs that the worker that sent it held the claim alone, which needs
that registrations are not shared and that a job leaves the queue once. The inductive invariant
`IInv` says all of it: `RowsInv` (rows exist exactly below the next number, a queued job was
never claimed), `WorkerInv` (a busy worker holds a first-attempt claim under its own number and,
while executing, has not been reported), `ReportInv` (a report belongs to an open claim and is
the only one), `ReferenceInv` (what requests and workspaces refer to exists), with `TypeOK`,
`JobBuildAgree`, `PendingHasOpenBuild` and `ResourcesFromSucceeded`. `NextIInv` has one step per
action and under it one per conjunct the action can disturb.

Three more theorems state conditions that the code does not enforce, each as an assumption of
the theorem:

- `NoRequestIsLost` (`NoLostRequest`) and `DeletedIsFinal` (`DeletedAcceptsNoBuilds`), for any
  number of workspaces and workers, if build requests are handled one at a time (`OneHandler`).
  The invariant is `ReadCurrent`: what a request has read still holds. Only the commit of
  another request could change it (`CommitsDecide`); the run `deleted_race` shows that two are
  enough to break it.
- `LastBuildDecides` (`LatestBuildDecides`), for any number of workspaces, builds and handlers,
  if there is one worker and its reports are answered before its timeout (`OneWorker`). Jobs are
  taken in the order of their creation (`TakenInTurn`), the current build of a workspace is its
  newest (`CurrentIsNewest`), so nothing newer has been taken while one is executed or reported
  (`NoOutcomeYet`), and what Terraform did is still in place when its report is stored
  (`ReportsTrue`).

**`WorkbenchAttachmentProofs`** (`AttachmentAssumption`), in three layers; each has a lemma for
the steps of the user (`User...`), of a task that goes on (`GoOn...`), of a socket (`Socket...`)
and for the answers (`Answer...`).

- `OneClient`: `AtMostOneClient`. That an open connection is the current one is not inductive: a
  connection that is being made opens later, and must find that it is still the newest. `ConnInv`
  adds `Numbered` (connections are numbered up to `generation`) and `UsesNewest` (the current
  connection is the newest, or there is none).
- `AttachmentTypes` (`TypeOK`) and `PromptsGoHome` (`PromptsReachTheirHost`), from `WInv`. A prompt
  goes out when a chat is answered, so its task must still be the one that asked, on a connection
  to the workspace of its session. `RequestsAsked` says so of every pending request, in terms of
  the *strand* of its task it belongs to (changes, files, terminals or the chat); `AskedOnce`, that
  no two requests share a strand; `WaitersAnswerable`, that every strand waited for has its
  request. A session's channels are learnt before its chat is asked for, which is why the prompt
  is subscribed. `OneWorkspace` says that tasks which go on together after a lost connection are
  about one workspace, so none closes the connection under another.
- `NoOlderFiles` (`FilesNeverGoBack`) and `NoWaitInVain` (`NobodyWaitsInVain`), from `AInv`, which
  adds `LInv`: loads of a workspace have different numbers (`LoadsApart`), what is on screen or
  on its way there is of the past (`ListingsPast`, `LoadsOk`), the newest load, once it has its
  listing, is no older than the screen, and a workspace shown as loading has its newest load
  under way (`LoadingEnds`). The lemmas are about what happens to a load: `LoadBegins`,
  `LoadGoesOn`, `LoadsStay`.

**`WorkbenchProofs`**, of `WorkbenchComposer` (`ComposerAssumption`): `EditorAgrees`, `EditorShowsDraft` is
invariant; `BeginsAsSubmitted`, the action property `CreatedAsSubmitted`; and
`PickersAgreeWithDrafts`, `OpenedPickersAgree`. The inductive invariant adds the shapes of drafts, views and what is under way, and
where the selected workspace and the active session come from. The argument is `OwnDrafts`: no
two views edit the same draft, so a step that changes one draft has to draw one view
(`ChangeKeeps`); the steps that draw several (`WorkspacesChange`, `ManagementChanges`, `Finish`)
are shown view by view. For the pickers, `PickersFit` says of each opened session that they show
the choices of its draft once the models are loaded; a step that changes the choices of a draft
(`SameChoices`) or the models on offer draws them again in the same step.

**`WorkbenchSessionListProofs`** (`SessionAssumption`):

- `ItemsImplementFreshView`: `ItemsAreFresh`, the refinement. The mapped `floor` is a `CHOOSE`
  over the requests under way that still count for a provider; the key lemma is `OneNewest`,
  that there is at most one of them whatever mixture of refreshes of all providers and of one
  is under way. It rests on `Refreshes`: serial numbers are unique, and a request was sent at a
  revision that is still in the history. Then each step is a step of `FreshView` or a stutter:
  `SentIsFresh` (also for the providers that a refresh of another one outdates), `EndedIsFresh`.
- `ItemsNeverGoBack`: what that means for the view, which has no `FreshView`: until the window
  restarts, the revision of the items on screen never decreases and is one the server has. The
  invariant is that of `FreshView` (`Bracketed`), carried over by the refinement.
- `RowsAreDrawn`: `RowsMirror`. `SameRows` says on what the rows depend; it is needed where an
  answer shows the same sessions in other lists, where the search field opens without a drawing,
  and where the server's list grows.
- `NoMarkIsLost`: `MarksStored`; `OnlyVisibleMarked`: the action property `MarksOnScreen`, from
  the fields a selection (`SelectTouches`) and a command (`CommandTouches`) touch.

**`WorkbenchProofs`**, of `WorkbenchManagement` (`NoItemAssumption`, `NoSheetAssumption`,
`SharedAssumption`):

- `ListsImplementFreshView`: `ListsAreFresh`, the refinement, from `Reloads` (reloads are
  numbered by loader and began at a revision that is still there).
- `ListsNeverGoBack`: the same consequence as `ItemsNeverGoBack`, for the lists of the window.
- `ReadyHoldsTheAcknowledged`: `ReadyIsFresh`. It is not inductive: a reload that is under way
  may bring an older list. `Covered` adds that the newest reload of the lists began after every
  acknowledged write, because the answer to a write begins one in the same step.
- `TerminalShowsItsWorkspace`: `LogsOfTheSheet`, and `DeletesWhatIsShown`: the action property
  `DeleteMatchesDialog`. Both need `Dialogs`, which relates the sheet that is drawn to the item
  the service remembers, although the two change in different steps: the workspace may be
  forgotten under an open log terminal, an item to delete only together with its sheet.
  `Terminal` says that live requests are those of the terminal on screen.

**`AgentHostProofs`** (`PermissionsAssumption`, `ChatAssumption`). Of `AgentPermissions`:
`ReaderNeverBlocks` (`DecidedOnce`), `ApprovedOnly` (`OnlyApprovedRuns`), `WaitersAreListed`
(`WaitingIsVisible`) and the type invariant. The invariant that carries them is `OnePlace`: the
right to decide a request is in the map, with the reader that took it out, or in the answer on
its way, and in one of these only; `ReaderHolds` and `AllowsApproved` complete it.

Of `ChatProjection`, for any number of turns, chunks, calls, connections and messages on their
way:

- `ScreenShowsItsRows`: the elements of the transcript and of the interruption lane are those a
  view opened now would have (`ScreenShowsRows`, the first half of `Mirrors`). `ScreenInv` is
  the types of all variables and `ScreenOf`: every element that is kept shows the item it was
  last drawn from. The work is in the operators: an update renders what a new element would,
  whichever of keep, update and replace the code takes. `FlattenSeq` and
  `projectConversationItems` are handled by induction over a set of numbers (`Climb`), which
  needs no operator as a parameter.
- `ChatHistory`: the inductive invariant `ChatInv`, which is `HostInv`, `ScreenInv` and
  `TextInv`. `HostInv` says that the chat is well formed now and was so in every entry of
  `flight` (`ChatGood`: every turn and call named once, one part of text in a turn), that each
  message fits the chat it was made from (`MessageGood`), what the two goroutines of the SDK
  may rely on although they work without the lock (`AgentFits`, `AskFits`), that a turn the
  window asks for is unknown to everybody until the reader takes the request (`OwnFresh`,
  `StartsFresh`), and that nobody hears of a permission request before it waits
  (`RequestGood`). Steps that apply an action are one lemma (`EmitKeeps`) behind a description
  of what they have in common (`EmitStep`), and one lemma for each action that it is such a step.
- `TextStaysAboveCalls`: `TextAfterTools`. `TextInv` is why it holds: of a turn that starts on
  the way the calls start on the way too (`StartsOnTheWay`); of the window's own turn every call
  has its card, or its start is on the way before anything else that is said of it
  (`CardsKnown`, with `AnswerKnown` for the reader's confirmations, which may overtake both
  other goroutines); so a card below the last segment cannot be new, and the text of the turn
  lies in segments up to the current one, with no card below that one (`RowsKnown`).

**`ChatMirrorProofs`** (`ChatAssumption`, and `ChatHistory` of the module before): `ChatMirrors`,
that is `Mirrors`, for any number of turns, chunks, calls, messages and lost connections. A
settled window, one that waits for nothing and has missed nothing, shows the chat of the host.
`Mirrors` says nothing of the steps on the way there, so the invariant (`MirrorInv`, beside
`ChatInv`) compares the window with a chat at every moment:

- `WayGood`: every message on its way, unless it is late, leads from the chat it was made from to
  the chat the next one was made from, and the last one to the chat of the host.
- `SeenMirrored`: a window that has missed nothing shows the chat it has seen (`Seen`), which is
  the one the next message was made from. What it means to show a chat is `Mirror`: which turn is
  worked on (`Working`), that the prompts (`Asked`) and the text (`Told`) of every turn are there
  once and under its turn, that segments go down the screen in order (`Layered`), that failures
  are counted (`Failures`), and that each call has one card, which says what the host's part of
  it says (`Carded`). Turns the window has asked for are shown before the host has them
  (`Awaited`), which is where the two sides may differ.

A message then moves the chat that was seen and the rows alike, one lemma for each type of
action; a snapshot draws all rows anew, and the lemmas on `Layout` say where each part of a chat
comes to lie. When the window is settled, `Seen` is the chat of the host and nothing is awaited
(`SettledSeen`), which gives the conjuncts of `Mirrors` (`TextsMirrored`, `CallsMirrored`,
`LaneMirrored`); `ScreenShowsItsRows` gives the screen.

**`AhpMuxProofs`** (`MuxAssumption`):

- `NoPeerIsOrphaned` (`NoOrphanPeer`) and `LimitsAgree` (`RefusedOnlyForEnding`), for every number
  of streams and every capacity. `OpenFirst` says that a stream's open frame goes first and that
  nothing of it comes back before; `NoOrphan` extends the property to frames that will make peers;
  `FitsLimit` says of each open frame on its way that its stream and those admitted before it
  fitted into the limit together when it was sent, which is counted with finite sets.
- `DeliveryInOrder`: `ReliableDelivery`, under the condition that the outgoing queue of the host
  never fills up. The condition is necessary: `enqueue` drops what does not fit and tells nobody
  (see *Observations*). The invariant `InOrder` says that what was delivered, what is queued for
  the client and what is on its way make up what was emitted.

**`SessionCatalogProofs`** (`CatalogAssumption`): `CatalogMirrors` (`QuietMirrors`) and
`AliveSessionsStay` (`AliveStaysListed`), for any number of sessions, changes, connections and
failed syncs, under two conditions: a watcher does not write after its connection is closed
(`Prompt`, `MaxLag = 0`), and a connection has closed the one it replaced before the next one is
registered (`ClosesFirst`, which two connections cannot violate). TLC finds a behaviour that
breaks `QuietMirrors` as soon as either is given up (see *Observations*). The invariant `IInv`
has four parts:

- `ConnInv`: only the newest connection, and the one it is about to close, are not down
  (`NewestConn`), so that there is one writer (`OneWriter`), and peers are numbered (`Peers`).
- `HostInv`: sessions never come back (`Births`), what each goroutine is about to announce
  (`Announcing`), and that whoever holds an older version of a session has another goroutine
  beside it that sends the newest, or has sent it (`Overtaking`); that is why only the sessions
  in `overtaken` may be out of date.
- `Mirroring`: what the watcher has read (`Base`), what is on its way to it (`Path`) and what is
  about to be sent together lead to the sessions of the host. A session that is alive has its
  newest version last (`UpToDate`) and is added before it is changed (`Introduced`), for a change
  of an unknown session is dropped; a session that is gone is removed, or never added
  (`Removed`). It has to say this for every phase of the watcher, since notifications are
  buffered from the subscription on and then applied to a list that may contain their effect.
- `RowsKnown`: the rows are what the newest watcher knows, and a list that is about to replace
  them lacks no session that is alive and has a row.

`MirroringStays` has a lemma for the host's steps (`HostMoves`), for a notification that is sent
(`EmitMoves`) and applied (`ApplyMoves`), and for the watcher (`InitializeMoves`, `ListMoves`,
`ReadingMoves`, `PeerMovesViews`).

**Only model-checked:** the liveness properties (fairness and ENABLED are outside the prover's
reach), and the two runs that expect a violation. Every invariant and every action property of
the other runs is stated by a theorem (`ReliableDelivery` and the two of `SessionCatalog` under
the conditions named above), as is each of the two refinements. The type invariants of
the modules are stated and were used while the modules were written; only those of
`WorkspaceLifecycle` and `WorkbenchAttachment` are part of a run.

## Not modelled

- Templates and sources (file contents, archives), credentials, identity tokens and secret
  storage (cryptography and single-step handlers), telemetry, model configuration (handlers of
  one transaction), the model gateway (payload encoding), the updater (its effect, a restart, is
  a teardown in `AhpMux`), the working-tree changeset (synchronous git), terminals of the Agent
  Host, the Copilot adapter (it depends on what the SDK emits), the Terraform provider
  (evaluated by Terraform), bootstrap.
- The cursor paging of the session catalog; several peers and sessions in `ChatProjection`.
- In `ChatProjection`: tool call deltas and content changes, system notifications, drafts in
  snapshots, markdown, scrolling and folded details.
- In `WorkbenchAttachment`: opening files and directories, staging and reverting, cancelling and
  confirming, the text of terminals, the refusal for stopped workspaces, a reload of the page.
- In `WorkbenchComposer`: the agent of a draft and its picker, the mode "ask" and the approval
  "allow" (they behave as the values that are there), the display of running turns.
- In `WorkbenchSessionList`: titles, times, badges, lists longer than a page of 200.
- In `WorkbenchManagement`: what the forms contain beyond the item and whether it was typed in;
  `searchManagement`, `goBack` and `setCredentialKind`, which no view calls.
- The explorer, file and diff views, the terminal's screen, layout, overlays, the command
  service and the widgets: rendering and dispatch in a single thread.
