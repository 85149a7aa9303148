------------------------- MODULE WorkspaceLifecycle -------------------------
(***************************************************************************)
(* The life of workspaces in the control plane: API requests create builds *)
(* in the database, provisioner workers claim and execute them with        *)
(* Terraform and report the outcome, and the live Agent Host registry is   *)
(* dropped when a workspace leaves the running state.                      *)
(*                                                                         *)
(* A database transaction is one action.  A handler that reads the         *)
(* database before its transaction is split into a read and a commit, so   *)
(* that the value it acts on may be stale.  Identifiers the server draws   *)
(* (builds, provisioners) are naturals in the order they are drawn; build  *)
(* b and its job are created together and share the number b, and the      *)
(* order by created_at is the order of the numbers.                        *)
(***************************************************************************)
EXTENDS Naturals, FiniteSets

CONSTANTS
    Workspaces,   \* names a workspace may be created under (unique index)
    Workers,      \* provisioner processes
    Handlers,     \* concurrent invocations of POST /workspaces/{id}/builds
    RequestOps,   \* operations the clients request
    MaxBuilds,    \* bound on the builds ever created
    MaxDials,     \* bound on the Agent Host connections ever accepted
    MaxLosses,    \* bound on crashes, lost responses and lost reports
    MaxLate       \* bound on reports that outlive the worker's HTTP timeout

ASSUME BoundsAssumption ==
    /\ MaxBuilds \in Nat
    /\ MaxDials \in Nat
    /\ MaxLosses \in Nat
    /\ MaxLate \in Nat

ASSUME RequestOpsAssumption ==
    RequestOps \subseteq {"create", "start", "stop", "reconfigure",
                          "rebuild-from-current-template", "repair", "delete"}

VARIABLES
    ws,          \* table workspaces: desired and observed state, current build
    builds,      \* table workspace_builds
    jobs,        \* table provisioner_jobs
    resources,   \* table workspace_resources: the build its rows came from
    nextBuild,   \* the next build (and job) number
    registered,  \* how many provisioner rows have been created
    requests,    \* what each handler of a build request has read
    worker,      \* local state of each provisioner process
    reports,     \* completion reports on their way to, or inside, jobEvent
    infra,       \* what Terraform last made of a workspace (external)
    dial,        \* an Agent Host connection past the check, not registered yet
    host,        \* the live registry: is an Agent Host registered
    dials,       \* Agent Host connections accepted so far
    losses, late \* faults that happened so far

dbVars   == <<ws, builds, jobs, resources, nextBuild, registered>>
hostVars == <<dial, host, dials>>
vars     == <<dbVars, requests, worker, reports, infra, hostVars, losses, late>>

-----------------------------------------------------------------------------
(* Vocabulary *)

Builds  == 1..MaxBuilds
NoBuild == 0

Desired  == {"running", "stopped", "deleted"}
Observed == {"pending", "running", "stopped", "deleted", "failed"}
Infra    == {"absent", "running", "stopped", "deleted"}

\* ParseBuildOperation; "create" is only issued by createWorkspace.
Operations == {"create", "start", "stop", "reconfigure",
               "rebuild-from-current-template", "repair", "delete"}

Terminal == {"succeeded", "failed", "cancelled"}
Statuses == {"queued", "claimed", "running"} \cup Terminal

NoRow == "none"   \* a row that does not exist yet

\* Mutant: the deleted state is not refused.
BugValidateOperation(desired, op) ==
    \/ op = "delete"
    \/ op = "stop"  /\ desired = "running"
    \/ op \in {"reconfigure", "rebuild-from-current-template", "repair"}

\* Workspace.ValidateOperation
ValidateOperation(desired, op) ==
    /\ desired # "deleted"
    /\ \/ op = "delete"
       \/ op = "stop"  /\ desired = "running"
       \/ op = "start" /\ desired = "stopped"
       \/ /\ op \in {"reconfigure", "rebuild-from-current-template", "repair"}
          /\ desired \in {"running", "stopped"}

\* Workspace.DesiredStateAfter
DesiredStateAfter(desired, op) ==
    CASE op = "stop"   -> "stopped"
      [] op = "delete" -> "deleted"
      [] op \in {"start", "rebuild-from-current-template"} -> "running"
      [] OTHER -> desired

\* workspace.Service.ObservedStateAfter
ObservedStateAfter(op, succeeded) ==
    CASE ~succeeded    -> "failed"
      [] op = "stop"   -> "stopped"
      [] op = "delete" -> "deleted"
      [] OTHER         -> "running"

\* build.Service.CanReport
CanReport(current, next) ==
    \/ current = "claimed" /\ next \in {"running"} \cup Terminal
    \/ current = "running" /\ next \in Terminal

\* What a completed Terraform run makes of the infrastructure: only delete
\* destroys, stop switches off, every other operation switches on.
InfraAfter(op) ==
    CASE op = "delete" -> "deleted"
      [] op = "stop"   -> "stopped"
      [] OTHER         -> "running"

Exists(w)     == ws[w].desired # NoRow
BuildsOf(w)   == {b \in Builds : builds[b].status # NoRow /\ builds[b].ws = w}
QueuedJobs    == {b \in Builds : jobs[b].status = "queued"}

\* Mutants: no order by created_at; a comparison that excludes the job itself.
BugUnordered(b) == b \in QueuedJobs
BugStrictlyOldest(b) == b \in QueuedJobs /\ \A c \in QueuedJobs : b < c

\* The job claimJob selects: the first queued one by created_at.
IsOldest(b) == b \in QueuedJobs /\ \A c \in QueuedJobs : b <= c

\* Rows of the tables and states of the processes.
WorkspaceRow(desired, observed, b) ==
    [desired |-> desired, observed |-> observed, current |-> b]
BuildRow(w, op, status, i) == [ws |-> w, op |-> op, status |-> status, pid |-> i]
JobRow(status, i, attempt) == [status |-> status, by |-> i, attempt |-> attempt]
Request(phase, w, op, next) == [phase |-> phase, ws |-> w, op |-> op, next |-> next]
Report(i, b, status, checked) ==
    [pid |-> i, job |-> b, status |-> status, checked |-> checked]
Idle == Request("idle", NoRow, NoRow, NoRow)
At(phase, i, b) == [phase |-> phase, pid |-> i, job |-> b]
Off == At("off", 0, NoBuild)

Requests == [phase : {"idle", "read", "committed"},
             ws    : Workspaces \cup {NoRow},
             op    : Operations \cup {NoRow},
             next  : Desired \cup {NoRow}]
WorkerStates == [phase : {"off", "polling", "claiming", "executing", "reporting"},
                 pid   : Nat, job : Builds \cup {NoBuild}]
Reports == [pid : Nat, job : Builds, status : {"succeeded", "failed"},
            checked : BOOLEAN]

Init ==
    /\ ws = [w \in Workspaces |-> WorkspaceRow(NoRow, NoRow, NoBuild)]
    /\ builds = [b \in Builds |-> BuildRow(NoRow, NoRow, NoRow, 0)]
    /\ jobs = [b \in Builds |-> JobRow(NoRow, 0, 0)]
    /\ resources = [w \in Workspaces |-> NoBuild]
    /\ nextBuild = 1
    /\ registered = 0
    /\ requests = [h \in Handlers |-> Idle]
    /\ worker = [p \in Workers |-> Off]
    /\ reports = {}
    /\ infra = [w \in Workspaces |-> "absent"]
    /\ dial = [w \in Workspaces |-> FALSE]
    /\ host = [w \in Workspaces |-> FALSE]
    /\ dials = 0
    /\ losses = 0
    /\ late = 0

-----------------------------------------------------------------------------
(* API: creating workspaces and requesting builds *)

\* The build and job rows both createWorkspace and workspaceBuilds insert.
InsertBuild(w, op) ==
    /\ nextBuild \in Builds
    /\ builds' = [builds EXCEPT ![nextBuild] = BuildRow(w, op, "queued", 0)]
    /\ jobs' = [jobs EXCEPT ![nextBuild] = JobRow("queued", 0, 0)]
    /\ nextBuild' = nextBuild + 1

\* Mutant: the new workspace is stored in a state no other code knows of.
BugCreateWorkspace(w) ==
    /\ ~Exists(w)
    /\ InsertBuild(w, "create")
    /\ ws' = [ws EXCEPT ![w] = WorkspaceRow("running", "provisioning", nextBuild)]
    /\ UNCHANGED <<resources, registered, requests, worker, reports, infra,
                   hostVars, losses, late>>

\* createWorkspace: one transaction; a second use of the name is refused.
CreateWorkspace(w) ==
    /\ ~Exists(w)
    /\ InsertBuild(w, "create")
    /\ ws' = [ws EXCEPT ![w] = WorkspaceRow("running", "pending", nextBuild)]
    /\ UNCHANGED <<resources, registered, requests, worker, reports, infra,
                   hostVars, losses, late>>

\* Mutant: the operation is not validated against the row.
BugRequestRead(h, w, op) ==
    /\ requests[h].phase = "idle"
    /\ Exists(w)
    /\ requests' = [requests EXCEPT ![h] =
                    Request("read", w, op, DesiredStateAfter(ws[w].desired, op))]
    /\ UNCHANGED <<dbVars, worker, reports, infra, hostVars, losses, late>>

\* workspaceBuilds up to its transaction: read the row, validate, compute.
RequestRead(h, w, op) ==
    /\ requests[h].phase = "idle"
    /\ Exists(w)
    /\ ValidateOperation(ws[w].desired, op)
    /\ requests' = [requests EXCEPT ![h] =
                    Request("read", w, op, DesiredStateAfter(ws[w].desired, op))]
    /\ UNCHANGED <<dbVars, worker, reports, infra, hostVars, losses, late>>

\* The transaction of workspaceBuilds: it writes the desired state computed
\* from the earlier read, whatever the row says now.
RequestCommit(h) ==
    LET r == requests[h] IN
    /\ r.phase = "read"
    /\ InsertBuild(r.ws, r.op)
    /\ ws' = [ws EXCEPT ![r.ws] = WorkspaceRow(r.next, "pending", nextBuild)]
    /\ requests' = [requests EXCEPT ![h] =
                    IF r.next = "running" THEN Idle
                    ELSE Request("committed", r.ws, r.op, r.next)]
    /\ UNCHANGED <<resources, registered, worker, reports, infra, hostVars,
                   losses, late>>

\* The transaction fails (database error, client gone): nothing is written.
RequestAbort(h) ==
    /\ requests[h].phase = "read"
    /\ requests' = [requests EXCEPT ![h] = Idle]
    /\ UNCHANGED <<dbVars, worker, reports, infra, hostVars, losses, late>>

\* After the commit of a state other than running: ahp.disconnect.
Disconnect(h) ==
    /\ requests[h].phase = "committed"
    /\ host' = [host EXCEPT ![requests[h].ws] = FALSE]
    /\ requests' = [requests EXCEPT ![h] = Idle]
    /\ UNCHANGED <<dbVars, worker, reports, infra, dial, dials, losses, late>>

-----------------------------------------------------------------------------
(* Live Agent Host registry *)

\* acceptAgentHost: the desired state is checked before the upgrade.
AcceptHost(w) ==
    /\ dials < MaxDials
    /\ ~dial[w]
    /\ ws[w].desired = "running"
    /\ dial' = [dial EXCEPT ![w] = TRUE]
    /\ dials' = dials + 1
    /\ UNCHANGED <<dbVars, requests, worker, reports, infra, host, losses, late>>

\* The rest of agentHostAHP: upgrade and register, with no further check.
RegisterHost(w) ==
    /\ dial[w]
    /\ dial' = [dial EXCEPT ![w] = FALSE]
    /\ host' = [host EXCEPT ![w] = TRUE]
    /\ UNCHANGED <<dbVars, requests, worker, reports, infra, dials, losses, late>>

\* The connection breaks: readHost returns and unregister runs.
HostLost(w) ==
    /\ host[w]
    /\ host' = [host EXCEPT ![w] = FALSE]
    /\ UNCHANGED <<dbVars, requests, worker, reports, infra, dial, dials, losses, late>>

-----------------------------------------------------------------------------
(* Provisioner workers *)

\* Worker.Run starts: every start registers a new provisioner.
RegisterWorker(p) ==
    /\ worker[p].phase = "off"
    /\ registered' = registered + 1
    /\ worker' = [worker EXCEPT ![p] = At("polling", registered + 1, NoBuild)]
    /\ UNCHANGED <<ws, builds, jobs, resources, nextBuild, requests, reports,
                   infra, hostVars, losses, late>>

\* claimJob reads the oldest queued job.  With none queued it answers 204 and
\* the worker polls again, which changes nothing.
ClaimSelect(p, b) ==
    /\ worker[p].phase = "polling"
    /\ IsOldest(b)
    /\ worker' = [worker EXCEPT ![p] = At("claiming", worker[p].pid, b)]
    /\ UNCHANGED <<dbVars, requests, reports, infra, hostVars, losses, late>>

\* What the claim transaction writes for provisioner i.
TakeJob(b, i) ==
    /\ jobs' = [jobs EXCEPT ![b] = JobRow("claimed", i, jobs[b].attempt + 1)]
    /\ builds' = [builds EXCEPT ![b] =
                    BuildRow(builds[b].ws, builds[b].op, "claimed", i)]

\* Mutant: the update is not conditional on the job still being queued.
BugClaimCommit(p) ==
    /\ worker[p].phase = "claiming"
    /\ TakeJob(worker[p].job, worker[p].pid)
    /\ worker' = [worker EXCEPT ![p] = At("executing", worker[p].pid, worker[p].job)]
    /\ UNCHANGED <<ws, resources, nextBuild, registered, requests, reports,
                   infra, hostVars, losses, late>>

\* The conditional update of claimJob still finds the job queued, and the
\* worker receives the answer.
ClaimCommit(p) ==
    LET b == worker[p].job IN
    /\ worker[p].phase = "claiming"
    /\ jobs[b].status = "queued"
    /\ TakeJob(b, worker[p].pid)
    /\ worker' = [worker EXCEPT ![p] = At("executing", worker[p].pid, worker[p].job)]
    /\ UNCHANGED <<ws, resources, nextBuild, registered, requests, reports,
                   infra, hostVars, losses, late>>

\* The conditional update matches no row: 204, and the worker polls again.
ClaimMiss(p) ==
    /\ worker[p].phase = "claiming"
    /\ jobs[worker[p].job].status # "queued"
    /\ worker' = [worker EXCEPT ![p] = At("polling", worker[p].pid, NoBuild)]
    /\ UNCHANGED <<dbVars, requests, reports, infra, hostVars, losses, late>>

\* The claim commits and its answer is lost: Run returns the error.
ClaimResponseLost(p) ==
    LET b == worker[p].job IN
    /\ losses < MaxLosses
    /\ worker[p].phase = "claiming"
    /\ jobs[b].status = "queued"
    /\ TakeJob(b, worker[p].pid)
    /\ worker' = [worker EXCEPT ![p] = Off]
    /\ losses' = losses + 1
    /\ UNCHANGED <<ws, resources, nextBuild, registered, requests, reports,
                   infra, hostVars, late>>

\* executeBuild returns and execute sends the one completion report of the
\* job.  A failed run may have changed the infrastructure (partial apply, or
\* a credential injection that failed after the apply).
Execute(p, status, changed) ==
    LET b == worker[p].job IN
    /\ worker[p].phase = "executing"
    /\ status = "succeeded" => changed
    /\ infra' = IF changed
                THEN [infra EXCEPT ![builds[b].ws] = InfraAfter(builds[b].op)]
                ELSE infra
    /\ reports' = reports \cup {Report(worker[p].pid, b, status, FALSE)}
    /\ worker' = [worker EXCEPT ![p] = At("reporting", worker[p].pid, b)]
    /\ UNCHANGED <<dbVars, requests, hostVars, losses, late>>

\* The process dies or is told to stop, at any point: whatever it was
\* executing or about to report is gone with it.
WorkerCrash(p) ==
    /\ losses < MaxLosses
    /\ worker[p].phase # "off"
    /\ worker' = [worker EXCEPT ![p] = Off]
    /\ reports' = {r \in reports : r.pid # worker[p].pid
                                   \/ worker[p].phase # "reporting"
                                   \/ r.job # worker[p].job}
    /\ losses' = losses + 1
    /\ UNCHANGED <<dbVars, requests, infra, hostVars, late>>

-----------------------------------------------------------------------------
(* Completion reports *)

\* The worker whose request carries report r gets an answer and polls again.
Answered(r) ==
    [p \in Workers |->
        IF worker[p].phase = "reporting" /\ worker[p].pid = r.pid
           /\ worker[p].job = r.job
        THEN At("polling", r.pid, NoBuild)
        ELSE worker[p]]

\* jobEvent up to its transaction: the job must be claimed by the reporter
\* and the build must admit the status.
ReportCheck(r) ==
    /\ r \in reports /\ ~r.checked
    /\ jobs[r.job].by = r.pid
    /\ CanReport(builds[r.job].status, r.status)
    /\ reports' = (reports \ {r}) \cup {Report(r.pid, r.job, r.status, TRUE)}
    /\ UNCHANGED <<dbVars, requests, worker, infra, hostVars, losses, late>>

\* jobEvent refuses the report (404 or 409); the worker ignores the answer.
ReportRefused(r) ==
    /\ r \in reports /\ ~r.checked
    /\ ~(jobs[r.job].by = r.pid /\ CanReport(builds[r.job].status, r.status))
    /\ reports' = reports \ {r}
    /\ worker' = Answered(r)
    /\ UNCHANGED <<dbVars, requests, infra, hostVars, losses, late>>

\* Mutants: a failed build leaves the workspace alone; resource rows are
\* replaced whatever the outcome.
BugFinalizeOnSuccessOnly(b, status) ==
    LET w == builds[b].ws IN
    IF status = "succeeded"
    THEN /\ ws' = [ws EXCEPT ![w].observed = ObservedStateAfter(builds[b].op, TRUE)]
         /\ resources' = [resources EXCEPT ![w] =
                            IF builds[b].op = "delete" THEN NoBuild ELSE b]
    ELSE UNCHANGED <<ws, resources>>
\* finalizeWorkspaceBuild: the workspace takes the outcome of build b, and a
\* success replaces its resource rows.  A delete reports no outputs.
FinalizeWorkspaceBuild(b, status) ==
    LET w == builds[b].ws
        op == builds[b].op
        succeeded == status = "succeeded"
    IN  /\ ws' = [ws EXCEPT ![w] =
                    WorkspaceRow(ws[w].desired, ObservedStateAfter(op, succeeded),
                                 ws[w].current)]
        /\ resources' = IF succeeded
                        THEN [resources EXCEPT ![w] =
                                IF op = "delete" THEN NoBuild ELSE b]
                        ELSE resources

\* The transaction of jobEvent.
ReportCommit(r) ==
    /\ r \in reports /\ r.checked
    /\ jobs' = [jobs EXCEPT ![r.job] =
                    JobRow(r.status, jobs[r.job].by, jobs[r.job].attempt)]
    /\ builds' = [builds EXCEPT ![r.job] =
                    BuildRow(builds[r.job].ws, builds[r.job].op, r.status,
                             builds[r.job].pid)]
    /\ FinalizeWorkspaceBuild(r.job, r.status)
    /\ reports' = reports \ {r}
    /\ worker' = Answered(r)
    /\ UNCHANGED <<nextBuild, registered, requests, infra, hostVars, losses, late>>

\* The report never reaches the server, or its transaction fails; execute
\* discards the error and the worker polls again.
ReportLost(r) ==
    /\ losses < MaxLosses
    /\ r \in reports
    /\ reports' = reports \ {r}
    /\ worker' = Answered(r)
    /\ losses' = losses + 1
    /\ UNCHANGED <<dbVars, requests, infra, hostVars, late>>

\* The worker's HTTP timeout fires while the server still has the report.
ReportTimeout(p) ==
    /\ late < MaxLate
    /\ worker[p].phase = "reporting"
    /\ worker' = [worker EXCEPT ![p] = At("polling", worker[p].pid, NoBuild)]
    /\ late' = late + 1
    /\ UNCHANGED <<dbVars, requests, reports, infra, hostVars, losses>>

-----------------------------------------------------------------------------
(* Specification *)

RequestStep(h) ==
    \/ \E w \in Workspaces, op \in RequestOps : RequestRead(h, w, op)
    \/ RequestCommit(h) \/ RequestAbort(h) \/ Disconnect(h)

HostStep(w) == AcceptHost(w) \/ RegisterHost(w) \/ HostLost(w)

WorkerStep(p) ==
    \/ RegisterWorker(p)
    \/ \E b \in Builds : ClaimSelect(p, b)
    \/ ClaimCommit(p) \/ ClaimMiss(p)
    \/ \E status \in {"succeeded", "failed"}, changed \in BOOLEAN :
            Execute(p, status, changed)

ReportStep(r) == ReportCheck(r) \/ ReportRefused(r) \/ ReportCommit(r)

Fault ==
    \/ \E p \in Workers :
            ClaimResponseLost(p) \/ WorkerCrash(p) \/ ReportTimeout(p)
    \/ \E r \in reports : ReportLost(r)

Next ==
    \/ \E w \in Workspaces : CreateWorkspace(w)
    \/ \E h \in Handlers : RequestStep(h)
    \/ \E w \in Workspaces : HostStep(w)
    \/ \E p \in Workers : WorkerStep(p)
    \/ \E r \in reports : ReportStep(r)
    \/ Fault

Spec == Init /\ [][Next]_vars

\* Workers loop without end and are restarted; a Terraform run ends within
\* the runner's timeout; the server answers the requests it received.  Nobody
\* is obliged to request builds, connect hosts or fail.
Fairness ==
    /\ \A p \in Workers : WF_vars(WorkerStep(p))
    /\ WF_vars(\E r \in reports : ReportStep(r))

FairSpec == Spec /\ Fairness

-----------------------------------------------------------------------------
(* Properties *)

Busy(p)     == worker[p].phase \in {"executing", "reporting"}
Held(b)     == \E p \in Workers : Busy(p) /\ worker[p].job = b
Reported(b) == \E r \in reports : r.job = b
Settled(w)  == \A b \in BuildsOf(w) : builds[b].status \in Terminal
Abandoned   == {b \in Builds : /\ jobs[b].status = "claimed"
                               /\ ~Held(b) /\ ~Reported(b)}

\* Every variable has the shape of the tables, requests and process states.
TypeOK ==
    /\ ws \in [Workspaces -> [desired  : Desired \cup {NoRow},
                              observed : Observed \cup {NoRow},
                              current  : Builds \cup {NoBuild}]]
    /\ builds \in [Builds -> [ws     : Workspaces \cup {NoRow},
                              op     : Operations \cup {NoRow},
                              status : Statuses \cup {NoRow},
                              pid    : Nat]]
    /\ jobs \in [Builds -> [status  : Statuses \cup {NoRow},
                            by      : Nat,
                            attempt : Nat]]
    /\ resources \in [Workspaces -> Builds \cup {NoBuild}]
    /\ nextBuild \in 1..(MaxBuilds + 1)
    /\ registered \in Nat
    /\ requests \in [Handlers -> Requests]
    /\ worker \in [Workers -> WorkerStates]
    /\ reports \subseteq Reports
    /\ infra \in [Workspaces -> Infra]
    /\ dial \in [Workspaces -> BOOLEAN]
    /\ host \in [Workspaces -> BOOLEAN]
    /\ dials \in 0..MaxDials
    /\ losses \in 0..MaxLosses
    /\ late \in 0..MaxLate

\* Two workers never execute the same build, whatever the interleaving of
\* their claims (claimJob's conditional update): a build being executed is
\* claimed by that worker's registration, on its first attempt, and the
\* outcome of an earlier execution is not on its way.
ClaimExclusive ==
    /\ \A p, q \in Workers :
            Busy(p) /\ Busy(q) /\ worker[p].job = worker[q].job => p = q
    /\ \A p \in Workers : worker[p].phase = "executing" =>
            /\ jobs[worker[p].job] = [status |-> "claimed", attempt |-> 1,
                                      by |-> worker[p].pid]
            /\ ~Reported(worker[p].job)

\* The job row and the build row, written by different statements of claimJob
\* and jobEvent, never disagree about the status or about who claimed it.
JobBuildAgree ==
    \A b \in Builds : /\ jobs[b].status = builds[b].status
                      /\ jobs[b].by = builds[b].pid

\* A workspace is shown pending only while its current build is open: the
\* transaction that ends the current build (jobEvent with
\* finalizeWorkspaceBuild) takes the workspace out of pending as well.
PendingHasOpenBuild ==
    \A w \in Workspaces : ws[w].observed = "pending" =>
        /\ ws[w].current \in BuildsOf(w)
        /\ builds[ws[w].current].status \notin Terminal

\* The resource rows of a workspace come from one of its own builds, one that
\* succeeded and was not a delete (finalizeWorkspaceBuild), even when builds
\* of several workspaces complete in any order.
ResourcesFromSucceeded ==
    \A w \in Workspaces : resources[w] # NoBuild =>
        /\ resources[w] \in BuildsOf(w)
        /\ builds[resources[w]].status = "succeeded"
        /\ builds[resources[w]].op # "delete"

\* The rows that claimJob, jobEvent and finalizeWorkspaceBuild write in
\* transactions of their own never contradict one another, whatever is lost,
\* repeated or interleaved.
RowsAgree == JobBuildAgree /\ PendingHasOpenBuild /\ ResourcesFromSucceeded

\* A finished build never changes again (CanReport, and one report per claim),
\* although jobEvent checks the status before its transaction.
TerminalFinal ==
    [][\A b \in Builds : builds[b].status \in Terminal
            => builds'[b] = builds[b] /\ jobs'[b] = jobs[b]]_vars

\* Once all builds of a workspace have ended, the observed state is the
\* outcome of its current build, and after a success it is also what
\* Terraform left behind: the oldest job is claimed first and a worker
\* finishes a job before it claims another.  Holds with one worker whose
\* reports do not outlive their timeout.
LatestBuildDecides ==
    \A w \in Workspaces : Exists(w) /\ Settled(w) =>
        LET b == builds[ws[w].current]
            succeeded == b.status = "succeeded"
        IN  /\ ws[w].observed = ObservedStateAfter(b.op, succeeded)
            /\ succeeded => infra[w] = ws[w].observed

\* A workspace whose desired state is deleted gets no further build and stays
\* deleted (ValidateOperation).  Holds while build requests are handled one
\* at a time.
DeletedAcceptsNoBuilds ==
    [][\A w \in Workspaces : ws[w].desired = "deleted" =>
            /\ ws'[w].desired = "deleted"
            /\ ws'[w].current = ws[w].current]_vars

\* No accepted request is undone by a later one: the desired state after a
\* build is accepted follows from the one in the row at that moment and the
\* operation accepted (workspaceBuilds).  Holds while build requests are
\* handled one at a time.
NoLostRequest ==
    [][\A w \in Workspaces :
            Exists(w) /\ ws'[w].current # ws[w].current =>
                LET op == builds'[ws'[w].current].op IN
                /\ ValidateOperation(ws[w].desired, op)
                /\ ws'[w].desired = DesiredStateAfter(ws[w].desired, op)]_vars

\* Every build is eventually taken and brought to an end, or its claim is one
\* of those lost to a fault: the FIFO claim starves no job.
BuildsSettle ==
    \A b \in Builds : builds[b].status = "queued" ~>
        builds[b].status \in Terminal \/ b \in Abandoned

=============================================================================
