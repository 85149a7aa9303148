---------------------- MODULE WorkspaceLifecycleProofs ----------------------
(***************************************************************************)
(* WorkspaceLifecycle for every number of workspaces, workers, handlers,   *)
(* builds and faults: an inductive invariant and what follows from it; and *)
(* what holds in addition while build requests are handled one at a time,  *)
(* or with a single worker.                                                *)
(***************************************************************************)
EXTENDS WorkspaceLifecycle, TLAPS

\* Rows exist exactly below the next number; a queued job was never claimed;
\* every existing build names a workspace and an operation.
RowsInv ==
    \A b \in Builds :
        /\ jobs[b].status = NoRow <=> b >= nextBuild
        /\ jobs[b].status = "queued" => jobs[b].attempt = 0
        /\ jobs[b].status # NoRow => /\ builds[b].ws \in Workspaces
                                     /\ builds[b].op \in Operations

\* Live workers run under different registrations; a claiming worker has
\* selected an existing job, a busy one holds its claim.
WorkerInv ==
    /\ \A p \in Workers : worker[p].phase # "off" =>
            worker[p].pid \in 1..registered
    /\ \A p, q \in Workers :
            worker[p].phase # "off" /\ worker[q].phase # "off"
            /\ worker[p].pid = worker[q].pid => p = q
    /\ \A p \in Workers : worker[p].phase = "claiming" =>
            worker[p].job \in Builds /\ worker[p].job < nextBuild
    /\ \A p \in Workers : Busy(p) =>
            /\ worker[p].job \in Builds
            /\ jobs[worker[p].job] = [status |-> "claimed", attempt |-> 1,
                                      by |-> worker[p].pid]
    /\ \A p \in Workers : worker[p].phase = "executing" => ~Reported(worker[p].job)

\* A report on its way belongs to a claim that is still open, and it is the
\* only one of its job.
ReportInv ==
    /\ \A r \in reports : /\ jobs[r.job].status = "claimed"
                          /\ jobs[r.job].by = r.pid
    /\ \A r, s \in reports : r.job = s.job => r = s

\* A request past its read, and every current build, refers to rows that exist.
ReferenceInv ==
    /\ \A h \in Handlers : requests[h].phase # "idle" =>
            /\ requests[h].ws \in Workspaces
            /\ requests[h].op \in Operations
            /\ requests[h].next \in Desired
            /\ Exists(requests[h].ws)
    /\ \A w \in Workspaces : Exists(w) => ws[w].current \in BuildsOf(w)
    /\ \A w \in Workspaces : ws[w].observed = "pending" => Exists(w)

\* The inductive invariant.
IInv == /\ TypeOK /\ JobBuildAgree /\ RowsInv /\ WorkerInv /\ ReportInv
        /\ ReferenceInv /\ PendingHasOpenBuild /\ ResourcesFromSucceeded

-----------------------------------------------------------------------------

\* The initial database is empty and nothing is running.
LEMMA InitIInv == Init => IInv
  <1> SUFFICES ASSUME Init PROVE IInv
    OBVIOUS
  <1> USE BoundsAssumption DEF Init, Builds, NoBuild, NoRow, At, BuildRow, JobRow,
      WorkspaceRow, Request
  <1>1. TypeOK
    BY DEF TypeOK, Idle, Off, Requests, WorkerStates, Reports, Desired,
           Observed, Operations, Statuses, Terminal, Infra
  <1>2. JobBuildAgree /\ RowsInv /\ WorkerInv /\ ReportInv
    BY DEF JobBuildAgree, RowsInv, WorkerInv, ReportInv, Busy, Off, Reported
  <1>3. ReferenceInv /\ PendingHasOpenBuild /\ ResourcesFromSucceeded
    BY DEF ReferenceInv, PendingHasOpenBuild, ResourcesFromSucceeded, Idle,
           Exists
  <1> QED BY <1>1, <1>2, <1>3 DEF IInv

\* What the invariant says of a worker that is executing a build.
LEMMA ExecutingFacts ==
    ASSUME IInv, NEW p \in Workers, worker[p].phase = "executing"
    PROVE  /\ worker[p].job \in Builds /\ worker[p].pid \in Nat
           /\ jobs[worker[p].job].status = "claimed"
           /\ jobs[worker[p].job].attempt = 1
           /\ jobs[worker[p].job].by = worker[p].pid
           /\ ~Reported(worker[p].job)
           /\ builds[worker[p].job].ws \in Workspaces
           /\ builds[worker[p].job].op \in Operations
  <1>1. /\ worker[p].job \in Builds
        /\ jobs[worker[p].job] = [status |-> "claimed", attempt |-> 1,
                                  by |-> worker[p].pid]
        /\ ~Reported(worker[p].job)
    BY DEF IInv, WorkerInv, Busy
  <1>2. worker[p].pid \in Nat
    BY DEF IInv, TypeOK, WorkerStates
  <1>3. /\ builds[worker[p].job].ws \in Workspaces
        /\ builds[worker[p].job].op \in Operations
    BY <1>1 DEF IInv, RowsInv, NoRow
  <1> QED BY <1>1, <1>2, <1>3

\* Two busy workers hold different builds: their claims carry different
\* registrations.
LEMMA BusyDistinct ==
    ASSUME IInv, NEW p \in Workers, NEW q \in Workers, Busy(p), Busy(q),
           worker[p].job = worker[q].job
    PROVE  p = q
  <1>1. ASSUME NEW x \in Workers, Busy(x)
        PROVE  jobs[worker[x].job].by = worker[x].pid
    <2>1. jobs[worker[x].job] = [status |-> "claimed", attempt |-> 1,
                                 by |-> worker[x].pid]
      BY <1>1 DEF IInv, WorkerInv
    <2> QED BY <2>1
  <1>2. worker[p].phase # "off" /\ worker[q].phase # "off"
    BY DEF Busy
  <1>3. worker[p].pid = worker[q].pid
    BY <1>1
  <1> QED BY <1>2, <1>3 DEF IInv, WorkerInv

\* What the invariant says of a report on its way.
LEMMA ReportFacts ==
    ASSUME IInv, NEW r \in reports
    PROVE  /\ r \in Reports
           /\ r.job \in Builds /\ r.pid \in Nat
           /\ r.status \in {"succeeded", "failed"}
           /\ jobs[r.job].status = "claimed" /\ jobs[r.job].by = r.pid
           /\ builds[r.job].status = "claimed"
           /\ builds[r.job].ws \in Workspaces
           /\ builds[r.job].op \in Operations
  <1>1. r \in Reports
    BY DEF IInv, TypeOK
  <1>2. /\ r.job \in Builds /\ r.pid \in Nat
        /\ r.status \in {"succeeded", "failed"}
    BY <1>1 DEF Reports
  <1>3. jobs[r.job].status = "claimed" /\ jobs[r.job].by = r.pid
    BY DEF IInv, ReportInv
  <1> QED BY <1>1, <1>2, <1>3 DEF IInv, JobBuildAgree, RowsInv, NoRow

\* Every action preserves the inductive invariant.
LEMMA NextIInv == IInv /\ [Next]_vars => IInv'
  <1> SUFFICES ASSUME IInv, [Next]_vars PROVE IInv'
    OBVIOUS
  <1> USE BoundsAssumption, RequestOpsAssumption
      DEF IInv, Builds, NoBuild, NoRow, At, BuildRow, JobRow,
          WorkspaceRow, Request, Report, dbVars, hostVars
  <1>1. ASSUME NEW w \in Workspaces, CreateWorkspace(w) PROVE IInv'
    <2> USE <1>1 DEF CreateWorkspace, InsertBuild
    <2>1. TypeOK'
      BY DEF TypeOK, JobBuildAgree, RowsInv, WorkerInv, Busy, ReferenceInv, Desired, Observed, Operations, Statuses,
             Terminal, Infra, Requests, WorkerStates, Reports
    <2>2. JobBuildAgree' /\ RowsInv'
      <3>1. ASSUME NEW b \in Builds
            PROVE  /\ jobs'[b] = IF b = nextBuild THEN JobRow("queued", 0, 0)
                                                  ELSE jobs[b]
                   /\ builds'[b] = IF b = nextBuild
                                   THEN BuildRow(w, "create", "queued", 0)
                                   ELSE builds[b]
        BY DEF TypeOK
      <3> QED BY <3>1 DEF TypeOK, JobBuildAgree, RowsInv, Operations
    <2>3. WorkerInv' /\ ReportInv'
      BY DEF TypeOK, RowsInv, WorkerInv, ReportInv, Busy, Reported, WorkerStates, Reports
    <2>4. ReferenceInv' /\ PendingHasOpenBuild' /\ ResourcesFromSucceeded'
      BY DEF TypeOK, JobBuildAgree, RowsInv, WorkerInv, ReportInv, ReferenceInv, PendingHasOpenBuild,
             ResourcesFromSucceeded, BuildsOf, Exists, Busy, Desired, Operations, Requests, Reports, WorkerStates, Terminal
    <2> QED BY <2>1, <2>2, <2>3, <2>4
  <1>2. ASSUME NEW h \in Handlers, NEW w \in Workspaces, NEW op \in RequestOps, RequestRead(h, w, op) PROVE IInv'
    <2> USE <1>2 DEF RequestRead, ValidateOperation, DesiredStateAfter
    <2>1. TypeOK'
      BY DEF TypeOK, JobBuildAgree, RowsInv, WorkerInv, Busy, ReferenceInv, Desired, Observed, Operations, Statuses,
             Terminal, Infra, Requests, WorkerStates, Reports
    <2>2. JobBuildAgree' /\ RowsInv'
      BY DEF TypeOK, JobBuildAgree, RowsInv, WorkerInv, ReferenceInv, ReportInv, Busy,
             Reports, Terminal
    <2>3. WorkerInv' /\ ReportInv'
      BY DEF TypeOK, RowsInv, WorkerInv, ReportInv, Busy, Reported, WorkerStates, Reports
    <2>4. ReferenceInv' /\ PendingHasOpenBuild' /\ ResourcesFromSucceeded'
      <3>1. ReferenceInv'
        <4>1. /\ DesiredStateAfter(ws[w].desired, op) \in Desired
              /\ op \in Operations
          BY DEF TypeOK, Exists, Desired, Operations
        <4>2. \A g \in Handlers : requests'[g] =
                IF g = h THEN [phase |-> "read", ws |-> w, op |-> op,
                               next |-> DesiredStateAfter(ws[w].desired, op)]
                         ELSE requests[g]
          BY DEF TypeOK
        <4>3. UNCHANGED <<ws, builds>>
          OBVIOUS
        <4> HIDE DEF RequestRead, DesiredStateAfter
        <4>4. \A v \in Workspaces : Exists(v)' = Exists(v) /\ BuildsOf(v)' = BuildsOf(v)
          BY <4>3 DEF Exists, BuildsOf
        <4>5. Exists(w)
          BY DEF RequestRead
        <4> QED BY <4>1, <4>2, <4>3, <4>4, <4>5 DEF ReferenceInv
      <3>2. PendingHasOpenBuild'
        BY DEF TypeOK, JobBuildAgree, RowsInv, WorkerInv, ReportInv,
               ReferenceInv, PendingHasOpenBuild, BuildsOf, Exists, Busy,
               Reports, WorkerStates, Terminal
      <3>3. ResourcesFromSucceeded'
        BY DEF TypeOK, JobBuildAgree, RowsInv, WorkerInv, ReportInv,
               ResourcesFromSucceeded, BuildsOf, Busy, Reports, WorkerStates,
               Terminal
      <3> QED BY <3>1, <3>2, <3>3
    <2> QED BY <2>1, <2>2, <2>3, <2>4
  <1>3. ASSUME NEW h \in Handlers, RequestCommit(h) PROVE IInv'
    <2> USE <1>3 DEF RequestCommit, InsertBuild, Idle
    <2>1. TypeOK'
      BY DEF TypeOK, JobBuildAgree, RowsInv, WorkerInv, Busy, ReferenceInv, Desired, Observed, Operations, Statuses,
             Terminal, Infra, Requests, WorkerStates, Reports
    <2>2. JobBuildAgree' /\ RowsInv'
      BY DEF TypeOK, JobBuildAgree, RowsInv, WorkerInv, ReferenceInv, ReportInv, Busy,
             Reports, Terminal
    <2>3. WorkerInv' /\ ReportInv'
      <3>1. WorkerInv'
        BY SMTT(60) DEF TypeOK, RowsInv, WorkerInv, ReportInv, Busy, Reported,
               WorkerStates, Reports
      <3>2. ReportInv'
        BY DEF TypeOK, RowsInv, WorkerInv, ReportInv, Busy, Reported,
               WorkerStates, Reports
      <3> QED BY <3>1, <3>2
    <2>4. ReferenceInv' /\ PendingHasOpenBuild' /\ ResourcesFromSucceeded'
      BY DEF TypeOK, JobBuildAgree, RowsInv, WorkerInv, ReportInv, ReferenceInv, PendingHasOpenBuild,
             ResourcesFromSucceeded, BuildsOf, Exists, Busy, Desired, Operations, Requests, Reports, WorkerStates, Terminal
    <2> QED BY <2>1, <2>2, <2>3, <2>4
  <1>4. ASSUME NEW h \in Handlers, RequestAbort(h) PROVE IInv'
    <2> USE <1>4 DEF RequestAbort, Idle
    <2>1. TypeOK'
      BY DEF TypeOK, JobBuildAgree, RowsInv, WorkerInv, Busy, ReferenceInv, Desired, Observed, Operations, Statuses,
             Terminal, Infra, Requests, WorkerStates, Reports
    <2>2. JobBuildAgree' /\ RowsInv'
      BY DEF TypeOK, JobBuildAgree, RowsInv, WorkerInv, ReferenceInv, ReportInv, Busy,
             Reports, Terminal
    <2>3. WorkerInv' /\ ReportInv'
      BY DEF TypeOK, RowsInv, WorkerInv, ReportInv, Busy, Reported, WorkerStates, Reports
    <2>4. ReferenceInv' /\ PendingHasOpenBuild' /\ ResourcesFromSucceeded'
      BY DEF TypeOK, JobBuildAgree, RowsInv, WorkerInv, ReportInv, ReferenceInv, PendingHasOpenBuild,
             ResourcesFromSucceeded, BuildsOf, Exists, Busy, Desired, Operations, Requests, Reports, WorkerStates, Terminal
    <2> QED BY <2>1, <2>2, <2>3, <2>4
  <1>5. ASSUME NEW h \in Handlers, Disconnect(h) PROVE IInv'
    <2> USE <1>5 DEF Disconnect, Idle
    <2>1. TypeOK'
      BY DEF TypeOK, JobBuildAgree, RowsInv, WorkerInv, Busy, ReferenceInv, Desired, Observed, Operations, Statuses,
             Terminal, Infra, Requests, WorkerStates, Reports
    <2>2. JobBuildAgree' /\ RowsInv'
      BY DEF TypeOK, JobBuildAgree, RowsInv, WorkerInv, ReferenceInv, ReportInv, Busy,
             Reports, Terminal
    <2>3. WorkerInv' /\ ReportInv'
      BY DEF TypeOK, RowsInv, WorkerInv, ReportInv, Busy, Reported, WorkerStates, Reports
    <2>4. ReferenceInv' /\ PendingHasOpenBuild' /\ ResourcesFromSucceeded'
      BY DEF TypeOK, JobBuildAgree, RowsInv, WorkerInv, ReportInv, ReferenceInv, PendingHasOpenBuild,
             ResourcesFromSucceeded, BuildsOf, Exists, Busy, Desired, Operations, Requests, Reports, WorkerStates, Terminal
    <2> QED BY <2>1, <2>2, <2>3, <2>4
  <1>6. ASSUME NEW w \in Workspaces, AcceptHost(w) PROVE IInv'
    <2> USE <1>6 DEF AcceptHost
    <2>1. TypeOK'
      BY DEF TypeOK, JobBuildAgree, RowsInv, WorkerInv, Busy, ReferenceInv, Desired, Observed, Operations, Statuses,
             Terminal, Infra, Requests, WorkerStates, Reports
    <2>2. JobBuildAgree' /\ RowsInv'
      BY DEF TypeOK, JobBuildAgree, RowsInv, WorkerInv, ReferenceInv, ReportInv, Busy,
             Reports, Terminal
    <2>3. WorkerInv' /\ ReportInv'
      BY DEF TypeOK, RowsInv, WorkerInv, ReportInv, Busy, Reported, WorkerStates, Reports
    <2>4. ReferenceInv' /\ PendingHasOpenBuild' /\ ResourcesFromSucceeded'
      BY DEF TypeOK, JobBuildAgree, RowsInv, WorkerInv, ReportInv, ReferenceInv, PendingHasOpenBuild,
             ResourcesFromSucceeded, BuildsOf, Exists, Busy, Desired, Operations, Requests, Reports, WorkerStates, Terminal
    <2> QED BY <2>1, <2>2, <2>3, <2>4
  <1>7. ASSUME NEW w \in Workspaces, RegisterHost(w) PROVE IInv'
    <2> USE <1>7 DEF RegisterHost
    <2>1. TypeOK'
      BY DEF TypeOK, JobBuildAgree, RowsInv, WorkerInv, Busy, ReferenceInv, Desired, Observed, Operations, Statuses,
             Terminal, Infra, Requests, WorkerStates, Reports
    <2>2. JobBuildAgree' /\ RowsInv'
      BY DEF TypeOK, JobBuildAgree, RowsInv, WorkerInv, ReferenceInv, ReportInv, Busy,
             Reports, Terminal
    <2>3. WorkerInv' /\ ReportInv'
      BY DEF TypeOK, RowsInv, WorkerInv, ReportInv, Busy, Reported, WorkerStates, Reports
    <2>4. ReferenceInv' /\ PendingHasOpenBuild' /\ ResourcesFromSucceeded'
      BY DEF TypeOK, JobBuildAgree, RowsInv, WorkerInv, ReportInv, ReferenceInv, PendingHasOpenBuild,
             ResourcesFromSucceeded, BuildsOf, Exists, Busy, Desired, Operations, Requests, Reports, WorkerStates, Terminal
    <2> QED BY <2>1, <2>2, <2>3, <2>4
  <1>8. ASSUME NEW w \in Workspaces, HostLost(w) PROVE IInv'
    <2> USE <1>8 DEF HostLost
    <2>1. TypeOK'
      BY DEF TypeOK, JobBuildAgree, RowsInv, WorkerInv, Busy, ReferenceInv, Desired, Observed, Operations, Statuses,
             Terminal, Infra, Requests, WorkerStates, Reports
    <2>2. JobBuildAgree' /\ RowsInv'
      BY DEF TypeOK, JobBuildAgree, RowsInv, WorkerInv, ReferenceInv, ReportInv, Busy,
             Reports, Terminal
    <2>3. WorkerInv' /\ ReportInv'
      BY DEF TypeOK, RowsInv, WorkerInv, ReportInv, Busy, Reported, WorkerStates, Reports
    <2>4. ReferenceInv' /\ PendingHasOpenBuild' /\ ResourcesFromSucceeded'
      BY DEF TypeOK, JobBuildAgree, RowsInv, WorkerInv, ReportInv, ReferenceInv, PendingHasOpenBuild,
             ResourcesFromSucceeded, BuildsOf, Exists, Busy, Desired, Operations, Requests, Reports, WorkerStates, Terminal
    <2> QED BY <2>1, <2>2, <2>3, <2>4
  <1>9. ASSUME NEW p \in Workers, RegisterWorker(p) PROVE IInv'
    <2> USE <1>9 DEF RegisterWorker
    <2>1. TypeOK'
      BY DEF TypeOK, JobBuildAgree, RowsInv, WorkerInv, Busy, ReferenceInv, Desired, Observed, Operations, Statuses,
             Terminal, Infra, Requests, WorkerStates, Reports
    <2>2. JobBuildAgree' /\ RowsInv'
      BY DEF TypeOK, JobBuildAgree, RowsInv, WorkerInv, ReferenceInv, ReportInv, Busy,
             Reports, Terminal
    <2>3. WorkerInv' /\ ReportInv'
      BY DEF TypeOK, RowsInv, WorkerInv, ReportInv, Busy, Reported, WorkerStates, Reports
    <2>4. ReferenceInv' /\ PendingHasOpenBuild' /\ ResourcesFromSucceeded'
      BY DEF TypeOK, JobBuildAgree, RowsInv, WorkerInv, ReportInv, ReferenceInv, PendingHasOpenBuild,
             ResourcesFromSucceeded, BuildsOf, Exists, Busy, Desired, Operations, Requests, Reports, WorkerStates, Terminal
    <2> QED BY <2>1, <2>2, <2>3, <2>4
  <1>10. ASSUME NEW p \in Workers, NEW b \in Builds, ClaimSelect(p, b) PROVE IInv'
    <2> USE <1>10 DEF ClaimSelect, IsOldest, QueuedJobs
    <2>1. TypeOK'
      BY DEF TypeOK, JobBuildAgree, RowsInv, WorkerInv, Busy, ReferenceInv, Desired, Observed, Operations, Statuses,
             Terminal, Infra, Requests, WorkerStates, Reports
    <2>2. JobBuildAgree' /\ RowsInv'
      BY DEF TypeOK, JobBuildAgree, RowsInv, WorkerInv, ReferenceInv, ReportInv, Busy,
             Reports, Terminal
    <2>3. WorkerInv' /\ ReportInv'
      BY DEF TypeOK, RowsInv, WorkerInv, ReportInv, Busy, Reported, WorkerStates, Reports
    <2>4. ReferenceInv' /\ PendingHasOpenBuild' /\ ResourcesFromSucceeded'
      BY DEF TypeOK, JobBuildAgree, RowsInv, WorkerInv, ReportInv, ReferenceInv, PendingHasOpenBuild,
             ResourcesFromSucceeded, BuildsOf, Exists, Busy, Desired, Operations, Requests, Reports, WorkerStates, Terminal
    <2> QED BY <2>1, <2>2, <2>3, <2>4
  <1>11. ASSUME NEW p \in Workers, ClaimCommit(p) PROVE IInv'
    <2> USE <1>11 DEF ClaimCommit, TakeJob
    <2>1. TypeOK'
      BY SMTT(60) DEF TypeOK, JobBuildAgree, RowsInv, WorkerInv, Busy, ReferenceInv, Desired, Observed, Operations, Statuses,
             Terminal, Infra, Requests, WorkerStates, Reports
    <2>2. JobBuildAgree' /\ RowsInv'
      <3>1. JobBuildAgree'
        BY DEF TypeOK, JobBuildAgree, RowsInv, WorkerInv, ReportInv, Busy,
               Reports, Terminal
      <3>2. RowsInv'
        BY DEF TypeOK, JobBuildAgree, RowsInv, WorkerInv, ReferenceInv,
               ReportInv, Busy, Reports, Terminal
      <3> QED BY <3>1, <3>2
    <2>3. WorkerInv' /\ ReportInv'
      BY SMTT(60) DEF TypeOK, RowsInv, WorkerInv, ReportInv, Busy, Reported, WorkerStates, Reports
    <2>4. ReferenceInv' /\ PendingHasOpenBuild' /\ ResourcesFromSucceeded'
      BY DEF TypeOK, JobBuildAgree, RowsInv, WorkerInv, ReportInv, ReferenceInv, PendingHasOpenBuild,
             ResourcesFromSucceeded, BuildsOf, Exists, Busy, Desired, Operations, Requests, Reports, WorkerStates, Terminal
    <2> QED BY <2>1, <2>2, <2>3, <2>4
  <1>12. ASSUME NEW p \in Workers, ClaimMiss(p) PROVE IInv'
    <2> USE <1>12 DEF ClaimMiss
    <2>1. TypeOK'
      BY DEF TypeOK, JobBuildAgree, RowsInv, WorkerInv, Busy, ReferenceInv, Desired, Observed, Operations, Statuses,
             Terminal, Infra, Requests, WorkerStates, Reports
    <2>2. JobBuildAgree' /\ RowsInv'
      BY DEF TypeOK, JobBuildAgree, RowsInv, WorkerInv, ReferenceInv, ReportInv, Busy,
             Reports, Terminal
    <2>3. WorkerInv' /\ ReportInv'
      <3>1. WorkerInv'
        BY SMTT(60) DEF TypeOK, RowsInv, WorkerInv, ReportInv, Busy, Reported,
               WorkerStates, Reports
      <3>2. ReportInv'
        BY DEF TypeOK, RowsInv, WorkerInv, ReportInv, Busy, Reported,
               WorkerStates, Reports
      <3> QED BY <3>1, <3>2
    <2>4. ReferenceInv' /\ PendingHasOpenBuild' /\ ResourcesFromSucceeded'
      BY DEF TypeOK, JobBuildAgree, RowsInv, WorkerInv, ReportInv, ReferenceInv, PendingHasOpenBuild,
             ResourcesFromSucceeded, BuildsOf, Exists, Busy, Desired, Operations, Requests, Reports, WorkerStates, Terminal
    <2> QED BY <2>1, <2>2, <2>3, <2>4
  <1>13. ASSUME NEW p \in Workers, ClaimResponseLost(p) PROVE IInv'
    <2> USE <1>13 DEF ClaimResponseLost, TakeJob, Off
    <2>1. TypeOK'
      BY SMTT(60) DEF TypeOK, JobBuildAgree, RowsInv, WorkerInv, Busy, ReferenceInv, Desired, Observed, Operations, Statuses,
             Terminal, Infra, Requests, WorkerStates, Reports
    <2>2. JobBuildAgree' /\ RowsInv'
      BY DEF TypeOK, JobBuildAgree, RowsInv, WorkerInv, ReferenceInv, ReportInv, Busy,
             Reports, Terminal
    <2>3. WorkerInv' /\ ReportInv'
      BY DEF TypeOK, RowsInv, WorkerInv, ReportInv, Busy, Reported, WorkerStates, Reports
    <2>4. ReferenceInv' /\ PendingHasOpenBuild' /\ ResourcesFromSucceeded'
      BY DEF TypeOK, JobBuildAgree, RowsInv, WorkerInv, ReportInv, ReferenceInv, PendingHasOpenBuild,
             ResourcesFromSucceeded, BuildsOf, Exists, Busy, Desired, Operations, Requests, Reports, WorkerStates, Terminal
    <2> QED BY <2>1, <2>2, <2>3, <2>4
  <1>14. ASSUME NEW p \in Workers, NEW status \in {"succeeded", "failed"}, NEW changed \in BOOLEAN, Execute(p, status, changed) PROVE IInv'
    <2> USE <1>14 DEF Execute, InfraAfter
    <2>0. /\ worker[p].job \in Builds /\ worker[p].pid \in Nat
          /\ jobs[worker[p].job].status = "claimed"
          /\ jobs[worker[p].job].attempt = 1
          /\ jobs[worker[p].job].by = worker[p].pid
          /\ ~Reported(worker[p].job)
          /\ builds[worker[p].job].ws \in Workspaces
      BY ExecutingFacts
    <2>1. TypeOK'
      <3>1. infra' \in [Workspaces -> Infra]
        BY <2>0 DEF TypeOK, Infra
      <3>2. Report(worker[p].pid, worker[p].job, status, FALSE) \in Reports
        BY <2>0 DEF Reports
      <3>3. reports' \subseteq Reports
        BY <3>2 DEF TypeOK
      <3>4. worker' \in [Workers -> WorkerStates]
        BY <2>0 DEF TypeOK, WorkerStates
      <3> QED BY <3>1, <3>3, <3>4 DEF TypeOK
    <2>2. JobBuildAgree' /\ RowsInv'
      BY DEF TypeOK, JobBuildAgree, RowsInv, WorkerInv, ReferenceInv, ReportInv, Busy,
             Reports, Terminal
    <2>3. WorkerInv' /\ ReportInv'
      <3> DEFINE n == Report(worker[p].pid, worker[p].job, status, FALSE)
      <3>1. n.pid = worker[p].pid /\ n.job = worker[p].job
        OBVIOUS
      <3>2. /\ worker' = [worker EXCEPT ![p] =
                            At("reporting", worker[p].pid, worker[p].job)]
            /\ reports' = reports \cup {n}
            /\ UNCHANGED <<jobs, registered, nextBuild>>
            /\ worker[p].phase = "executing"
        OBVIOUS
      <3> HIDE DEF n, Execute
      <3>3. \A q \in Workers : worker[q].phase = "executing" /\ q # p =>
                worker[q].job # worker[p].job
        BY <3>2, BusyDistinct DEF Busy
      <3>4. WorkerInv'
        <4>1. ASSUME NEW q \in Workers, (worker[q].phase = "executing")'
              PROVE  ~Reported(worker[q].job)'
          <5>1. q # p /\ worker'[q] = worker[q]
            BY <3>2, <4>1 DEF TypeOK
          <5>2. ~Reported(worker[q].job) /\ worker[q].job # n.job
            BY <3>1, <3>3, <4>1, <5>1 DEF WorkerInv
          <5> QED BY <3>2, <5>1, <5>2 DEF Reported
        <4> QED BY SMTT(60), <2>0, <3>2, <4>1 DEF TypeOK, WorkerInv, Busy
      <3>5. ReportInv'
        BY <2>0, <3>1, <3>2 DEF ReportInv, Reported
      <3> QED BY <3>4, <3>5
    <2>4. ReferenceInv' /\ PendingHasOpenBuild' /\ ResourcesFromSucceeded'
      BY DEF TypeOK, JobBuildAgree, RowsInv, WorkerInv, ReportInv, ReferenceInv, PendingHasOpenBuild,
             ResourcesFromSucceeded, BuildsOf, Exists, Busy, Desired, Operations, Requests, Reports, WorkerStates, Terminal
    <2> QED BY <2>1, <2>2, <2>3, <2>4
  <1>15. ASSUME NEW p \in Workers, WorkerCrash(p) PROVE IInv'
    <2> USE <1>15 DEF WorkerCrash, Off
    <2>1. TypeOK'
      BY DEF TypeOK, JobBuildAgree, RowsInv, WorkerInv, Busy, ReferenceInv, Desired, Observed, Operations, Statuses,
             Terminal, Infra, Requests, WorkerStates, Reports
    <2>2. JobBuildAgree' /\ RowsInv'
      BY DEF TypeOK, JobBuildAgree, RowsInv, WorkerInv, ReferenceInv, ReportInv, Busy,
             Reports, Terminal
    <2>3. WorkerInv' /\ ReportInv'
      BY DEF TypeOK, RowsInv, WorkerInv, ReportInv, Busy, Reported, WorkerStates, Reports
    <2>4. ReferenceInv' /\ PendingHasOpenBuild' /\ ResourcesFromSucceeded'
      BY DEF TypeOK, JobBuildAgree, RowsInv, WorkerInv, ReportInv, ReferenceInv, PendingHasOpenBuild,
             ResourcesFromSucceeded, BuildsOf, Exists, Busy, Desired, Operations, Requests, Reports, WorkerStates, Terminal
    <2> QED BY <2>1, <2>2, <2>3, <2>4
  <1>16. ASSUME NEW r \in reports, ReportCheck(r) PROVE IInv'
    <2> USE <1>16 DEF ReportCheck
    <2> DEFINE n == Report(r.pid, r.job, r.status, TRUE)
    <2>0. /\ n \in Reports /\ n.pid = r.pid /\ n.job = r.job
          /\ jobs[r.job].status = "claimed" /\ jobs[r.job].by = r.pid
          /\ reports' = (reports \ {r}) \cup {n}
          /\ UNCHANGED <<dbVars, requests, worker, infra, hostVars, losses, late>>
      <3>1. n \in Reports
        BY ReportFacts DEF Reports
      <3> QED BY <3>1, ReportFacts
    <2> HIDE DEF n, ReportCheck
    <2>1. TypeOK'
      BY <2>0 DEF TypeOK
    <2>2. JobBuildAgree' /\ RowsInv'
      BY <2>0 DEF JobBuildAgree, RowsInv
    <2>3. WorkerInv' /\ ReportInv'
      <3>1. \A b \in Builds : Reported(b)' <=> Reported(b)
        BY <2>0 DEF Reported
      <3>2. WorkerInv'
        BY <2>0, <3>1 DEF WorkerInv, Busy
      <3>3. ReportInv'
        BY <2>0 DEF ReportInv
      <3> QED BY <3>2, <3>3
    <2>4. ReferenceInv' /\ PendingHasOpenBuild' /\ ResourcesFromSucceeded'
      BY <2>0 DEF ReferenceInv, PendingHasOpenBuild, ResourcesFromSucceeded,
                  BuildsOf, Exists
    <2> QED BY <2>1, <2>2, <2>3, <2>4
  <1>17. ASSUME NEW r \in reports, ReportRefused(r) PROVE IInv'
    <2> USE <1>17 DEF ReportRefused, Answered
    <2>1. TypeOK'
      BY DEF TypeOK, JobBuildAgree, RowsInv, WorkerInv, Busy, ReferenceInv, Desired, Observed, Operations, Statuses,
             Terminal, Infra, Requests, WorkerStates, Reports
    <2>2. JobBuildAgree' /\ RowsInv'
      BY DEF TypeOK, JobBuildAgree, RowsInv, WorkerInv, ReferenceInv, ReportInv, Busy,
             Reports, Terminal
    <2>3. WorkerInv' /\ ReportInv'
      BY DEF TypeOK, RowsInv, WorkerInv, ReportInv, Busy, Reported, WorkerStates, Reports
    <2>4. ReferenceInv' /\ PendingHasOpenBuild' /\ ResourcesFromSucceeded'
      BY DEF TypeOK, JobBuildAgree, RowsInv, WorkerInv, ReportInv, ReferenceInv, PendingHasOpenBuild,
             ResourcesFromSucceeded, BuildsOf, Exists, Busy, Desired, Operations, Requests, Reports, WorkerStates, Terminal
    <2> QED BY <2>1, <2>2, <2>3, <2>4
  <1>18. ASSUME NEW r \in reports, ReportCommit(r) PROVE IInv'
    <2> USE <1>18 DEF ReportCommit, Answered, FinalizeWorkspaceBuild, ObservedStateAfter
    <2>0. /\ r.job \in Builds /\ r.pid \in Nat /\ r.status \in Terminal
          /\ jobs[r.job].status = "claimed"
          /\ builds[r.job].ws \in Workspaces
          /\ builds[r.job].op \in Operations
      BY DEF TypeOK, Reports, ReportInv, RowsInv, Terminal
    <2>1. TypeOK'
      <3>1. ws' \in [Workspaces -> [desired  : Desired \cup {NoRow},
                                    observed : Observed \cup {NoRow},
                                    current  : Builds \cup {NoBuild}]]
        BY <2>0 DEF TypeOK, Observed
      <3>2. resources' \in [Workspaces -> Builds \cup {NoBuild}]
        BY <2>0 DEF TypeOK
      <3>3. jobs' \in [Builds -> [status  : Statuses \cup {NoRow},
                                  by      : Nat,
                                  attempt : Nat]]
        BY <2>0 DEF TypeOK, Statuses
      <3>4. builds' \in [Builds -> [ws     : Workspaces \cup {NoRow},
                                    op     : Operations \cup {NoRow},
                                    status : Statuses \cup {NoRow},
                                    pid    : Nat]]
        BY <2>0 DEF TypeOK, Statuses
      <3>5. worker' \in [Workers -> WorkerStates] /\ reports' \subseteq Reports
        BY <2>0 DEF TypeOK, WorkerStates
      <3> QED BY <3>1, <3>2, <3>3, <3>4, <3>5 DEF TypeOK
    <2>2. JobBuildAgree' /\ RowsInv'
      <3>1. JobBuildAgree'
        BY DEF TypeOK, JobBuildAgree, RowsInv, WorkerInv, ReportInv, Busy,
               Reports, Terminal
      <3>2. RowsInv'
        BY DEF TypeOK, JobBuildAgree, RowsInv, WorkerInv, ReferenceInv,
               ReportInv, Busy, Reports, Terminal
      <3> QED BY <3>1, <3>2
    <2>3. WorkerInv' /\ ReportInv'
      <3>1. WorkerInv'
        BY SMTT(60) DEF TypeOK, RowsInv, WorkerInv, ReportInv, Busy, Reported,
               WorkerStates, Reports
      <3>2. ReportInv'
        BY SMTT(60) DEF TypeOK, RowsInv, WorkerInv, ReportInv, Busy, Reported,
               WorkerStates, Reports
      <3> QED BY <3>1, <3>2
    <2>4. ReferenceInv' /\ PendingHasOpenBuild' /\ ResourcesFromSucceeded'
      <3>1. \A w \in Workspaces : BuildsOf(w)' = BuildsOf(w)
        BY <2>0 DEF TypeOK, BuildsOf, Terminal, JobBuildAgree
      <3>2. \A w \in Workspaces :
              /\ ws'[w].desired = ws[w].desired /\ ws'[w].current = ws[w].current
              /\ ws'[w].observed = "pending" =>
                    ws[w].observed = "pending" /\ w # builds[r.job].ws
        BY <2>0 DEF TypeOK
      <3>a. /\ \A w \in Workspaces : Exists(w)' <=> Exists(w)
            /\ requests' = requests
        BY <3>2 DEF Exists, hostVars
      <3>b. \A b \in Builds : b # r.job => builds'[b] = builds[b]
        BY <2>0 DEF TypeOK
      <3>3. ReferenceInv'
        <4> HIDE DEF ReportCommit, FinalizeWorkspaceBuild, Answered
        <4>1. \A h \in Handlers : requests[h].phase # "idle" => Exists(requests[h].ws)'
          BY <3>a DEF ReferenceInv
        <4> QED BY <3>1, <3>2, <3>a, <4>1 DEF ReferenceInv
      <3>4. PendingHasOpenBuild'
        <4> HIDE DEF ReportCommit, FinalizeWorkspaceBuild, Answered
        <4>1. ASSUME NEW w \in Workspaces, ws'[w].observed = "pending"
              PROVE  /\ ws'[w].current \in BuildsOf(w)'
                     /\ builds'[ws'[w].current].status \notin Terminal
          <5>1. /\ ws'[w].current = ws[w].current /\ ws[w].current \in BuildsOf(w)
                /\ builds[ws[w].current].status \notin Terminal
                /\ w # builds[r.job].ws
            BY <3>2, <4>1 DEF PendingHasOpenBuild
          <5>2. ws[w].current \in Builds /\ ws[w].current # r.job
            BY <5>1 DEF BuildsOf
          <5> QED BY <3>1, <3>b, <5>1, <5>2
        <4> QED BY <4>1 DEF PendingHasOpenBuild
      <3>5. ResourcesFromSucceeded'
        <4>1. \A w \in Workspaces : resources'[w] # NoBuild =>
                \/ resources'[w] = resources[w]
                \/ /\ resources'[w] = r.job /\ w = builds[r.job].ws
                   /\ r.status = "succeeded" /\ builds[r.job].op # "delete"
          BY <2>0 DEF TypeOK
        <4>2. \A b \in Builds :
                /\ builds'[b].ws = builds[b].ws /\ builds'[b].op = builds[b].op
                /\ builds'[b].status = IF b = r.job THEN r.status
                                                    ELSE builds[b].status
          BY <2>0 DEF TypeOK
        <4>3. r.job \in BuildsOf(builds[r.job].ws)
              /\ builds[r.job].status = "claimed"
          BY <2>0 DEF BuildsOf, JobBuildAgree
        <4> HIDE DEF ReportCommit, FinalizeWorkspaceBuild, Answered
        <4> QED BY <2>0, <3>1, <4>1, <4>2, <4>3 DEF ResourcesFromSucceeded, BuildsOf
      <3> QED BY <3>3, <3>4, <3>5
    <2> QED BY <2>1, <2>2, <2>3, <2>4
  <1>19. ASSUME NEW r \in reports, ReportLost(r) PROVE IInv'
    <2> USE <1>19 DEF ReportLost, Answered
    <2>1. TypeOK'
      BY SMTT(60) DEF TypeOK, JobBuildAgree, RowsInv, WorkerInv, Busy, ReferenceInv, Desired, Observed, Operations, Statuses,
             Terminal, Infra, Requests, WorkerStates, Reports
    <2>2. JobBuildAgree' /\ RowsInv'
      BY DEF TypeOK, JobBuildAgree, RowsInv, WorkerInv, ReferenceInv, ReportInv, Busy,
             Reports, Terminal
    <2>3. WorkerInv' /\ ReportInv'
      BY SMTT(60) DEF TypeOK, RowsInv, WorkerInv, ReportInv, Busy, Reported, WorkerStates, Reports
    <2>4. ReferenceInv' /\ PendingHasOpenBuild' /\ ResourcesFromSucceeded'
      BY DEF TypeOK, JobBuildAgree, RowsInv, WorkerInv, ReportInv, ReferenceInv, PendingHasOpenBuild,
             ResourcesFromSucceeded, BuildsOf, Exists, Busy, Desired, Operations, Requests, Reports, WorkerStates, Terminal
    <2> QED BY <2>1, <2>2, <2>3, <2>4
  <1>20. ASSUME NEW p \in Workers, ReportTimeout(p) PROVE IInv'
    <2> USE <1>20 DEF ReportTimeout
    <2>1. TypeOK'
      BY DEF TypeOK, JobBuildAgree, RowsInv, WorkerInv, Busy, ReferenceInv, Desired, Observed, Operations, Statuses,
             Terminal, Infra, Requests, WorkerStates, Reports
    <2>2. JobBuildAgree' /\ RowsInv'
      BY DEF TypeOK, JobBuildAgree, RowsInv, WorkerInv, ReferenceInv, ReportInv, Busy,
             Reports, Terminal
    <2>3. WorkerInv' /\ ReportInv'
      BY DEF TypeOK, RowsInv, WorkerInv, ReportInv, Busy, Reported, WorkerStates, Reports
    <2>4. ReferenceInv' /\ PendingHasOpenBuild' /\ ResourcesFromSucceeded'
      BY DEF TypeOK, JobBuildAgree, RowsInv, WorkerInv, ReportInv, ReferenceInv, PendingHasOpenBuild,
             ResourcesFromSucceeded, BuildsOf, Exists, Busy, Desired, Operations, Requests, Reports, WorkerStates, Terminal
    <2> QED BY <2>1, <2>2, <2>3, <2>4
  <1>21. CASE UNCHANGED vars
    BY <1>21 DEF vars, TypeOK, JobBuildAgree, RowsInv, WorkerInv, ReportInv, ReferenceInv,
       PendingHasOpenBuild, ResourcesFromSucceeded, BuildsOf, Exists, Busy, Reported
  <1> QED
    BY <1>1, <1>2, <1>3, <1>4, <1>5, <1>6, <1>7, <1>8, <1>9, <1>10, <1>11, <1>12, <1>13, <1>14, <1>15, <1>16, <1>17, <1>18, <1>19, <1>20, <1>21 DEF Next, RequestStep,
       HostStep, WorkerStep, ReportStep, Fault

-----------------------------------------------------------------------------

\* The inductive invariant holds in every reachable state.
THEOREM IInvHolds == Spec => []IInv
  <1>1. Init => IInv
    BY InitIInv
  <1>2. IInv /\ [Next]_vars => IInv'
    BY NextIInv
  <1> QED BY <1>1, <1>2, PTL DEF Spec

\* Every variable keeps its shape (the tables, requests and process states).
THEOREM TypeCorrect == Spec => []TypeOK
  <1>1. IInv => TypeOK
    BY DEF IInv
  <1> QED BY <1>1, IInvHolds, PTL

\* A build is executed by at most one worker and at most once: the conditional
\* update of claimJob is enough for any number of workers, restarts and lost
\* messages.
THEOREM ClaimsAreExclusive == Spec => []ClaimExclusive
  <1>1. ASSUME IInv PROVE ClaimExclusive
    <2>1. \A p, q \in Workers :
            Busy(p) /\ Busy(q) /\ worker[p].job = worker[q].job => p = q
      BY <1>1, BusyDistinct
    <2>2. ASSUME NEW p \in Workers, worker[p].phase = "executing"
          PROVE  /\ jobs[worker[p].job] = [status |-> "claimed", attempt |-> 1,
                                           by |-> worker[p].pid]
                 /\ ~Reported(worker[p].job)
      BY <1>1, <2>2 DEF IInv, WorkerInv, Busy
    <2> QED BY <2>1, <2>2 DEF ClaimExclusive
  <1> QED BY <1>1, IInvHolds, PTL

\* The job and the build of every claim agree, a pending workspace has an open
\* current build, and resource rows come from a successful build of the
\* workspace itself.
THEOREM DatabaseConsistent ==
    Spec => []RowsAgree
  <1>1. IInv => RowsAgree
    BY DEF IInv, RowsAgree
  <1> QED BY <1>1, IInvHolds, PTL

\* A finished build and its job never change again, although jobEvent checks
\* the status outside the transaction that writes it.
THEOREM FinishedBuildsAreFinal == Spec => TerminalFinal
  <1>1. ASSUME IInv, [Next]_vars, NEW b \in Builds, builds[b].status \in Terminal
        PROVE  builds'[b] = builds[b] /\ jobs'[b] = jobs[b]
    <2> USE <1>1, BoundsAssumption DEF Builds, NoRow, dbVars, hostVars
    <2>0. /\ jobs[b].status = builds[b].status
          /\ jobs[b].status \notin {"queued", "claimed", NoRow}
          /\ b # nextBuild
          /\ builds \in [Builds -> [ws     : Workspaces \cup {NoRow},
                                    op     : Operations \cup {NoRow},
                                    status : Statuses \cup {NoRow},
                                    pid    : Nat]]
          /\ jobs \in [Builds -> [status  : Statuses \cup {NoRow},
                                  by      : Nat,
                                  attempt : Nat]]
      BY DEF IInv, TypeOK, JobBuildAgree, RowsInv, Terminal
    <2>1. ASSUME NEW w, NEW op, InsertBuild(w, op)
          PROVE  builds'[b] = builds[b] /\ jobs'[b] = jobs[b]
      BY <2>0, <2>1 DEF InsertBuild
    <2>2. ASSUME NEW p \in Workers, ClaimCommit(p) \/ ClaimResponseLost(p)
          PROVE  builds'[b] = builds[b] /\ jobs'[b] = jobs[b]
      BY <2>0, <2>2 DEF ClaimCommit, ClaimResponseLost, TakeJob
    <2>3. ASSUME NEW r \in reports, ReportCommit(r)
          PROVE  builds'[b] = builds[b] /\ jobs'[b] = jobs[b]
      <3>1. r.job # b
        BY <2>0, ReportFacts
      <3> QED BY <2>0, <2>3, <3>1 DEF ReportCommit
    <2> QED
      BY <2>1, <2>2, <2>3 DEF Next, RequestStep, HostStep, WorkerStep, ReportStep,
         Fault, vars, CreateWorkspace, RequestRead, RequestCommit, RequestAbort,
         Disconnect, AcceptHost, RegisterHost, HostLost, RegisterWorker,
         ClaimSelect, ClaimMiss, Execute, WorkerCrash, ReportCheck,
         ReportRefused, ReportLost, ReportTimeout
  <1>2. IInv /\ [Next]_vars => [\A b \in Builds : builds[b].status \in Terminal
            => builds'[b] = builds[b] /\ jobs'[b] = jobs[b]]_vars
    BY <1>1
  <1> QED BY <1>2, IInvHolds, PTL DEF Spec, TerminalFinal

-----------------------------------------------------------------------------
(* Build requests that are handled one at a time.                          *)

OneHandler == \A g, h \in Handlers : g = h

\* What a request has read still holds when it commits.
ReadCurrent ==
    \A h \in Handlers : requests[h].phase = "read" =>
        LET r == requests[h]
            now == ws[r.ws].desired
        IN  ValidateOperation(now, r.op) /\ r.next = DesiredStateAfter(now, r.op)

\* Only the commit of a request changes what is desired of a workspace that
\* exists, and which build is its current one.
LEMMA CommitsDecide ==
    ASSUME IInv, [Next]_vars, NEW w \in Workspaces, Exists(w)
    PROVE  \/ ws'[w].desired = ws[w].desired /\ ws'[w].current = ws[w].current
           \/ \E h \in Handlers : RequestCommit(h) /\ requests[h].ws = w
<1>1. ASSUME NEW v \in Workspaces, CreateWorkspace(v) PROVE ws'[w] = ws[w]
  BY <1>1 DEF CreateWorkspace, IInv, TypeOK
<1>2. ASSUME NEW h \in Handlers, RequestCommit(h), requests[h].ws # w PROVE ws'[w] = ws[w]
  BY <1>2 DEF RequestCommit, IInv, TypeOK
<1>3. ASSUME NEW r \in reports, ReportCommit(r)
      PROVE  ws'[w].desired = ws[w].desired /\ ws'[w].current = ws[w].current
  BY <1>3, ReportFacts DEF ReportCommit, FinalizeWorkspaceBuild, WorkspaceRow, IInv, TypeOK
<1> QED
  BY <1>1, <1>2, <1>3 DEF Next, RequestStep, HostStep, WorkerStep, ReportStep, Fault, vars, dbVars,
     RequestRead, RequestAbort, Disconnect, AcceptHost, RegisterHost, HostLost, RegisterWorker,
     ClaimSelect, ClaimCommit, ClaimResponseLost, ClaimMiss, Execute, WorkerCrash, ReportCheck,
     ReportRefused, ReportLost, ReportTimeout

LEMMA ReadStaysCurrent ==
    ASSUME OneHandler, IInv, ReadCurrent, [Next]_vars PROVE ReadCurrent'
<1> SUFFICES ASSUME NEW h \in Handlers, requests'[h].phase = "read"
             PROVE  /\ ValidateOperation(ws'[requests'[h].ws].desired, requests'[h].op)
                    /\ requests'[h].next = DesiredStateAfter(ws'[requests'[h].ws].desired, requests'[h].op)
  BY DEF ReadCurrent
<1>1. ASSUME NEW w \in Workspaces, NEW op \in RequestOps, RequestRead(h, w, op)
      PROVE  /\ ValidateOperation(ws'[requests'[h].ws].desired, requests'[h].op)
             /\ requests'[h].next = DesiredStateAfter(ws'[requests'[h].ws].desired, requests'[h].op)
  <2>1. requests'[h] = Request("read", w, op, DesiredStateAfter(ws[w].desired, op))
    BY <1>1 DEF RequestRead, IInv, TypeOK
  <2>2. /\ requests'[h].ws = w /\ requests'[h].op = op
        /\ requests'[h].next = DesiredStateAfter(ws[w].desired, op)
    BY <2>1 DEF Request
  <2>3. UNCHANGED ws /\ ValidateOperation(ws[w].desired, op)
    BY <1>1 DEF RequestRead, dbVars
  <2> QED  BY <2>2, <2>3
<1>2. CASE requests'[h] = requests[h]
  <2>1. PICK w : w = requests[h].ws
    OBVIOUS
  <2>2. requests[h].phase = "read" /\ w \in Workspaces /\ Exists(w)
    BY <1>2, <2>1 DEF IInv, ReferenceInv
  <2>3. ~\E g \in Handlers : RequestCommit(g)
    <3>1. ASSUME RequestCommit(h) PROVE FALSE
      BY <1>2, <2>2, <3>1 DEF RequestCommit, Request, Idle, IInv, TypeOK
    <3> QED  BY <3>1 DEF OneHandler
  <2>4. ws'[w].desired = ws[w].desired
    BY <2>2, <2>3, CommitsDecide
  <2> QED  BY <1>2, <2>1, <2>2, <2>4 DEF ReadCurrent
<1>3. ASSUME NEW g \in Handlers, RequestCommit(g) \/ RequestAbort(g) \/ Disconnect(g)
      PROVE  requests'[h].phase # "read" \/ requests'[h] = requests[h]
  BY <1>3 DEF RequestCommit, RequestAbort, Disconnect, Request, Idle, IInv, TypeOK
<1>4. ASSUME NEW g \in Handlers, NEW w \in Workspaces, NEW op \in RequestOps, RequestRead(g, w, op)
      PROVE  g = h
  BY DEF OneHandler
<1> QED
  BY <1>1, <1>2, <1>3, <1>4 DEF Next, RequestStep, HostStep, WorkerStep, ReportStep, Fault, vars,
     CreateWorkspace, AcceptHost, RegisterHost, HostLost, RegisterWorker,
     ClaimSelect, ClaimCommit, ClaimResponseLost, ClaimMiss, Execute, WorkerCrash, ReportCheck,
     ReportRefused, ReportCommit, ReportLost, ReportTimeout

\* What the commit of a request does to its workspace.
LEMMA CommitFollows ==
    ASSUME IInv, ReadCurrent, NEW h \in Handlers, RequestCommit(h),
           NEW w, w = requests[h].ws
    PROVE  /\ w \in Workspaces /\ builds'[ws'[w].current].op = requests[h].op
           /\ ValidateOperation(ws[w].desired, requests[h].op)
           /\ ws'[w].desired = DesiredStateAfter(ws[w].desired, requests[h].op)
<1>1. w \in Workspaces /\ requests[h].phase = "read" /\ nextBuild \in Builds
  BY DEF RequestCommit, InsertBuild, IInv, ReferenceInv
<1>2. ws'[w] = WorkspaceRow(requests[h].next, "pending", nextBuild)
  BY <1>1 DEF RequestCommit, IInv, TypeOK
<1>3. builds'[nextBuild] = BuildRow(w, requests[h].op, "queued", 0)
  BY <1>1 DEF RequestCommit, InsertBuild, IInv, TypeOK
<1>4. /\ ValidateOperation(ws[w].desired, requests[h].op)
      /\ requests[h].next = DesiredStateAfter(ws[w].desired, requests[h].op)
  BY <1>1 DEF ReadCurrent
<1> QED  BY <1>1, <1>2, <1>3, <1>4 DEF WorkspaceRow, BuildRow

\* While build requests are handled one at a time, no accepted request is
\* undone by a later one: the desired state follows from the one in the row at
\* that moment and the operation accepted (workspaceBuilds).
THEOREM NoRequestIsLost == ASSUME OneHandler PROVE Spec => NoLostRequest
<1>1. Init => ReadCurrent
  BY DEF Init, ReadCurrent, Idle, Request
<1>2. IInv /\ ReadCurrent /\ [Next]_vars => ReadCurrent'
  BY ReadStaysCurrent
<1>3. IInv /\ ReadCurrent /\ [Next]_vars =>
         [\A w \in Workspaces :
            Exists(w) /\ ws'[w].current # ws[w].current =>
                LET op == builds'[ws'[w].current].op IN
                /\ ValidateOperation(ws[w].desired, op)
                /\ ws'[w].desired = DesiredStateAfter(ws[w].desired, op)]_vars
  <2> SUFFICES ASSUME IInv, ReadCurrent, [Next]_vars, NEW w \in Workspaces, Exists(w),
                      ws'[w].current # ws[w].current
               PROVE  /\ ValidateOperation(ws[w].desired, builds'[ws'[w].current].op)
                      /\ ws'[w].desired = DesiredStateAfter(ws[w].desired, builds'[ws'[w].current].op)
    OBVIOUS
  <2>1. PICK h \in Handlers : RequestCommit(h) /\ requests[h].ws = w
    BY CommitsDecide
  <2> QED  BY <2>1, CommitFollows
<1> QED  BY <1>1, <1>2, <1>3, IInvHolds, PTL DEF Spec, NoLostRequest

\* While build requests are handled one at a time, a workspace to be deleted
\* gets no further build and stays so (ValidateOperation).
THEOREM DeletedIsFinal == ASSUME OneHandler PROVE Spec => DeletedAcceptsNoBuilds
<1>1. Init => ReadCurrent
  BY DEF Init, ReadCurrent, Idle, Request
<1>2. IInv /\ ReadCurrent /\ [Next]_vars => ReadCurrent'
  BY ReadStaysCurrent
<1>3. IInv /\ ReadCurrent /\ [Next]_vars =>
         [\A w \in Workspaces : ws[w].desired = "deleted" =>
            /\ ws'[w].desired = "deleted"
            /\ ws'[w].current = ws[w].current]_vars
  <2> SUFFICES ASSUME IInv, ReadCurrent, [Next]_vars, NEW w \in Workspaces,
                      ws[w].desired = "deleted"
               PROVE  ws'[w].desired = "deleted" /\ ws'[w].current = ws[w].current
    OBVIOUS
  <2>1. Exists(w)
    BY DEF Exists, NoRow
  <2>2. ASSUME NEW h \in Handlers, RequestCommit(h), requests[h].ws = w PROVE FALSE
    BY <2>2, CommitFollows DEF ValidateOperation
  <2> QED  BY <2>1, <2>2, CommitsDecide
<1> QED  BY <1>1, <1>2, <1>3, IInvHolds, PTL DEF Spec, DeletedAcceptsNoBuilds

-----------------------------------------------------------------------------
(* One worker, whose reports are answered in time.                         *)

OneWorker == (\A p, q \in Workers : p = q) /\ MaxLate = 0

\* The worker waits for the answer to every report on its way.
ReportsAttended ==
    \A r \in reports : \E p \in Workers :
        worker[p].phase = "reporting" /\ worker[p].pid = r.pid /\ worker[p].job = r.job

\* Jobs are taken in order: the worker has selected the oldest, and none
\* after the one it is busy with has been taken.
Untaken(b) == jobs[b].status \in {"queued", NoRow}

TakenInTurn ==
    /\ \A b, c \in Builds : jobs[b].status = "queued" /\ b < c => Untaken(c)
    /\ \A p \in Workers : worker[p].phase = "claiming" => IsOldest(worker[p].job)
    /\ \A p \in Workers : Busy(p) => \A b \in Builds : worker[p].job < b => Untaken(b)

CurrentIsNewest ==
    \A w \in Workspaces : Exists(w) => \A b \in BuildsOf(w) : b <= ws[w].current

\* A report of success is true of the infrastructure until it is stored.
ReportsTrue ==
    \A r \in reports : r.status = "succeeded" =>
        infra[builds[r.job].ws] = InfraAfter(builds[r.job].op)

\* The outcome of the current build, once it has ended, is what is observed.
Outcome(w) ==
    LET b == builds[ws[w].current]
        succeeded == b.status = "succeeded"
    IN  /\ ws[w].observed = ObservedStateAfter(b.op, succeeded)
        /\ succeeded => infra[w] = ws[w].observed

Outcomes ==
    \A w \in Workspaces : Exists(w) /\ builds[ws[w].current].status \in Terminal => Outcome(w)

InTurn == ReportsAttended /\ TakenInTurn /\ CurrentIsNewest /\ ReportsTrue /\ Outcomes

\* With one worker, a report on its way is that of the worker.
LEMMA OneReport ==
    ASSUME OneWorker, IInv, ReportsAttended, NEW p \in Workers
    PROVE  /\ \A r \in reports : /\ worker[p].phase = "reporting"
                                 /\ worker[p].pid = r.pid /\ worker[p].job = r.job
           /\ \A r, s \in reports : r = s
<1>1. \A r \in reports : /\ worker[p].phase = "reporting"
                         /\ worker[p].pid = r.pid /\ worker[p].job = r.job
  BY DEF OneWorker, ReportsAttended
<1> QED  BY <1>1 DEF IInv, ReportInv

\* No report is on its way without a worker.
LEMMA AttendedStays ==
    ASSUME OneWorker, IInv, ReportsAttended, [Next]_vars PROVE ReportsAttended'
<1>1. ASSUME NEW p \in Workers, NEW status \in {"succeeded", "failed"}, NEW changed \in BOOLEAN,
             Execute(p, status, changed)
      PROVE  ReportsAttended'
  <2>1. reports = {}
    BY <1>1, OneReport DEF Execute
  <2>2. PICK n : n = Report(worker[p].pid, worker[p].job, status, FALSE)
    OBVIOUS
  <2>3. reports' = {n} /\ n.pid = worker[p].pid /\ n.job = worker[p].job
    BY <1>1, <2>1, <2>2 DEF Execute, Report
  <2>4. worker'[p] = At("reporting", worker[p].pid, worker[p].job)
    BY <1>1 DEF Execute, IInv, TypeOK
  <2>5. worker'[p].phase = "reporting" /\ worker'[p].pid = n.pid /\ worker'[p].job = n.job
    BY <2>3, <2>4 DEF At
  <2> QED  BY <2>3, <2>5 DEF ReportsAttended
<1>2. ASSUME NEW r \in reports, ReportCheck(r) PROVE ReportsAttended'
  <2>1. PICK n : n = Report(r.pid, r.job, r.status, TRUE)
    OBVIOUS
  <2>2. n.pid = r.pid /\ n.job = r.job /\ reports' = (reports \ {r}) \cup {n} /\ UNCHANGED worker
    BY <1>2, <2>1 DEF ReportCheck, Report
  <2> QED  BY <2>2 DEF ReportsAttended
<1>3. ASSUME NEW r \in reports, reports' = reports \ {r} PROVE ReportsAttended'
  <2>1. PICK p \in Workers : TRUE
    BY DEF ReportsAttended
  <2>2. reports' = {}
    BY <1>3, <2>1, OneReport
  <2> QED  BY <2>2 DEF ReportsAttended
<1>4. ASSUME NEW p \in Workers, WorkerCrash(p) PROVE ReportsAttended'
  <2>1. \A r \in reports : worker[p].phase = "reporting" /\ worker[p].pid = r.pid /\ worker[p].job = r.job
    BY OneReport
  <2>2. reports' = {}
    BY <1>4, <2>1 DEF WorkerCrash
  <2> QED  BY <2>2 DEF ReportsAttended
<1>5. ASSUME NEW p \in Workers, worker[p].phase # "reporting", UNCHANGED reports
      PROVE  ReportsAttended'
  <2>1. reports' = {}
    BY <1>5, OneReport
  <2> QED  BY <2>1 DEF ReportsAttended
<1>6. ASSUME NEW p \in Workers PROVE ~ReportTimeout(p)
  BY BoundsAssumption DEF OneWorker, ReportTimeout, IInv, TypeOK
<1>7. ASSUME UNCHANGED <<worker, reports>> PROVE ReportsAttended'
  BY <1>7 DEF ReportsAttended
<1>8. ASSUME NEW p \in Workers, NEW b \in Builds, ClaimSelect(p, b)
      PROVE  worker[p].phase # "reporting" /\ UNCHANGED reports
  BY <1>8 DEF ClaimSelect
<1>9. ASSUME NEW p \in Workers,
             \/ RegisterWorker(p) \/ ClaimCommit(p) \/ ClaimMiss(p) \/ ClaimResponseLost(p)
      PROVE  worker[p].phase # "reporting" /\ UNCHANGED reports
  BY <1>9 DEF RegisterWorker, ClaimCommit, ClaimMiss, ClaimResponseLost
<1> QED
  BY <1>1, <1>2, <1>3, <1>4, <1>5, <1>6, <1>7, <1>8, <1>9 DEF Next, RequestStep, HostStep, WorkerStep,
     ReportStep, Fault, vars, CreateWorkspace, RequestRead, RequestCommit, RequestAbort, Disconnect,
     AcceptHost, RegisterHost, HostLost, ReportRefused, ReportCommit, ReportLost

\* What a claim, and the commit of a report, do to the job and the worker.
LEMMA ClaimDoes ==
    ASSUME OneWorker, IInv, TakenInTurn, NEW p \in Workers, ClaimCommit(p) \/ ClaimResponseLost(p),
           NEW b, b = worker[p].job
    PROVE  /\ b \in Builds /\ jobs[b].status = "queued" /\ \A c \in QueuedJobs : b <= c
           /\ jobs'[b].status = "claimed" /\ \A c \in Builds : c # b => jobs'[c] = jobs[c]
           /\ (worker'[p].phase = "executing" /\ worker'[p].job = b) \/ worker'[p].phase = "off"
<1>1. IsOldest(b) /\ b \in Builds /\ jobs[b].status = "queued"
  BY DEF TakenInTurn, ClaimCommit, ClaimResponseLost, IsOldest, QueuedJobs
<1>2. jobs' = [jobs EXCEPT ![b] = JobRow("claimed", worker[p].pid, jobs[b].attempt + 1)]
  BY DEF ClaimCommit, ClaimResponseLost, TakeJob
<1>3. jobs'[b] = JobRow("claimed", worker[p].pid, jobs[b].attempt + 1)
  BY <1>1, <1>2 DEF IInv, TypeOK
<1>4. worker'[p] = At("executing", worker[p].pid, b) \/ worker'[p] = Off
  BY DEF ClaimCommit, ClaimResponseLost, IInv, TypeOK
<1>5. (worker'[p].phase = "executing" /\ worker'[p].job = b) \/ worker'[p].phase = "off"
  BY <1>4 DEF At, Off
<1> QED  BY <1>1, <1>2, <1>3, <1>5 DEF IsOldest, JobRow, IInv, TypeOK

LEMMA CommitDoes ==
    ASSUME OneWorker, IInv, ReportsAttended, NEW r \in reports, ReportCommit(r), NEW p \in Workers
    PROVE  /\ r.job \in Builds /\ jobs[r.job].status = "claimed" /\ jobs'[r.job].status = r.status
           /\ \A c \in Builds : c # r.job => jobs'[c] = jobs[c]
           /\ worker'[p].phase = "polling" /\ Busy(p) /\ worker[p].job = r.job
<1>1. worker[p].phase = "reporting" /\ worker[p].pid = r.pid /\ worker[p].job = r.job
  BY OneReport
<1>2. worker'[p] = At("polling", r.pid, NoBuild)
  BY <1>1 DEF ReportCommit, Answered
<1>3. jobs' = [jobs EXCEPT ![r.job] = JobRow(r.status, jobs[r.job].by, jobs[r.job].attempt)]
  BY DEF ReportCommit
<1>4. jobs'[r.job] = JobRow(r.status, jobs[r.job].by, jobs[r.job].attempt)
  BY <1>3, ReportFacts DEF IInv, TypeOK
<1> QED  BY <1>1, <1>2, <1>3, <1>4, ReportFacts DEF At, Busy, JobRow, IInv, TypeOK

LEMMA TakenStays ==
    ASSUME OneWorker, IInv, ReportsAttended, TakenInTurn, [Next]_vars PROVE TakenInTurn'
<1>0. \A b, c \in Builds : b < c => ~(c <= b)
  BY DEF Builds
<1>1. ASSUME NEW w, NEW op, InsertBuild(w, op), UNCHANGED worker PROVE TakenInTurn'
  <2>1. nextBuild \in Builds /\ jobs' = [jobs EXCEPT ![nextBuild] = JobRow("queued", 0, 0)]
    BY <1>1 DEF InsertBuild
  <2>2. jobs'[nextBuild] = JobRow("queued", 0, 0) /\ \A c \in Builds : c # nextBuild => jobs'[c] = jobs[c]
    BY <2>1 DEF IInv, TypeOK
  <2>3. jobs'[nextBuild].status = "queued"
    BY <2>2 DEF JobRow
  <2>4. \A c \in Builds : Untaken(c) => Untaken(c)'
    BY <2>2, <2>3 DEF Untaken
  <2>5. \A c \in Builds : nextBuild < c => jobs[c].status = NoRow
    BY <2>1 DEF IInv, RowsInv, Builds
  <2>6. \A b, c \in Builds : jobs'[b].status = "queued" /\ b < c => Untaken(c)'
    BY <2>2, <2>4, <2>5 DEF TakenInTurn, Untaken
  <2>7. ASSUME NEW b, IsOldest(b) PROVE IsOldest(b)'
    <3>1. b \in Builds /\ jobs[b].status = "queued" /\ \A c \in Builds : jobs[c].status = "queued" => b <= c
      BY <2>7 DEF IsOldest, QueuedJobs
    <3>2. b <= nextBuild /\ b # nextBuild
      BY <2>1, <3>1 DEF IInv, RowsInv, Builds, NoRow
    <3> QED  BY <2>2, <2>3, <3>1, <3>2 DEF IsOldest, QueuedJobs
  <2>8. \A p \in Workers : worker[p].phase = "claiming" => IsOldest(worker[p].job)'
    <3> SUFFICES ASSUME NEW p \in Workers, worker[p].phase = "claiming"
                 PROVE  IsOldest(worker[p].job)'
      OBVIOUS
    <3>1. PICK b : b = worker[p].job
      OBVIOUS
    <3>2. IsOldest(b)'
      BY <2>7, <3>1 DEF TakenInTurn
    <3>3. worker'[p].job = b
      BY <1>1, <3>1
    <3> QED  BY <3>2, <3>3 DEF IsOldest, QueuedJobs
  <2>9. \A p \in Workers : Busy(p)' => \A b \in Builds : worker'[p].job < b => Untaken(b)'
    BY <1>1, <2>4 DEF TakenInTurn, Busy
  <2>10. \A p \in Workers : (worker[p].phase = "claiming")' => IsOldest(worker[p].job)'
    BY <1>1, <2>8
  <2> QED  BY <2>6, <2>9, <2>10 DEF TakenInTurn
<1>2. ASSUME NEW p \in Workers, ClaimCommit(p) \/ ClaimResponseLost(p) PROVE TakenInTurn'
  <2>1. PICK b : b = worker[p].job
    OBVIOUS
  <2>2. /\ b \in Builds /\ jobs[b].status = "queued" /\ \A c \in QueuedJobs : b <= c
        /\ jobs'[b].status = "claimed" /\ \A c \in Builds : c # b => jobs'[c] = jobs[c]
        /\ (worker'[p].phase = "executing" /\ worker'[p].job = b) \/ worker'[p].phase = "off"
    BY <1>2, <2>1, ClaimDoes
  <2>3. \A x, c \in Builds : jobs'[x].status = "queued" /\ x < c => Untaken(c)'
    <3> SUFFICES ASSUME NEW x \in Builds, NEW c \in Builds, jobs'[x].status = "queued", x < c
                 PROVE  Untaken(c)'
      OBVIOUS
    <3>1. x # b /\ jobs[x].status = "queued"
      BY <2>2
    <3>2. b <= x
      BY <2>2, <3>1 DEF QueuedJobs
    <3>3. c # b
      BY <1>0, <3>2
    <3> QED  BY <2>2, <3>1, <3>3 DEF TakenInTurn, Untaken
  <2>4. \A c \in Builds : b < c => Untaken(c)'
    <3>1. \A c \in Builds : b < c => Untaken(c) /\ c # b
      BY <2>2 DEF TakenInTurn, Builds
    <3> QED  BY <2>2, <3>1 DEF Untaken
  <2>5. \A q \in Workers : q = p
    BY DEF OneWorker
  <2>6. \A q \in Workers : worker'[q].phase # "claiming"
    BY <2>2, <2>5
  <2>7. \A q \in Workers : Busy(q)' => \A c \in Builds : worker'[q].job < c => Untaken(c)'
    BY <2>2, <2>4, <2>5 DEF Busy
  <2> QED  BY <2>3, <2>6, <2>7 DEF TakenInTurn
<1>3. ASSUME NEW r \in reports, ReportCommit(r) PROVE TakenInTurn'
  <2>1. \A p \in Workers : worker'[p].phase = "polling"
    BY <1>3, CommitDoes
  <2>2. PICK p \in Workers : TRUE
    BY <1>3 DEF ReportsAttended
  <2>3. /\ r.job \in Builds /\ jobs[r.job].status = "claimed" /\ jobs'[r.job].status = r.status
        /\ \A c \in Builds : c # r.job => jobs'[c] = jobs[c]
    BY <1>3, <2>2, CommitDoes
  <2>4. \A b, c \in Builds : jobs'[b].status = "queued" /\ b < c => Untaken(c)'
    BY <2>3, ReportFacts DEF TakenInTurn, Untaken, NoRow
  <2> QED  BY <2>1, <2>4 DEF TakenInTurn, Busy
<1>4. ASSUME UNCHANGED jobs,
             \A p \in Workers : worker'[p].phase = "claiming" => IsOldest(worker'[p].job),
             \A p \in Workers : Busy(p)' => Busy(p) /\ worker'[p].job = worker[p].job
      PROVE  TakenInTurn'
  BY <1>4 DEF TakenInTurn, Untaken, IsOldest, QueuedJobs
<1>5. ASSUME UNCHANGED <<jobs, worker>> PROVE TakenInTurn'
  BY <1>5 DEF TakenInTurn, Untaken, IsOldest, QueuedJobs, Busy
<1>6. ASSUME UNCHANGED jobs, NEW p \in Workers, NEW v, worker' = [worker EXCEPT ![p] = v],
             v.phase = "claiming" => IsOldest(v.job),
             v.phase \in {"executing", "reporting"} => Busy(p) /\ v.job = worker[p].job
      PROVE  TakenInTurn'
  <2>1. \A q \in Workers : q = p
    BY DEF OneWorker
  <2>2. worker'[p] = v
    BY <1>6 DEF IInv, TypeOK
  <2> QED  BY <1>4, <1>6, <2>1, <2>2 DEF Busy
<1>7. ASSUME NEW p \in Workers,
             RegisterWorker(p) \/ ClaimMiss(p) \/ WorkerCrash(p) \/ ReportTimeout(p)
      PROVE  TakenInTurn'
  <2>1. UNCHANGED jobs
    BY <1>7 DEF RegisterWorker, ClaimMiss, WorkerCrash, ReportTimeout, dbVars
  <2>2. PICK i, ph : ph \in {"off", "polling"} /\ worker' = [worker EXCEPT ![p] = At(ph, i, NoBuild)]
    BY <1>7 DEF RegisterWorker, ClaimMiss, WorkerCrash, ReportTimeout, Off
  <2>3. PICK v : v = At(ph, i, NoBuild)
    OBVIOUS
  <2>4. v.phase \in {"off", "polling"} /\ worker' = [worker EXCEPT ![p] = v]
    BY <2>2, <2>3 DEF At
  <2> QED  BY <1>6, <2>1, <2>4
<1>8. ASSUME NEW p \in Workers, NEW b \in Builds, ClaimSelect(p, b) PROVE TakenInTurn'
  <2>1. PICK v : v = At("claiming", worker[p].pid, b)
    OBVIOUS
  <2>2. v.phase = "claiming" /\ v.job = b /\ worker' = [worker EXCEPT ![p] = v] /\ UNCHANGED jobs
        /\ IsOldest(b)
    BY <1>8, <2>1 DEF ClaimSelect, At, dbVars
  <2> QED  BY <1>6, <2>2
<1>9. ASSUME NEW p \in Workers, NEW status \in {"succeeded", "failed"}, NEW changed \in BOOLEAN,
             Execute(p, status, changed)
      PROVE  TakenInTurn'
  <2>1. PICK v : v = At("reporting", worker[p].pid, worker[p].job)
    OBVIOUS
  <2>2. v.phase = "reporting" /\ v.job = worker[p].job /\ worker' = [worker EXCEPT ![p] = v]
        /\ UNCHANGED jobs /\ Busy(p)
    BY <1>9, <2>1 DEF Execute, At, dbVars, Busy
  <2> QED  BY <1>6, <2>2
<1>10. ASSUME NEW r \in reports, worker' = Answered(r), UNCHANGED jobs PROVE TakenInTurn'
  <2>1. ASSUME NEW p \in Workers PROVE worker'[p].phase = "polling"
    <3>1. worker'[p] = At("polling", r.pid, NoBuild)
      BY <1>10, OneReport DEF Answered
    <3> QED  BY <3>1 DEF At
  <2> QED  BY <1>4, <1>10, <2>1 DEF Busy
<1>11. ASSUME NEW r \in reports, ReportRefused(r) \/ ReportLost(r) PROVE TakenInTurn'
  BY <1>10, <1>11 DEF ReportRefused, ReportLost, dbVars
<1> QED
  BY <1>1, <1>2, <1>3, <1>5, <1>7, <1>8, <1>9, <1>11 DEF Next, RequestStep, HostStep, WorkerStep,
     ReportStep, Fault, vars, dbVars, CreateWorkspace, RequestRead, RequestCommit, RequestAbort, Disconnect,
     AcceptHost, RegisterHost, HostLost, ReportCheck

\* A build is inserted for workspace w, whose current one it becomes.
Inserts(w, op, row) ==
    /\ InsertBuild(w, op) /\ ws' = [ws EXCEPT ![w] = row]
    /\ row.current = nextBuild
    /\ UNCHANGED <<worker, reports, infra>>

\* No build is inserted: every one keeps its workspace and operation.
InsertsNone ==
    /\ \A b \in Builds : /\ builds'[b].ws = builds[b].ws /\ builds'[b].op = builds[b].op
                         /\ builds'[b].status = NoRow => builds[b].status = NoRow
                         /\ builds[b].status = NoRow => builds'[b].status = NoRow
    /\ \A w \in Workspaces : ws'[w].current = ws[w].current /\ (Exists(w)' => Exists(w))

\* The two transactions that insert a build.
LEMMA Insertions ==
    ASSUME IInv, (\E w \in Workspaces : CreateWorkspace(w)) \/ (\E h \in Handlers : RequestCommit(h))
    PROVE  \E w \in Workspaces : \E op, row : Inserts(w, op, row)
<1>1. ASSUME NEW w \in Workspaces, CreateWorkspace(w)
      PROVE  \E v \in Workspaces : \E op, row : Inserts(v, op, row)
  <2>1. PICK row : row = WorkspaceRow("running", "pending", nextBuild)
    OBVIOUS
  <2>2. row.current = nextBuild
    BY <2>1 DEF WorkspaceRow
  <2>3. Inserts(w, "create", row)
    BY <1>1, <2>1, <2>2 DEF CreateWorkspace, Inserts
  <2> QED  BY <2>3
<1>2. ASSUME NEW h \in Handlers, RequestCommit(h)
      PROVE  \E v \in Workspaces : \E op, row : Inserts(v, op, row)
  <2>1. PICK row, w, op : /\ row = WorkspaceRow(requests[h].next, "pending", nextBuild)
                          /\ w = requests[h].ws /\ op = requests[h].op
    OBVIOUS
  <2>2. row.current = nextBuild /\ w \in Workspaces
    BY <1>2, <2>1 DEF WorkspaceRow, RequestCommit, IInv, ReferenceInv
  <2>3. Inserts(w, op, row)
    BY <1>2, <2>1, <2>2 DEF RequestCommit, Inserts
  <2> QED  BY <2>2, <2>3
<1> QED  BY <1>1, <1>2

\* Every step inserts a build or none.
LEMMA RowsRemain ==
    ASSUME IInv, [Next]_vars
    PROVE  (\E w \in Workspaces : \E op, row : Inserts(w, op, row)) \/ InsertsNone
<1>3. ASSUME NEW b \in Builds, b < nextBuild, NEW x, x # NoRow, NEW i,
             builds' = [builds EXCEPT ![b] = BuildRow(builds[b].ws, builds[b].op, x, i)],
             \A w \in Workspaces : ws'[w].current = ws[w].current /\ ws'[w].desired = ws[w].desired
      PROVE  InsertsNone
  <2>1. PICK n : n = BuildRow(builds[b].ws, builds[b].op, x, i)
    OBVIOUS
  <2>2. builds'[b] = n /\ \A c \in Builds : c # b => builds'[c] = builds[c]
    BY <1>3, <2>1 DEF IInv, TypeOK
  <2>3. n.ws = builds[b].ws /\ n.op = builds[b].op /\ n.status = x
    BY <2>1 DEF BuildRow
  <2>4. builds[b].status # NoRow
    BY <1>3 DEF IInv, RowsInv, JobBuildAgree, TypeOK, Builds
  <2> QED  BY <1>3, <2>2, <2>3, <2>4 DEF InsertsNone, Exists
<1>4. ASSUME NEW p \in Workers, ClaimCommit(p) \/ ClaimResponseLost(p) PROVE InsertsNone
  <2>1. PICK b : b = worker[p].job
    OBVIOUS
  <2>2. /\ builds' = [builds EXCEPT ![b] = BuildRow(builds[b].ws, builds[b].op, "claimed", worker[p].pid)]
        /\ UNCHANGED ws /\ worker[p].phase = "claiming"
    BY <1>4, <2>1 DEF ClaimCommit, ClaimResponseLost, TakeJob
  <2>3. b \in Builds /\ b < nextBuild
    BY <2>1, <2>2 DEF IInv, WorkerInv
  <2> QED  BY <1>3, <2>2, <2>3 DEF NoRow
<1>5. ASSUME NEW r \in reports, ReportCommit(r) PROVE InsertsNone
  <2>1. PICK b, x, i : b = r.job /\ x = r.status /\ i = builds[b].pid
    OBVIOUS
  <2>2. builds' = [builds EXCEPT ![b] = BuildRow(builds[b].ws, builds[b].op, x, i)]
    BY <1>5, <2>1 DEF ReportCommit
  <2>3. b \in Builds /\ b < nextBuild /\ x # NoRow
    BY <2>1, ReportFacts DEF IInv, RowsInv, NoRow, TypeOK, Builds
  <2>4. \A w \in Workspaces : ws'[w].current = ws[w].current /\ ws'[w].desired = ws[w].desired
    BY <1>5, ReportFacts DEF ReportCommit, FinalizeWorkspaceBuild, WorkspaceRow, IInv, TypeOK
  <2> QED  BY <1>3, <2>2, <2>3, <2>4
<1>6. ASSUME UNCHANGED <<ws, builds>> PROVE InsertsNone
  BY <1>6 DEF InsertsNone, Exists
<1> QED
  BY <1>4, <1>5, <1>6, Insertions DEF Next, RequestStep, HostStep, WorkerStep, ReportStep, Fault, vars,
     dbVars, RequestRead, RequestAbort, Disconnect, AcceptHost, RegisterHost, HostLost, RegisterWorker,
     ClaimSelect, ClaimMiss, Execute, WorkerCrash, ReportCheck, ReportRefused, ReportLost,
     ReportTimeout

\* What an insertion leaves alone: the builds there are, and other workspaces.
LEMMA InsertDoes ==
    ASSUME IInv, NEW w \in Workspaces, NEW op, NEW row, Inserts(w, op, row)
    PROVE  /\ nextBuild \in Builds /\ builds'[nextBuild].ws = w /\ builds'[nextBuild].status = "queued"
           /\ \A b \in Builds : b # nextBuild => builds'[b] = builds[b]
           /\ \A b \in Builds : b < nextBuild <=> jobs[b].status # NoRow
           /\ \A b \in Builds : jobs[b].status = builds[b].status
           /\ ws'[w].current = nextBuild
           /\ \A v \in Workspaces : v # w => ws'[v] = ws[v]
<1>1. nextBuild \in Builds /\ builds' = [builds EXCEPT ![nextBuild] = BuildRow(w, op, "queued", 0)]
  BY DEF Inserts, InsertBuild
<1>2. builds'[nextBuild] = BuildRow(w, op, "queued", 0)
      /\ \A b \in Builds : b # nextBuild => builds'[b] = builds[b]
  BY <1>1 DEF IInv, TypeOK
<1>3. ws'[w] = row /\ \A v \in Workspaces : v # w => ws'[v] = ws[v]
  BY DEF Inserts, IInv, TypeOK
<1>4. \A b \in Builds : /\ b < nextBuild <=> jobs[b].status # NoRow
                        /\ jobs[b].status = builds[b].status
  BY <1>1 DEF IInv, RowsInv, JobBuildAgree, Builds
<1> QED  BY <1>1, <1>2, <1>3, <1>4 DEF BuildRow, Inserts

LEMMA NewestStays ==
    ASSUME IInv, CurrentIsNewest, [Next]_vars PROVE CurrentIsNewest'
<1> SUFFICES ASSUME NEW w \in Workspaces, Exists(w)', NEW b \in Builds,
                    builds'[b].status # NoRow, builds'[b].ws = w
             PROVE  b <= ws'[w].current
  BY DEF CurrentIsNewest, BuildsOf
<1>1. CASE InsertsNone
  BY <1>1 DEF InsertsNone, CurrentIsNewest, BuildsOf
<1>2. ASSUME NEW v \in Workspaces, NEW op, NEW row, Inserts(v, op, row)
      PROVE  b <= ws'[w].current
  <2>1. CASE v = w
    BY <1>2, <2>1, InsertDoes DEF Builds
  <2>2. CASE v # w
    BY <1>2, <2>2, InsertDoes DEF CurrentIsNewest, BuildsOf, Exists
  <2> QED  BY <2>1, <2>2
<1> QED  BY <1>1, <1>2, RowsRemain

\* What Terraform makes of the workspace of a build is true when it reports
\* success, and with one worker nothing else is applied until that is stored.
LEMMA TrueStays ==
    ASSUME OneWorker, IInv, ReportsAttended, ReportsTrue, [Next]_vars PROVE ReportsTrue'
<1>1. CASE reports' = {}
  BY <1>1 DEF ReportsTrue
<1>2. ASSUME NEW p \in Workers, NEW status \in {"succeeded", "failed"}, NEW changed \in BOOLEAN,
             Execute(p, status, changed)
      PROVE  ReportsTrue'
  <2>1. PICK b, n : b = worker[p].job /\ n = Report(worker[p].pid, b, status, FALSE)
    OBVIOUS
  <2>2. reports = {}
    BY <1>2, OneReport DEF Execute
  <2>3. reports' = {n} /\ n.job = b /\ n.status = status /\ UNCHANGED builds
    BY <1>2, <2>1, <2>2 DEF Execute, Report, dbVars
  <2>4. builds[b].ws \in Workspaces
    BY <1>2, <2>1, ExecutingFacts DEF Execute
  <2>5. status = "succeeded" => infra' = [infra EXCEPT ![builds[b].ws] = InfraAfter(builds[b].op)]
    BY <1>2, <2>1 DEF Execute
  <2>6. status = "succeeded" => infra'[builds[b].ws] = InfraAfter(builds[b].op)
    BY <2>4, <2>5 DEF IInv, TypeOK
  <2> QED  BY <2>3, <2>6 DEF ReportsTrue
<1>3. ASSUME NEW r \in reports, ReportCheck(r) PROVE ReportsTrue'
  <2>1. PICK n : n = Report(r.pid, r.job, r.status, TRUE)
    OBVIOUS
  <2>2. n.job = r.job /\ n.status = r.status /\ reports' = (reports \ {r}) \cup {n}
        /\ UNCHANGED <<builds, infra>>
    BY <1>3, <2>1 DEF ReportCheck, Report, dbVars
  <2> QED  BY <2>2 DEF ReportsTrue
<1>4. ASSUME UNCHANGED <<reports, infra>>,
             \A r \in reports : builds'[r.job].ws = builds[r.job].ws /\ builds'[r.job].op = builds[r.job].op
      PROVE  ReportsTrue'
  BY <1>4 DEF ReportsTrue
<1>5. ASSUME NEW r \in reports, reports' = reports \ {r} PROVE reports' = {}
  <2>1. PICK p \in Workers : TRUE
    BY DEF ReportsAttended
  <2> QED  BY <1>5, <2>1, OneReport
<1>6. ASSUME NEW p \in Workers, worker[p].phase # "reporting", UNCHANGED reports PROVE reports' = {}
  BY <1>6, OneReport
<1>7. ASSUME NEW p \in Workers, WorkerCrash(p) PROVE reports' = {}
  <2>1. \A r \in reports : worker[p].phase = "reporting" /\ worker[p].pid = r.pid /\ worker[p].job = r.job
    BY OneReport
  <2> QED  BY <1>7, <2>1 DEF WorkerCrash
<1>8. ASSUME NEW w \in Workspaces, NEW op, NEW row, Inserts(w, op, row) PROVE ReportsTrue'
  <2>1. ASSUME NEW r \in reports PROVE r.job \in Builds /\ r.job # nextBuild
    <3>1. r.job \in Builds /\ jobs[r.job].status # NoRow
      BY ReportFacts DEF NoRow
    <3>2. r.job < nextBuild
      BY <1>8, <3>1, InsertDoes
    <3> QED  BY <3>1, <3>2 DEF Builds, IInv, TypeOK
  <2>2. UNCHANGED <<reports, infra>>
    BY <1>8 DEF Inserts
  <2> QED  BY <1>4, <1>8, <2>1, <2>2, InsertDoes
<1>9. ASSUME UNCHANGED <<reports, infra, builds>> PROVE ReportsTrue'
  BY <1>4, <1>9
<1>10. ASSUME NEW p \in Workers, ClaimCommit(p) \/ ClaimResponseLost(p) PROVE ReportsTrue'
  BY <1>1, <1>6, <1>10 DEF ClaimCommit, ClaimResponseLost
<1>11. ASSUME NEW r \in reports, ReportRefused(r) \/ ReportCommit(r) \/ ReportLost(r) PROVE ReportsTrue'
  BY <1>1, <1>5, <1>11 DEF ReportRefused, ReportCommit, ReportLost
<1>12. ASSUME (\E w \in Workspaces : CreateWorkspace(w)) \/ (\E h \in Handlers : RequestCommit(h))
      PROVE  ReportsTrue'
  BY <1>8, <1>12, Insertions
<1> QED
  BY <1>1, <1>2, <1>3, <1>7, <1>9, <1>10, <1>11, <1>12 DEF Next, RequestStep, HostStep,
     WorkerStep, ReportStep, Fault, vars, dbVars, RequestRead, RequestAbort, Disconnect, AcceptHost,
     RegisterHost, HostLost, RegisterWorker, ClaimSelect, ClaimMiss, ReportTimeout

\* The workspace of the build the worker is busy with shows no outcome: its
\* current build is this one or one that was not taken yet.
LEMMA NoOutcomeYet ==
    ASSUME IInv, TakenInTurn, CurrentIsNewest, NEW p \in Workers, Busy(p),
           NEW b, b = worker[p].job, NEW w, w = builds[b].ws
    PROVE  /\ b \in Builds /\ w \in Workspaces
           /\ Exists(w) => /\ builds[ws[w].current].status \notin Terminal
                           /\ ws[w].current # b => jobs[ws[w].current].status # "claimed"
<1>1. b \in Builds /\ jobs[b] = [status |-> "claimed", attempt |-> 1, by |-> worker[p].pid]
  BY DEF IInv, WorkerInv
<1>2. jobs[b].status = "claimed" /\ builds[b].status = "claimed"
  BY <1>1 DEF IInv, JobBuildAgree
<1>3. w \in Workspaces /\ b \in BuildsOf(w)
  BY <1>1, <1>2 DEF IInv, RowsInv, BuildsOf, NoRow
<1>4. ASSUME Exists(w), ws[w].current # b
      PROVE  jobs[ws[w].current].status \in {"queued", NoRow} /\ ws[w].current \in Builds
  <2>1. ws[w].current \in Builds
    BY <1>3, <1>4 DEF IInv, ReferenceInv, BuildsOf
  <2>2. b < ws[w].current
    BY <1>1, <1>3, <1>4, <2>1 DEF CurrentIsNewest, Builds
  <2> QED  BY <1>1, <2>1, <2>2 DEF TakenInTurn, Untaken
<1>5. ASSUME Exists(w), ws[w].current # b
      PROVE  builds[ws[w].current].status \in {"queued", NoRow}
  BY <1>4, <1>5 DEF IInv, JobBuildAgree
<1> QED  BY <1>1, <1>2, <1>3, <1>4, <1>5 DEF Terminal, NoRow

LEMMA OutcomesStay ==
    ASSUME OneWorker, IInv, InTurn, [Next]_vars PROVE Outcomes'
<1> SUFFICES ASSUME NEW w \in Workspaces, Exists(w)', builds'[ws'[w].current].status \in Terminal
             PROVE  Outcome(w)'
  BY DEF Outcomes
<1>0. Exists(w) => ws[w].current \in Builds /\ builds[ws[w].current].status # NoRow
  BY DEF IInv, ReferenceInv, BuildsOf
<1>1. ASSUME ws'[w] = ws[w], builds'[ws[w].current] = builds[ws[w].current], infra'[w] = infra[w]
      PROVE  Outcome(w)'
  BY <1>1 DEF InTurn, Outcomes, Outcome, Exists
<1>2. ASSUME NEW v \in Workspaces, NEW op, NEW row, Inserts(v, op, row) PROVE Outcome(w)'
  <2>1. v # w
    BY <1>2, InsertDoes DEF Terminal
  <2>2. ws'[w] = ws[w] /\ Exists(w)
    BY <1>2, <2>1, InsertDoes DEF Exists
  <2>3. jobs[ws[w].current].status # NoRow /\ ws[w].current < nextBuild
    BY <1>0, <1>2, <2>2, InsertDoes
  <2>4. builds'[ws[w].current] = builds[ws[w].current]
    BY <1>0, <1>2, <2>2, <2>3, InsertDoes DEF Builds, IInv, TypeOK
  <2>5. UNCHANGED infra
    BY <1>2 DEF Inserts
  <2> QED  BY <1>1, <2>2, <2>4, <2>5
<1>3. ASSUME NEW p \in Workers, ClaimCommit(p) \/ ClaimResponseLost(p) PROVE Outcome(w)'
  <2>1. PICK b, n : b = worker[p].job /\ n = BuildRow(builds[b].ws, builds[b].op, "claimed", worker[p].pid)
    OBVIOUS
  <2>2. builds' = [builds EXCEPT ![b] = n] /\ UNCHANGED <<ws, infra>>
    BY <1>3, <2>1 DEF ClaimCommit, ClaimResponseLost, TakeJob
  <2>3. n.status = "claimed" /\ Exists(w)
    BY <2>1, <2>2 DEF BuildRow, Exists
  <2>4. builds'[ws[w].current] = IF ws[w].current = b THEN n ELSE builds[ws[w].current]
    BY <1>0, <2>2, <2>3 DEF IInv, TypeOK
  <2>5. builds'[ws[w].current] = builds[ws[w].current]
    BY <2>2, <2>3, <2>4 DEF Terminal
  <2> QED  BY <1>1, <2>2, <2>5
<1>4. ASSUME NEW p \in Workers, NEW status \in {"succeeded", "failed"}, NEW changed \in BOOLEAN,
             Execute(p, status, changed)
      PROVE  Outcome(w)'
  <2>1. PICK b, v : b = worker[p].job /\ v = builds[b].ws
    OBVIOUS
  <2>2. UNCHANGED <<ws, builds>> /\ Busy(p) /\ Exists(w)
    BY <1>4 DEF Execute, dbVars, Busy, Exists
  <2>3. infra' = infra \/ infra' = [infra EXCEPT ![v] = InfraAfter(builds[b].op)]
    BY <1>4, <2>1 DEF Execute
  <2>4. v # w
    BY <2>1, <2>2, NoOutcomeYet DEF InTurn
  <2>5. infra'[w] = infra[w]
    BY <2>3, <2>4 DEF IInv, TypeOK
  <2> QED  BY <1>1, <2>2, <2>5
<1>5. ASSUME NEW r \in reports, ReportCommit(r) PROVE Outcome(w)'
  <2>1. PICK b, v, op : b = r.job /\ v = builds[b].ws /\ op = builds[b].op
    OBVIOUS
  <2>2. PICK row : row = WorkspaceRow(ws[v].desired, ObservedStateAfter(op, r.status = "succeeded"), ws[v].current)
    OBVIOUS
  <2>3. PICK n : n = BuildRow(v, op, r.status, builds[b].pid)
    OBVIOUS
  <2>4. /\ ws' = [ws EXCEPT ![v] = row] /\ builds' = [builds EXCEPT ![b] = n]
        /\ UNCHANGED infra
    BY <1>5, <2>1, <2>2, <2>3 DEF ReportCommit, FinalizeWorkspaceBuild
  <2>5. /\ row.observed = ObservedStateAfter(op, r.status = "succeeded")
        /\ row.current = ws[v].current /\ row.desired = ws[v].desired
        /\ n.op = op /\ n.status = r.status
    BY <2>2, <2>3 DEF WorkspaceRow, BuildRow
  <2>6. b \in Builds /\ v \in Workspaces /\ r.status \in {"succeeded", "failed"}
    BY <2>1, ReportFacts
  <2>7. /\ ws'[w] = IF w = v THEN row ELSE ws[w]
        /\ ws'[w].current = ws[w].current /\ Exists(w)
    BY <2>4, <2>5, <2>6 DEF IInv, TypeOK, Exists
  <2>8. builds'[ws[w].current] = IF ws[w].current = b THEN n ELSE builds[ws[w].current]
    BY <1>0, <2>4, <2>6, <2>7 DEF IInv, TypeOK
  <2>9. PICK p \in Workers : Busy(p) /\ worker[p].job = b
    BY <1>5, <2>1, CommitDoes DEF InTurn, ReportsAttended
  <2>10. CASE w # v
    <3>1. ws[w].current # b
      BY <1>0, <2>1, <2>7, <2>10 DEF IInv, ReferenceInv, BuildsOf
    <3> QED  BY <1>1, <2>4, <2>7, <2>8, <2>10, <3>1
  <2>11. CASE w = v
    <3>1. ws[w].current = b
      BY <2>1, <2>7, <2>8, <2>9, <2>11, NoOutcomeYet DEF InTurn
    <3>2. /\ ws'[w].observed = ObservedStateAfter(op, r.status = "succeeded")
          /\ builds'[ws'[w].current].op = op /\ builds'[ws'[w].current].status = r.status
      BY <2>5, <2>7, <2>8, <2>11, <3>1
    <3>3. r.status = "succeeded" => infra'[w] = InfraAfter(op)
      BY <2>1, <2>4, <2>11 DEF InTurn, ReportsTrue
    <3>4. InfraAfter(op) = ObservedStateAfter(op, TRUE)
      BY DEF InfraAfter, ObservedStateAfter
    <3> QED  BY <3>2, <3>3, <3>4 DEF Outcome
  <2> QED  BY <2>10, <2>11
<1>6. ASSUME UNCHANGED <<ws, builds, infra>> PROVE Outcome(w)'
  BY <1>1, <1>6
<1>7. ASSUME (\E v \in Workspaces : CreateWorkspace(v)) \/ (\E h \in Handlers : RequestCommit(h))
      PROVE  Outcome(w)'
  BY <1>2, <1>7, Insertions
<1> QED
  BY <1>3, <1>4, <1>5, <1>6, <1>7 DEF Next, RequestStep, HostStep, WorkerStep, ReportStep, Fault, vars,
     dbVars, RequestRead, RequestAbort, Disconnect, AcceptHost, RegisterHost, HostLost, RegisterWorker,
     ClaimSelect, ClaimMiss, WorkerCrash, ReportCheck, ReportRefused, ReportLost, ReportTimeout

\* With one worker whose reports are answered in time, the newest build of a
\* workspace decides what is observed of it: jobs are taken in the order of
\* their creation, and one is stored before the next is taken.
THEOREM LastBuildDecides == ASSUME OneWorker PROVE Spec => []LatestBuildDecides
<1>1. Init => InTurn
  <2> SUFFICES ASSUME Init PROVE InTurn
    OBVIOUS
  <2>1. reports = {} /\ \A w \in Workspaces : ~Exists(w)
    BY DEF Init, WorkspaceRow, Exists
  <2>2. /\ \A b \in Builds : jobs[b].status = NoRow
        /\ \A p \in Workers : worker[p].phase = "off"
    BY DEF Init, JobRow, Off, At
  <2> QED  BY <2>1, <2>2 DEF InTurn, ReportsAttended, TakenInTurn, CurrentIsNewest, ReportsTrue,
                            Outcomes, NoRow, Busy
<1>2. IInv /\ InTurn /\ [Next]_vars => InTurn'
  <2> SUFFICES ASSUME IInv, InTurn, [Next]_vars PROVE InTurn'
    OBVIOUS
  <2> QED  BY AttendedStays, TakenStays, NewestStays, TrueStays, OutcomesStay DEF InTurn
<1>3. IInv /\ InTurn => LatestBuildDecides
  <2> SUFFICES ASSUME IInv, InTurn, NEW w \in Workspaces, Exists(w), Settled(w)
               PROVE  Outcome(w)
    BY DEF LatestBuildDecides, Outcome
  <2>1. ws[w].current \in BuildsOf(w)
    BY DEF IInv, ReferenceInv
  <2> QED  BY <2>1 DEF Settled, InTurn, Outcomes
<1> QED  BY <1>1, <1>2, <1>3, IInvHolds, PTL DEF Spec

=============================================================================
