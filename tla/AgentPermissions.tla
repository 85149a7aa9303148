-------------------------- MODULE AgentPermissions --------------------------
(***************************************************************************)
(* How one session of the Agent Host asks for permission.  The Agent SDK   *)
(* calls handleAgentPermission on a goroutine of its own for every tool it *)
(* wants to run; the goroutine registers a pending permission, announces   *)
(* it to the clients and waits.  The host's reader, a single goroutine,    *)
(* handles what clients dispatch: an answer, a cancellation, a new turn,   *)
(* the disposal of the session.  The map of pending permissions is guarded *)
(* by a mutex that nobody holds while emitting or sending, so each handler *)
(* is a sequence of steps here.                                            *)
(*                                                                         *)
(* The reducers that apply an action to a session or a chat are library    *)
(* code: setting an input request inserts it, removing it deletes it, and  *)
(* the end of a turn is applied only to the turn it names.                 *)
(***************************************************************************)
EXTENDS Naturals, Sequences, FiniteSets

CONSTANTS
    Clients,   \* logical peers
    MaxPerms,  \* bound on the permission requests of the session
    MaxTurns   \* bound on the turns of the session

ASSUME PermissionsAssumption == MaxPerms \in Nat /\ MaxTurns \in Nat

Perms == 1..MaxPerms

VARIABLES
    live,        \* the session is in Host.sessions
    closed,      \* Host.Close has run
    turn,        \* number of Chat.ActiveTurn, 0 for nil
    lastTurn,    \* turns started so far
    mode,        \* session.ApprovalMode
    subs,        \* clients subscribed to the chat
    pending,     \* Host.permissions
    permTurn,    \* pendingPermission.turnID
    response,    \* pendingPermission.response, a channel with room for one
    inputNeeded, \* SessionState.inputNeeded
    handler,     \* where the goroutine of a request is
    verdict,     \* what handleAgentPermission returned
    reader,      \* the reader goroutine (after the connection, Host.Close)
    jobs,        \* permissions taken out of the map and still to be settled
    event,       \* turn the event goroutine is about to complete, or 0
    approved     \* history: requests a subscriber of the chat has approved

sessionVars == <<live, closed, turn, lastTurn, mode, subs>>
askVars     == <<handler, verdict, permTurn>>
vars == <<sessionVars, pending, response, inputNeeded, askVars, reader, jobs,
          event, approved>>

-----------------------------------------------------------------------------
(* Vocabulary *)

Modes     == {"ask", "allow"}
Decisions == {"allow", "deny", "cancel"}

\* A permission to settle: the entry is still to be removed from the session
\* ("remove") or the decision is still to be sent ("send").
Job(p, d, stage) == [perm |-> p, decision |-> d, stage |-> stage]
Jobs == [perm : Perms, decision : Decisions, stage : {"remove", "send"}]

\* The reader: at rest, between the two halves of a new turn (with the mode to
\* set), between the two halves of a disposal, or settling permissions and then
\* ending turn "then" (0 for none).
Idle         == [at |-> "idle", mode |-> "ask", then |-> 0]
Starting(m)  == [at |-> "starting", mode |-> m, then |-> 0]
Disposing    == [at |-> "disposing", mode |-> "ask", then |-> 0]
Settling(t)  == [at |-> "settling", mode |-> "ask", then |-> t]

Init ==
    /\ live = TRUE
    /\ closed = FALSE
    /\ turn = 0
    /\ lastTurn = 0
    /\ mode = "ask"
    /\ subs = {}
    /\ pending = {}
    /\ permTurn = [p \in Perms |-> 0]
    /\ response = [p \in Perms |-> << >>]
    /\ inputNeeded = {}
    /\ handler = [p \in Perms |-> "idle"]
    /\ verdict = [p \in Perms |-> "none"]
    /\ reader = Idle
    /\ jobs = {}
    /\ event = 0
    /\ approved = {}

-----------------------------------------------------------------------------
(* handleAgentPermission, on a goroutine of its own *)

Returns(p, d) ==
    /\ handler' = [handler EXCEPT ![p] = "returned"]
    /\ verdict' = [verdict EXCEPT ![p] = d]

\* No session or no turn: the request is turned down at once.
AskRefused(p) ==
    /\ handler[p] = "idle"
    /\ ~live \/ turn = 0
    /\ Returns(p, "cancel")
    /\ UNCHANGED <<sessionVars, pending, permTurn, response, inputNeeded, reader,
                   jobs, event, approved>>

\* The session's approval mode grants it.
AskGranted(p) ==
    /\ handler[p] = "idle"
    /\ live /\ turn # 0
    /\ mode = "allow"
    /\ Returns(p, "allow")
    /\ UNCHANGED <<sessionVars, pending, permTurn, response, inputNeeded, reader,
                   jobs, event, approved>>

\* Somebody has to be asked: the permission is registered for the active turn.
AskPends(p) ==
    /\ handler[p] = "idle"
    /\ live /\ turn # 0
    /\ mode = "ask"
    /\ pending' = pending \cup {p}
    /\ permTurn' = [permTurn EXCEPT ![p] = turn]
    /\ handler' = [handler EXCEPT ![p] = "registered"]
    /\ UNCHANGED <<sessionVars, response, inputNeeded, verdict, reader, jobs,
                   event, approved>>

\* emitPermissionRequest: the tool call starts and is ready in the chat, ...
EmitToolCall(p) ==
    /\ handler[p] = "registered"
    /\ handler' = [handler EXCEPT ![p] = "announced"]
    /\ UNCHANGED <<sessionVars, pending, permTurn, response, inputNeeded, verdict,
                   reader, jobs, event, approved>>

\* ... and the session needs input, if it still exists.
EmitInputNeeded(p) ==
    /\ handler[p] = "announced"
    /\ handler' = [handler EXCEPT ![p] = "waiting"]
    /\ inputNeeded' = IF live THEN inputNeeded \cup {p} ELSE inputNeeded
    /\ UNCHANGED <<sessionVars, pending, permTurn, response, verdict, reader, jobs,
                   event, approved>>

\* The decision arrives; the deferred delete finds nothing to delete.
ReceiveDecision(p) ==
    /\ handler[p] = "waiting"
    /\ response[p] # << >>
    /\ Returns(p, Head(response[p]))
    /\ response' = [response EXCEPT ![p] = Tail(@)]
    /\ pending' = pending \ {p}
    /\ UNCHANGED <<sessionVars, permTurn, inputNeeded, reader, jobs, event,
                   approved>>

-----------------------------------------------------------------------------
(* The reader *)

Ready == reader = Idle /\ ~closed

Subscribe(c) ==
    /\ Ready /\ live
    /\ subs' = subs \cup {c}
    /\ UNCHANGED <<live, closed, turn, lastTurn, mode, pending, response,
                   inputNeeded, askVars, reader, jobs, event, approved>>

Unsubscribe(c) ==
    /\ Ready
    /\ subs' = subs \ {c}
    /\ UNCHANGED <<live, closed, turn, lastTurn, mode, pending, response,
                   inputNeeded, askVars, reader, jobs, event, approved>>

\* startChatTurn: the turn becomes active, then its approval mode is stored,
\* and the prompt is handed to the SDK.
StartTurn(m) ==
    /\ Ready /\ live
    /\ lastTurn < MaxTurns
    /\ lastTurn' = lastTurn + 1
    /\ turn' = lastTurn + 1
    /\ reader' = Starting(m)
    /\ UNCHANGED <<live, closed, mode, subs, pending, response, inputNeeded,
                   askVars, jobs, event, approved>>

StoreMode ==
    /\ reader.at = "starting"
    /\ mode' = reader.mode
    /\ reader' = Idle
    /\ UNCHANGED <<live, closed, turn, lastTurn, subs, pending, response,
                   inputNeeded, askVars, jobs, event, approved>>

\* Mutant: any permission of the same turn will do.
BugMatches(q, p) == permTurn[q] = permTurn[p]

\* The pending permission q is the one an answer to p names.
Matches(q, p) == permTurn[q] = permTurn[p] /\ q = p

\* Mutant: the entry stays in the map until the waiting goroutine deletes it.
BugTake(S) == UNCHANGED pending

\* Entries leave the map in the critical section that decides who settles them.
Take(S) == pending' = pending \ S

\* Mutant: the input request is withdrawn whoever answers.
BugConfirm(c, p, yes) ==
    /\ Ready
    /\ handler[p] \in {"announced", "waiting", "returned"}
    /\ p \in pending
    /\ inputNeeded' = inputNeeded \ {p}
    /\ IF c \in subs
       THEN /\ Take({p})
            /\ approved' = IF yes THEN approved \cup {p} ELSE approved
            /\ jobs' = {Job(p, IF yes THEN "allow" ELSE "deny", "remove")}
            /\ reader' = Settling(0)
       ELSE UNCHANGED <<pending, jobs, reader, approved>>
    /\ UNCHANGED <<sessionVars, response, askVars, event>>

\* resolveToolPermission, critical section.  A client answers a request that
\* was announced to it; only a subscriber of the chat is listened to.
Confirm(c, p, yes) ==
    /\ Ready
    /\ handler[p] \in {"announced", "waiting", "returned"}
    /\ \E q \in pending :
        /\ Matches(q, p)
        /\ IF c \in subs
           THEN /\ Take({q})
                /\ approved' = IF yes THEN approved \cup {p} ELSE approved
                /\ jobs' = {Job(q, IF yes THEN "allow" ELSE "deny", "remove")}
                /\ reader' = Settling(0)
           ELSE UNCHANGED <<pending, jobs, reader, approved>>
    /\ UNCHANGED <<sessionVars, response, inputNeeded, askVars, event>>

\* cancelPermissions, critical section: all of the session's permissions.
CancelPermissions(t) ==
    /\ Take(pending)
    /\ jobs' = {Job(p, "cancel", "remove") : p \in pending}
    /\ reader' = Settling(t)

\* cancelSession, once the SDK has accepted the cancellation.
CancelSession ==
    /\ Ready /\ live
    /\ CancelPermissions(0)
    /\ UNCHANGED <<sessionVars, response, inputNeeded, askVars, event, approved>>

\* A client dispatches chat/turnCancelled for the turn it sees.  (For a turn
\* that is over the handler does what CancelSession does.)
CancelTurn ==
    /\ Ready /\ live
    /\ turn # 0
    /\ CancelPermissions(turn)
    /\ UNCHANGED <<sessionVars, response, inputNeeded, askVars, event, approved>>

\* disposeSession: first the session goes, then its permissions.
DisposeSession ==
    /\ Ready /\ live
    /\ live' = FALSE
    /\ turn' = 0
    /\ inputNeeded' = {}
    /\ reader' = Disposing
    /\ UNCHANGED <<closed, lastTurn, mode, subs, pending, response, askVars, jobs,
                   event, approved>>

\* Mutant: a disposed session's permissions are left to their goroutines.
BugDisposeCancels ==
    /\ reader.at = "disposing"
    /\ reader' = Idle
    /\ UNCHANGED <<sessionVars, pending, jobs, response, inputNeeded, askVars,
                   event, approved>>

DisposeCancels ==
    /\ reader.at = "disposing"
    /\ CancelPermissions(0)
    /\ UNCHANGED <<sessionVars, response, inputNeeded, askVars, event, approved>>

\* Host.Close, after the last connection has ended.
HostClose ==
    /\ Ready
    /\ closed' = TRUE
    /\ CancelPermissions(0)
    /\ UNCHANGED <<live, turn, lastTurn, mode, subs, response, inputNeeded, askVars,
                   event, approved>>

\* One permission after the other: the session's input request is removed, ...
SettleRemove(j) ==
    /\ j \in jobs /\ j.stage = "remove"
    /\ \A k \in jobs : k.stage = "remove"
    /\ inputNeeded' = inputNeeded \ {j.perm}
    /\ jobs' = (jobs \ {j}) \cup {Job(j.perm, j.decision, "send")}
    /\ UNCHANGED <<sessionVars, pending, response, askVars, reader, event, approved>>

\* ... and the decision is sent, which blocks as long as the channel is full.
SettleSend(j) ==
    /\ j \in jobs /\ j.stage = "send"
    /\ response[j.perm] = << >>
    /\ response' = [response EXCEPT ![j.perm] = Append(@, j.decision)]
    /\ jobs' = jobs \ {j}
    /\ UNCHANGED <<sessionVars, pending, inputNeeded, askVars, reader, event,
                   approved>>

\* When all are settled a cancelled turn is ended, if it is still the active one.
SettleDone ==
    /\ reader.at = "settling"
    /\ jobs = {}
    /\ turn' = IF turn = reader.then THEN 0 ELSE turn
    /\ reader' = Idle
    /\ UNCHANGED <<live, closed, lastTurn, mode, subs, pending, response,
                   inputNeeded, askVars, jobs, event, approved>>

-----------------------------------------------------------------------------
(* emitStandardAgentEvent for session.idle or session.error: the active turn is
   looked up first and ended after the lock was released.  A prompt that the SDK
   refuses ends its turn in the same way.                                     *)

ReadActiveTurn ==
    /\ event = 0
    /\ turn # 0
    /\ event' = turn
    /\ UNCHANGED <<sessionVars, pending, response, inputNeeded, askVars, reader,
                   jobs, approved>>

CompleteTurn ==
    /\ event # 0
    /\ turn' = IF turn = event THEN 0 ELSE turn
    /\ event' = 0
    /\ UNCHANGED <<live, closed, lastTurn, mode, subs, pending, response,
                   inputNeeded, askVars, reader, jobs, approved>>

-----------------------------------------------------------------------------
(* Specification *)

AskStep(p) ==
    \/ EmitToolCall(p) \/ EmitInputNeeded(p) \/ ReceiveDecision(p)

ReaderStep ==
    \/ StoreMode \/ DisposeCancels \/ SettleDone
    \/ \E j \in jobs : SettleRemove(j) \/ SettleSend(j)

Next ==
    \/ \E p \in Perms : \/ AskRefused(p) \/ AskGranted(p) \/ AskPends(p)
                        \/ AskStep(p)
    \/ \E c \in Clients : Subscribe(c) \/ Unsubscribe(c)
    \/ \E c \in Clients, p \in Perms, a \in BOOLEAN : Confirm(c, p, a)
    \/ \E m \in Modes : StartTurn(m)
    \/ CancelSession \/ CancelTurn \/ DisposeSession \/ HostClose
    \/ ReaderStep
    \/ ReadActiveTurn \/ CompleteTurn

Spec == Init /\ [][Next]_vars

\* Goroutines that can run do; the SDK need not ask and clients need not act.
FairSpec == Spec /\ WF_vars(ReaderStep) /\ \A p \in Perms : WF_vars(AskStep(p))

-----------------------------------------------------------------------------
(* Properties *)

\* Every variable has the shape of the host's tables and process states, and a
\* handler returns with a decision.
TypeOK ==
    /\ live \in BOOLEAN /\ closed \in BOOLEAN
    /\ turn \in 0..MaxTurns /\ lastTurn \in 0..MaxTurns
    /\ mode \in Modes
    /\ subs \subseteq Clients
    /\ pending \subseteq Perms
    /\ permTurn \in [Perms -> 0..MaxTurns]
    /\ response \in [Perms -> {<< >>} \cup {<<d>> : d \in Decisions}]
    /\ inputNeeded \subseteq Perms
    /\ handler \in [Perms -> {"idle", "registered", "announced", "waiting",
                              "returned"}]
    /\ verdict \in [Perms -> Decisions \cup {"none"}]
    /\ \A p \in Perms : handler[p] = "returned" => verdict[p] \in Decisions
    /\ reader \in [at : {"idle", "starting", "disposing", "settling"},
                   mode : Modes, then : 0..MaxTurns]
    /\ jobs \subseteq Jobs
    /\ event \in 0..MaxTurns
    /\ approved \subseteq Perms

\* The reader never blocks on a decision: nobody decided the same permission
\* before, so its channel still has room.  (A reader stuck in resolveToolPermission
\* or cancelPermissions would stop the host for every client.)
DecidedOnce ==
    \A j \in jobs : response[j.perm] = << >> /\ handler[j.perm] # "returned"

\* A tool runs only if the session's mode grants it or a subscriber of the chat
\* approved this very request, whatever other requests are pending.
OnlyApprovedRuns ==
    \A p \in Perms : verdict[p] = "allow" /\ permTurn[p] # 0 =>
        p \in approved

\* Whoever waits for an answer can be seen waiting: a request that blocks the
\* agent is listed as needed input for as long as nobody has taken it up.
WaitingIsVisible ==
    \A p \in Perms : live /\ handler[p] = "waiting" /\ p \in pending =>
        p \in inputNeeded

\* Disposing of the session releases every goroutine that waits for an answer.
DisposedReleasesAll ==
    \A p \in Perms :
        (~live /\ handler[p] # "idle") ~> handler[p] = "returned"

=============================================================================
