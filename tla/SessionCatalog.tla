--------------------------- MODULE SessionCatalog ---------------------------
(***************************************************************************)
(* The session catalog: the server mirrors the sessions of a workspace's   *)
(* Agent Host in the table session_summaries.  For each connection of the  *)
(* host a watcher opens a logical peer, subscribes to the root channel,    *)
(* lists the sessions, replaces the workspace's rows by the list and then  *)
(* applies the notifications, those buffered since the subscription first. *)
(*                                                                         *)
(* The model has one workspace.  A summary is the version of its session,  *)
(* drawn from one clock.  On the host the reader loop serves the requests  *)
(* of all peers one after the other, and the goroutines of the Agent SDK   *)
(* change sessions next to it; here they are one goroutine, "sdk".  A      *)
(* notification is put together under the lock and sent after it.          *)
(***************************************************************************)
EXTENDS Naturals, Sequences

CONSTANTS
    Sessions,    \* resources; clients draw a fresh one for every session
    MaxChanges,  \* bound on the versions drawn
    MaxConns,    \* bound on the connections of the Agent Host
    MaxRetries,  \* bound on the syncs that fail on a connection that is up
    MaxLag       \* bound on the writes of a watcher whose connection is closed
                 \* while its context is not cancelled yet

ASSUME CatalogAssumption ==
    /\ MaxChanges \in Nat /\ MaxConns \in Nat
    /\ MaxRetries \in Nat /\ MaxLag \in Nat

VARIABLES
    sess,      \* Host.sessions: the version of each session, 0 for none
    clock,     \* versions drawn so far
    born,      \* sessions ever created
    prompted,  \* sessions the Agent SDK has been prompted in
    held,      \* what a goroutine of the host is about to announce
    hostConn,  \* the connection the host serves, 0 for none
    peer,      \* the catalog's peer on the host, 0 for none
    wire,      \* notifications on their way to the watcher of a connection
    current,   \* ahpGateway.hosts: the registered connection, 0 for none
    conns,     \* connections accepted so far
    down,      \* connections whose done channel is closed
    watcher,   \* where the watcher of a connection is, and what it has read
    known,     \* the watcher's map of summaries
    syncs,     \* peers opened by watchers so far
    retries,   \* failed syncs so far
    lag,       \* late writes so far
    rows,      \* session_summaries, 0 for no row
    sent,      \* history: newest version sent to the peer
    overtaken  \* history: sessions whose newest summary was sent before an older

hostVars    == <<sess, clock, born, prompted, held>>
connVars    == <<hostConn, current, conns, down>>
historyVars == <<sent, overtaken>>
vars == <<hostVars, connVars, peer, wire, watcher, known, syncs, retries, lag, rows,
          historyVars>>

-----------------------------------------------------------------------------
(* Vocabulary *)

Conns      == 1..MaxConns
Versions   == 0..MaxChanges
Summaries  == [Sessions -> Versions]
NoSummary  == [s \in Sessions |-> 0]
Goroutines == {"reader", "sdk"}

\* A session that was changed and is to be announced ("dirty"), or a notification
\* ready to be sent to peer "to".
Note(kind, s, v, to) == [kind |-> kind, session |-> s, version |-> v, to |-> to]
Notes == [kind : {"dirty", "removed"}, session : Sessions, version : {0}, to : Nat]
         \cup [kind : {"added", "changed"}, session : Sessions,
               version : 1..MaxChanges, to : Nat]

\* registered -> start -> initialized -> listed -> replacing -> watching <-> applying
At(phase, prev, id, list, event) ==
    [phase |-> phase, prev |-> prev, id |-> id, list |-> list, event |-> event]
Resting(phase) == At(phase, 0, 0, NoSummary, << >>)

Phase(c, phase) == watcher[c].phase = phase
ReaderIdle == hostConn # 0 /\ held["reader"] = << >>

Init ==
    /\ sess = NoSummary
    /\ clock = 0
    /\ born = {}
    /\ prompted = {}
    /\ held = [g \in Goroutines |-> << >>]
    /\ hostConn = 0
    /\ peer = 0
    /\ wire = [c \in Conns |-> << >>]
    /\ current = 0
    /\ conns = 0
    /\ down = {}
    /\ watcher = [c \in Conns |-> Resting("none")]
    /\ known = [c \in Conns |-> NoSummary]
    /\ syncs = 0
    /\ retries = 0
    /\ lag = 0
    /\ rows = NoSummary
    /\ sent = NoSummary
    /\ overtaken = {}

-----------------------------------------------------------------------------
(* The Agent Host's sessions *)

Changes(s) ==
    /\ clock < MaxChanges
    /\ clock' = clock + 1
    /\ sess' = [sess EXCEPT ![s] = clock + 1]

Holds(g, note) == held' = [held EXCEPT ![g] = <<note>>]
Releases(g)    == held' = [held EXCEPT ![g] = << >>]

\* createSession
Create(s) ==
    /\ ReaderIdle
    /\ s \notin born
    /\ Changes(s)
    /\ born' = born \cup {s}
    /\ Holds("reader", Note("added", s, clock + 1, peer))
    /\ UNCHANGED <<prompted, connVars, peer, wire, watcher, known, syncs, retries,
                   lag, rows, historyVars>>

\* disposeSession.  (For a session that is gone it announces the removal again.)
Dispose(s) ==
    /\ ReaderIdle
    /\ sess[s] # 0
    /\ sess' = [sess EXCEPT ![s] = 0]
    /\ prompted' = prompted \ {s}
    /\ Holds("reader", Note("removed", s, 0, peer))
    /\ UNCHANGED <<clock, born, connVars, peer, wire, watcher, known,
                   syncs, retries, lag, rows, historyVars>>

\* A dispatched action that changes the summary: a title, a turn started or
\* a confirmation.
Dispatch(s) ==
    /\ ReaderIdle
    /\ sess[s] # 0
    /\ Changes(s)
    /\ prompted' \in {prompted, prompted \cup {s}}
    /\ Holds("reader", Note("dirty", s, 0, 0))
    /\ UNCHANGED <<born, connVars, peer, wire, watcher, known, syncs, retries, lag,
                   rows, historyVars>>

\* An event of the Agent SDK in a session with a turn.
AgentEvent(s) ==
    /\ held["sdk"] = << >>
    /\ sess[s] # 0 /\ s \in prompted
    /\ Changes(s)
    /\ Holds("sdk", Note("dirty", s, 0, 0))
    /\ UNCHANGED <<born, prompted, connVars, peer, wire, watcher, known, syncs,
                   retries, lag, rows, historyVars>>

\* emitSessionSummaryChanged, under the lock: the summary and who gets it.
Summarise(g) ==
    /\ held[g] # << >> /\ held[g][1].kind = "dirty"
    /\ LET s == held[g][1].session IN
        IF sess[s] = 0 THEN Releases(g)
        ELSE Holds(g, Note("changed", s, sess[s], peer))
    /\ UNCHANGED <<sess, clock, born, prompted, connVars, peer, wire, watcher, known,
                   syncs, retries, lag, rows, historyVars>>

\* The notification is sent.  One for a peer that is gone reaches nobody.
Emit(g) ==
    /\ held[g] # << >> /\ held[g][1].kind # "dirty"
    /\ Releases(g)
    /\ LET n == held[g][1]
           delivered == n.to # 0 /\ n.to = peer
           late == n.kind = "changed" /\ n.version < sent[n.session]
       IN IF delivered
          THEN /\ wire' = [wire EXCEPT ![hostConn] = Append(@, n)]
               /\ sent' = IF late THEN sent
                          ELSE [sent EXCEPT ![n.session] = n.version]
               /\ overtaken' = IF late THEN overtaken \cup {n.session}
                               ELSE overtaken \ {n.session}
          ELSE UNCHANGED <<wire, historyVars>>
    /\ UNCHANGED <<sess, clock, born, prompted, connVars, peer, watcher, known,
                   syncs, retries, lag, rows>>

-----------------------------------------------------------------------------
(* Connections *)

\* The host dials again once its last connection is gone; the server registers
\* the connection in place of an older one.
Register(c) ==
    /\ hostConn = 0
    /\ c = conns + 1
    /\ conns' = c
    /\ hostConn' = c
    /\ current' = c
    /\ watcher' = [watcher EXCEPT ![c] = At("registered", current, 0, NoSummary, << >>)]
    /\ UNCHANGED <<hostVars, down, peer, wire, known, syncs, retries, lag,
                   rows, historyVars>>

\* Mutant: the watcher does not wait for the older connection to be closed.
BugClosePrevious(c) ==
    /\ Phase(c, "registered")
    /\ watcher' = [watcher EXCEPT ![c] = Resting("start")]
    /\ UNCHANGED <<hostVars, hostConn, current, conns, down, peer, wire,
                   known, syncs, retries, lag, rows, historyVars>>

\* The older connection is closed, and only then the new one is watched.
ClosePrevious(c) ==
    /\ Phase(c, "registered")
    /\ down' = down \cup ({watcher[c].prev} \ {0})
    /\ watcher' = [watcher EXCEPT ![c] = Resting("start")]
    /\ UNCHANGED <<hostVars, hostConn, current, conns, peer, wire, known,
                   syncs, retries, lag, rows, historyVars>>

\* The server's read fails: readHost closes the connection, ...
ConnLost(c) ==
    /\ c <= conns /\ c \notin down
    /\ down' = down \cup {c}
    /\ UNCHANGED <<hostVars, hostConn, current, conns, peer, wire, watcher,
                   known, syncs, retries, lag, rows, historyVars>>

\* ... and agentHostAHP unregisters it, unless a newer one has taken its place.
Unregister(c) ==
    /\ c \in down /\ current = c
    /\ current' = 0
    /\ UNCHANGED <<hostVars, hostConn, conns, down, peer, wire, watcher,
                   known, syncs, retries, lag, rows, historyVars>>

\* ahpGateway.disconnect, when the workspace stops.  No host is admitted again
\* before the connection has been closed.
Disconnect ==
    /\ current # 0
    /\ current' = 0
    /\ down' = down \cup {current}
    /\ UNCHANGED <<hostVars, hostConn, conns, peer, wire, watcher, known,
                   syncs, retries, lag, rows, historyVars>>

PeerGone ==
    /\ peer' = 0
    /\ sent' = NoSummary
    /\ overtaken' = {}

\* The host's read fails and its reader removes all peers.
HostDrops ==
    /\ ReaderIdle
    /\ hostConn' = 0
    /\ PeerGone
    /\ UNCHANGED <<hostVars, current, conns, down, wire, watcher, known, syncs,
                   retries, lag, rows>>

\* The host process ends.  Its sessions are kept in memory only.
HostCrash ==
    /\ born # {}
    /\ sess' = NoSummary
    /\ prompted' = {}
    /\ held' = [g \in Goroutines |-> << >>]
    /\ hostConn' = 0
    /\ PeerGone
    /\ UNCHANGED <<clock, born, current, conns, down, wire, watcher, known, syncs,
                   retries, lag, rows>>

-----------------------------------------------------------------------------
(* The watcher of a connection *)

\* A new peer is opened and initialize subscribes it to the root channel.
Initialize(c) ==
    /\ Phase(c, "start")
    /\ current = c /\ c \notin down
    /\ hostConn = c /\ ReaderIdle
    /\ syncs' = syncs + 1
    /\ peer' = syncs + 1
    /\ watcher' = [watcher EXCEPT ![c] =
                        At("initialized", 0, syncs + 1, NoSummary, << >>)]
    /\ wire' = [wire EXCEPT ![c] = << >>]
    /\ sent' = NoSummary
    /\ overtaken' = {}
    /\ UNCHANGED <<hostVars, connVars, known, retries, lag, rows>>

\* listSessions is answered.
ListSessions(c) ==
    /\ Phase(c, "initialized")
    /\ hostConn = c /\ ReaderIdle
    /\ peer = watcher[c].id
    /\ watcher' = [watcher EXCEPT ![c] =
                        At("listed", 0, watcher[c].id, sess, << >>)]
    /\ UNCHANGED <<hostVars, connVars, peer, wire, known, syncs, retries, lag, rows,
                   historyVars>>

\* isCurrent, before the rows are replaced.
CheckCurrent(c) ==
    /\ Phase(c, "listed")
    /\ current = c
    /\ watcher' = [watcher EXCEPT ![c].phase = "replacing"]
    /\ UNCHANGED <<hostVars, connVars, peer, wire, known, syncs, retries, lag, rows,
                   historyVars>>

\* The goroutine beside the watcher cancels its context when the connection is
\* closed, and the database refuses to work for a cancelled context.  A write may
\* slip through before the cancellation.
MayWrite(c) ==
    /\ c \in down => lag < MaxLag
    /\ lag' = IF c \in down THEN lag + 1 ELSE lag

\* Mutant: the database transaction ignores the context.
BugReplace(c) ==
    /\ Phase(c, "replacing")
    /\ rows' = watcher[c].list
    /\ known' = [known EXCEPT ![c] = watcher[c].list]
    /\ watcher' = [watcher EXCEPT ![c] =
                        At("watching", 0, watcher[c].id, NoSummary, << >>)]
    /\ UNCHANGED <<hostVars, connVars, peer, wire, syncs, retries, lag, historyVars>>

\* ReplaceWorkspace: one transaction that stores the list and deletes the rest.
Replace(c) ==
    /\ Phase(c, "replacing")
    /\ MayWrite(c)
    /\ rows' = watcher[c].list
    /\ known' = [known EXCEPT ![c] = watcher[c].list]
    /\ watcher' = [watcher EXCEPT ![c] =
                        At("watching", 0, watcher[c].id, NoSummary, << >>)]
    /\ UNCHANGED <<hostVars, connVars, peer, wire, syncs, retries, historyVars>>

\* The next notification, and isCurrent before it is applied.
TakeEvent(c) ==
    /\ Phase(c, "watching")
    /\ wire[c] # << >>
    /\ current = c
    /\ wire' = [wire EXCEPT ![c] = Tail(@)]
    /\ watcher' = [watcher EXCEPT ![c] =
            At("applying", 0, watcher[c].id, NoSummary, <<Head(wire[c])>>)]
    /\ UNCHANGED <<hostVars, connVars, peer, known, syncs, retries, lag, rows,
                   historyVars>>

\* A change of a session that is not known is none.
Ignored(c, n) == n.kind = "changed" /\ known[c][n.session] = 0

\* applyCatalogEvent: Upsert or Remove.
Apply(c) ==
    /\ Phase(c, "applying")
    /\ LET n == watcher[c].event[1] IN
        \/ Ignored(c, n) /\ UNCHANGED <<known, rows, lag>>
        \/ /\ ~Ignored(c, n)
           /\ MayWrite(c)
           /\ known' = [known EXCEPT ![c][n.session] = n.version]
           /\ rows' = [rows EXCEPT ![n.session] = n.version]
    /\ watcher' = [watcher EXCEPT ![c] =
                        At("watching", 0, watcher[c].id, NoSummary, << >>)]
    /\ UNCHANGED <<hostVars, connVars, peer, wire, syncs, retries, historyVars>>

Syncing == {"initialized", "replacing", "watching", "applying"}

\* Mutant: a failed sync is not repeated.
BugSyncFails(c) ==
    /\ watcher[c].phase \in Syncing
    /\ retries < MaxRetries
    /\ retries' = retries + 1
    /\ watcher' = [watcher EXCEPT ![c] = Resting("ended")]
    /\ wire' = [wire EXCEPT ![c] = << >>]
    /\ known' = [known EXCEPT ![c] = NoSummary]
    /\ IF hostConn = c THEN PeerGone ELSE UNCHANGED <<peer, historyVars>>
    /\ UNCHANGED <<hostVars, connVars, syncs, lag, rows>>

\* The stream is closed, or a request or a write fails, on a connection that
\* stays: the sync starts again after a second with a new peer.
SyncFails(c) ==
    /\ watcher[c].phase \in Syncing
    /\ retries < MaxRetries
    /\ retries' = retries + 1
    /\ watcher' = [watcher EXCEPT ![c] = Resting("start")]
    /\ wire' = [wire EXCEPT ![c] = << >>]
    /\ known' = [known EXCEPT ![c] = NoSummary]
    /\ IF hostConn = c THEN PeerGone ELSE UNCHANGED <<peer, historyVars>>
    /\ UNCHANGED <<hostVars, connVars, syncs, lag, rows>>

\* The context is cancelled, or one of the calls of isCurrent finds the connection
\* replaced.
WatchEnds(c) ==
    /\ \/ c \in down /\ watcher[c].phase \notin {"none", "registered", "ended"}
       \/ /\ current # c
          /\ \/ watcher[c].phase \in {"start", "listed"}
             \/ Phase(c, "watching") /\ wire[c] # << >>
    /\ watcher' = [watcher EXCEPT ![c] = Resting("ended")]
    /\ wire' = [wire EXCEPT ![c] = << >>]
    /\ known' = [known EXCEPT ![c] = NoSummary]
    /\ UNCHANGED <<hostVars, connVars, peer, syncs, retries, lag, rows, historyVars>>

-----------------------------------------------------------------------------
(* Specification *)

AnnounceStep(g) == Summarise(g) \/ Emit(g)

WatchStep(c) ==
    \/ ClosePrevious(c) \/ Initialize(c) \/ ListSessions(c) \/ CheckCurrent(c)
    \/ Replace(c) \/ TakeEvent(c) \/ Apply(c) \/ WatchEnds(c)

Next ==
    \/ \E s \in Sessions : Create(s) \/ Dispose(s) \/ Dispatch(s) \/ AgentEvent(s)
    \/ \E g \in Goroutines : AnnounceStep(g)
    \/ \E c \in Conns : \/ Register(c) \/ ConnLost(c) \/ Unregister(c)
                        \/ WatchStep(c) \/ SyncFails(c)
    \/ Disconnect \/ HostDrops \/ HostCrash

Spec == Init /\ [][Next]_vars

\* Goroutines that can run do, and both ends of a closed socket notice; nobody
\* has to use a session, and nothing has to fail.
FairSpec ==
    /\ Spec
    /\ \A g \in Goroutines : WF_vars(AnnounceStep(g))
    /\ \A c \in Conns : WF_vars(WatchStep(c)) /\ WF_vars(Unregister(c))
    /\ WF_vars(hostConn \in down /\ HostDrops)

-----------------------------------------------------------------------------
(* Properties *)

\* Every variable has the shape of the tables, queues and process states, and an
\* announced session has a version.
TypeOK ==
    /\ sess \in Summaries /\ rows \in Summaries /\ sent \in Summaries
    /\ clock \in Versions
    /\ born \subseteq Sessions /\ prompted \subseteq born
    /\ \A g \in Goroutines : held[g] = << >> \/ held[g][1] \in Notes
    /\ \A c \in Conns : \A i \in 1..Len(wire[c]) : wire[c][i] \in Notes
    /\ hostConn \in 0..conns /\ current \in 0..conns /\ conns \in 0..MaxConns
    /\ down \subseteq 1..conns
    /\ peer \in 0..syncs
    /\ \A c \in Conns : /\ watcher[c].list \in Summaries
                        /\ watcher[c].id \in 0..syncs
                        /\ known[c] \in Summaries
    /\ overtaken \subseteq Sessions

\* Connection c is up at both ends.
Up(c) == c # 0 /\ c = current /\ c = hostConn /\ c \notin down

\* Nothing is on its way from the host to the catalog.
Quiet(c) ==
    /\ Up(c) /\ Phase(c, "watching")
    /\ peer = watcher[c].id /\ wire[c] = << >>
    /\ \A g \in Goroutines : held[g] = << >>

\* Whenever nothing is on its way the rows are the host's sessions: what happened
\* before, between and after the subscription, the list and the replacement is
\* neither lost nor applied twice, the watcher of an older connection does not
\* interfere, and the only summaries that may be out of date are those the host
\* itself sent in the wrong order.
QuietMirrors ==
    \A c \in Conns : Quiet(c) =>
        \A s \in Sessions \ overtaken : rows[s] = sess[s]

\* A session that is alive is never dropped from the catalog, whatever connections
\* are lost, replaced and listed again: offline sessions stay listed.
AliveStaysListed ==
    [][\A s \in Sessions : rows[s] # 0 /\ rows'[s] = 0 => sess[s] = 0]_vars

\* After a host has connected, and after each failed sync, the catalog catches up
\* with the host.
CatalogCatchesUp ==
    <>[](\A c \in Conns : Up(c) =>
            \A s \in Sessions \ overtaken : rows[s] = sess[s])

=============================================================================
