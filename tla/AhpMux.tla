------------------------------- MODULE AhpMux -------------------------------
(***************************************************************************)
(* The multiplexer that carries AHP between workbench windows and one      *)
(* Agent Host over one physical WebSocket: the server's host connection    *)
(* (ahp.go) on one side, the Agent Host's peer table (mux.go, host.go) on  *)
(* the other.  The model covers one connection from registration to        *)
(* teardown; a reconnect starts again with fresh tables and numbers.       *)
(*                                                                         *)
(* The server's write queue and the wire are one FIFO queue, and so are    *)
(* the Agent Host's outgoing queue and the wire: a queue is full when as   *)
(* many frames as its capacity are on their way.  Payloads are numbers,    *)
(* counted per stream in the order the peer emits them.                    *)
(***************************************************************************)
EXTENDS Naturals, Sequences, FiniteSets

CONSTANTS
    MaxStreams,   \* streams ever opened on the connection
    ServerLimit,  \* maxAHPStreams
    PeerLimit,    \* maxLogicalPeers
    WriteQueue,   \* ahpHostWriteQueue, the server's queue towards the host
    RecvQueue,    \* ahpStreamQueueSize, one stream's queue towards its client
    OutQueue,     \* the Agent Host's outgoing queue
    MaxData       \* bound on the messages in each direction of a stream

ASSUME MuxAssumption ==
    /\ MaxStreams \in Nat /\ ServerLimit \in Nat /\ PeerLimit \in Nat
    /\ WriteQueue \in Nat /\ RecvQueue \in Nat /\ OutQueue \in Nat
    /\ MaxData \in Nat
    /\ ServerLimit <= PeerLimit

VARIABLES
    conn,       \* server side of the connection: "up", "closing", "swept"
    hostUp,     \* the Agent Host's reader loop is running
    nextStream, \* stream numbers handed out so far
    caller,     \* where the goroutine that opened a stream is
    table,      \* ahpHostConnection.streams
    done,       \* streams whose done channel is closed
    opened,     \* the buffered answer to the open frame
    rx,         \* frames queued for the client of a stream
    got,        \* messages the client of a stream has received
    asked,      \* messages the client of a stream has sent
    toHost,     \* frames on their way to the Agent Host
    fromHost,   \* frames on their way to the server
    peers,      \* logical peers of the Agent Host
    emitted,    \* messages each peer has emitted
    closing,    \* closed streams whose close frame is yet to be sent
    closeLost   \* closed streams whose close frame found the queue full

serverVars == <<conn, nextStream, caller, table, done, opened, rx, got, asked,
                closing, closeLost>>
hostVars   == <<hostUp, peers, emitted>>
vars       == <<serverVars, hostVars, toHost, fromHost>>

-----------------------------------------------------------------------------
(* Vocabulary *)

Streams == 1..MaxStreams
Frame(type, s, n) == [type |-> type, id |-> s, n |-> n]
Frames == [type : {"open", "opened", "data", "close"}, id : Streams,
           n : 0..(2 * MaxData)]

\* none -> sending -> waiting -> proxying -> draining -> ended: openStream
\* before and after it has sent the open frame, proxyAHP, the forwarder that
\* outlives it for a moment, and the end.
Callers == {"none", "sending", "waiting", "proxying", "draining", "ended"}

Init ==
    /\ conn = "up"
    /\ hostUp = TRUE
    /\ nextStream = 0
    /\ caller = [s \in Streams |-> "none"]
    /\ table = {}
    /\ done = {}
    /\ opened = [s \in Streams |-> "empty"]
    /\ rx = [s \in Streams |-> << >>]
    /\ got = [s \in Streams |-> << >>]
    /\ asked = [s \in Streams |-> 0]
    /\ toHost = << >>
    /\ fromHost = << >>
    /\ peers = {}
    /\ emitted = [s \in Streams |-> 0]
    /\ closing = {}
    /\ closeLost = {}

\* ahpHostConnection.send: a full queue is an error.  Once done is closed the
\* frame may still be put into a queue that nobody reads any more.
HasRoom == Len(toHost) < WriteQueue
SendFails == ~HasRoom \/ conn # "up"
Send(f) == toHost' = IF conn = "up" THEN Append(toHost, f) ELSE toHost

\* ahpStream.close, first half, once per stream: the stream leaves the table
\* and its done channel is closed.
CloseStream(s) ==
    IF s \in done
    THEN UNCHANGED <<table, done, closing>>
    ELSE /\ table' = table \ {s}
         /\ done' = done \cup {s}
         /\ closing' = closing \cup {s}

\* Second half, after the lock is released: the host is told, and an error of
\* send is ignored.
SendClose(s) ==
    /\ s \in closing
    /\ closing' = closing \ {s}
    /\ \/ /\ HasRoom
          /\ Send(Frame("close", s, 0))
          /\ UNCHANGED closeLost
       \/ /\ SendFails
          /\ closeLost' = closeLost \cup {s}
          /\ UNCHANGED toHost
    /\ UNCHANGED <<conn, nextStream, caller, table, done, opened, rx, got, asked,
                   hostVars, fromHost>>

\* ahpStream.remoteClose of every stream in S: nothing is sent, and a caller
\* still waiting for the open frame's answer gets an error.
RemoteClose(S) ==
    /\ table' = table \ S
    /\ done' = done \cup S
    /\ opened' = [s \in Streams |->
                    IF s \in S \ done /\ opened[s] = "empty" THEN "error"
                    ELSE opened[s]]

Moves(s, place) == caller' = [caller EXCEPT ![s] = place]

-----------------------------------------------------------------------------
(* openStream *)

\* Reserve a number and a place in the table, under the lock.  The caller
\* looked the host up before, so the connection may be down already.
Reserve(s) ==
    /\ s = nextStream + 1
    /\ Cardinality(table) < ServerLimit
    /\ nextStream' = s
    /\ table' = table \cup {s}
    /\ Moves(s, "sending")
    /\ UNCHANGED <<conn, done, opened, rx, got, asked, closing, closeLost, hostVars,
                   toHost, fromHost>>

\* The open frame is queued.
SendOpen(s) ==
    /\ caller[s] = "sending"
    /\ HasRoom
    /\ Send(Frame("open", s, 0))
    /\ Moves(s, "waiting")
    /\ UNCHANGED <<conn, nextStream, table, done, opened, rx, got, asked,
                   closing, closeLost, hostVars, fromHost>>

\* The open frame cannot be queued: the stream is given up.
SendOpenFails(s) ==
    /\ caller[s] = "sending"
    /\ SendFails
    /\ RemoteClose({s})
    /\ Moves(s, "ended")
    /\ UNCHANGED <<conn, nextStream, rx, got, asked, closing, closeLost, hostVars,
                   toHost, fromHost>>

\* The answer arrives.
Opened(s) ==
    /\ caller[s] = "waiting"
    /\ opened[s] = "ok"
    /\ opened' = [opened EXCEPT ![s] = "empty"]
    /\ Moves(s, "proxying")
    /\ UNCHANGED <<conn, nextStream, table, done, rx, got, asked, closing, closeLost,
                   hostVars, toHost, fromHost>>

\* The answer is an error; remoteClose has run or runs now.
OpenRefused(s) ==
    /\ caller[s] = "waiting"
    /\ opened[s] = "error"
    /\ RemoteClose({s})
    /\ Moves(s, "ended")
    /\ UNCHANGED <<conn, nextStream, rx, got, asked, closing, closeLost, hostVars,
                   toHost, fromHost>>

\* Mutant: the stream is forgotten without telling the Agent Host.
BugOpenTimeout(s) ==
    /\ caller[s] = "waiting"
    /\ RemoteClose({s})
    /\ Moves(s, "ended")
    /\ UNCHANGED <<conn, nextStream, rx, got, asked, closing, closeLost, hostVars,
                   toHost, fromHost>>

\* Three seconds pass, or the client goes away: the stream is closed.
OpenTimeout(s) ==
    /\ caller[s] = "waiting"
    /\ CloseStream(s)
    /\ Moves(s, "ended")
    /\ UNCHANGED <<conn, nextStream, opened, rx, got, asked, closeLost, hostVars,
                   toHost, fromHost>>

\* The host connection went down while waiting; the stream is left as it is.
OpenHostDown(s) ==
    /\ caller[s] = "waiting"
    /\ conn # "up"
    /\ Moves(s, "ended")
    /\ UNCHANGED <<conn, nextStream, table, done, opened, rx, got, asked,
                   closing, closeLost, hostVars, toHost, fromHost>>

-----------------------------------------------------------------------------
(* proxyAHP and forwardClientFrames *)

\* A queued frame is written to the client.
Deliver(s) ==
    /\ caller[s] = "proxying"
    /\ rx[s] # << >>
    /\ got' = [got EXCEPT ![s] = Append(@, Head(rx[s]))]
    /\ rx' = [rx EXCEPT ![s] = Tail(@)]
    /\ UNCHANGED <<conn, nextStream, caller, table, done, opened, asked,
                   closing, closeLost, hostVars, toHost, fromHost>>

\* proxyAHP returns because the stream is done, and workspaceAHP closes it.
ProxyEnds(s) ==
    /\ caller[s] = "proxying"
    /\ s \in done
    /\ Moves(s, "draining")
    /\ UNCHANGED <<conn, nextStream, table, done, opened, rx, got, asked,
                   closing, closeLost, hostVars, toHost, fromHost>>

\* The client disconnects, or a write to it fails.
ClientGone(s) ==
    /\ caller[s] = "proxying"
    /\ CloseStream(s)
    /\ Moves(s, "draining")
    /\ UNCHANGED <<conn, nextStream, opened, rx, got, asked, closeLost, hostVars,
                   toHost, fromHost>>

\* A message of the client is queued for the Agent Host.
Forward(s) ==
    /\ caller[s] \in {"proxying", "draining"}
    /\ asked[s] < MaxData
    /\ HasRoom
    /\ asked' = [asked EXCEPT ![s] = @ + 1]
    /\ Send(Frame("data", s, asked[s] + 1))
    /\ UNCHANGED <<conn, nextStream, caller, table, done, opened, rx, got,
                   closing, closeLost, hostVars, fromHost>>

\* The message cannot be queued: the stream is closed.
ForwardFails(s) ==
    /\ caller[s] \in {"proxying", "draining"}
    /\ asked[s] < MaxData
    /\ SendFails
    /\ asked' = [asked EXCEPT ![s] = MaxData]
    /\ CloseStream(s)
    /\ UNCHANGED <<conn, nextStream, caller, opened, rx, got, closeLost, hostVars,
                   toHost, fromHost>>

\* The forwarder notices that its client is gone.
ForwarderEnds(s) ==
    /\ caller[s] = "draining"
    /\ Moves(s, "ended")
    /\ UNCHANGED <<conn, nextStream, table, done, opened, rx, got, asked,
                   closing, closeLost, hostVars, toHost, fromHost>>

-----------------------------------------------------------------------------
(* The server's reader: routeFrame *)

RouteOpened(s) ==
    /\ opened' = [opened EXCEPT ![s] = IF @ = "empty" THEN "ok" ELSE @]
    /\ UNCHANGED <<table, done, rx, closing>>

\* Mutant: a full queue makes room by dropping its oldest frame.
BugRouteData(s, n) ==
    /\ rx' = [rx EXCEPT ![s] = Append(IF Len(@) < RecvQueue THEN @ ELSE Tail(@), n)]
    /\ UNCHANGED <<table, done, opened, closing>>

\* A full receive queue closes the stream.
RouteData(s, n) ==
    IF Len(rx[s]) < RecvQueue
    THEN /\ rx' = [rx EXCEPT ![s] = Append(@, n)]
         /\ UNCHANGED <<table, done, opened, closing>>
    ELSE CloseStream(s) /\ UNCHANGED <<opened, rx>>

\* readHost takes the next frame; a stream not in the table is ignored.  Frames
\* that were received before the socket was closed are still routed.
RouteFrame ==
    /\ conn \in {"up", "closing"}
    /\ fromHost # << >>
    /\ LET f == Head(fromHost) IN
        \/ f.id \notin table /\ UNCHANGED <<table, done, opened, rx, closing>>
        \/ f.id \in table /\ f.type = "opened" /\ RouteOpened(f.id)
        \/ f.id \in table /\ f.type = "data"   /\ RouteData(f.id, f.n)
        \/ /\ f.id \in table /\ f.type = "close"
           /\ RemoteClose({f.id})
           /\ UNCHANGED <<rx, closing>>
    /\ fromHost' = Tail(fromHost)
    /\ UNCHANGED <<conn, nextStream, caller, got, asked, closeLost, hostVars,
                   toHost>>

-----------------------------------------------------------------------------
(* The end of the connection *)

\* ahpHostConnection.close, first half: done is closed and the socket too.
\* The host was lost, replaced by a newer connection, or disconnected.
CloseBegins ==
    /\ conn = "up"
    /\ conn' = "closing"
    /\ UNCHANGED <<nextStream, caller, table, done, opened, rx, got, asked,
                   closing, closeLost, hostVars, toHost, fromHost>>

\* Mutant: the table is dropped, the streams in it are not.
BugCloseSweeps ==
    /\ conn = "closing"
    /\ conn' = "swept"
    /\ table' = {}
    /\ UNCHANGED <<nextStream, caller, done, opened, rx, got, asked, closing, closeLost,
                   hostVars, toHost, fromHost>>

\* Second half: take the streams out of the table and close each of them.
CloseSweeps ==
    /\ conn = "closing"
    /\ conn' = "swept"
    /\ RemoteClose(table)
    /\ UNCHANGED <<nextStream, caller, rx, got, asked, closing, closeLost, hostVars,
                   toHost, fromHost>>

\* The Agent Host's read fails and connectAndServe unwinds: all peers go.
HostTeardown ==
    /\ hostUp
    /\ hostUp' = FALSE
    /\ peers' = {}
    /\ UNCHANGED <<serverVars, emitted, toHost, fromHost>>

-----------------------------------------------------------------------------
(* The Agent Host *)

\* Mutant: the direct peer counts against the limit.
BugPeerLimitReached == Cardinality(peers) + 1 >= PeerLimit

\* addMuxPeer: the direct peer is in the table too and does not count.
PeerLimitReached == Cardinality(peers) >= PeerLimit

\* enqueue: a full outgoing queue drops the frame, and nobody is told.
Enqueue(f) ==
    fromHost' = IF Len(fromHost) < OutQueue THEN Append(fromHost, f) ELSE fromHost

AddMuxPeer(s) ==
    /\ UNCHANGED emitted
    /\ IF s \in peers \/ PeerLimitReached
       THEN Enqueue(Frame("close", s, 0)) /\ UNCHANGED peers
       ELSE Enqueue(Frame("opened", s, 0)) /\ peers' = peers \cup {s}

\* The next message of peer s.
Emit(s) ==
    /\ emitted' = [emitted EXCEPT ![s] = @ + 1]
    /\ Enqueue(Frame("data", s, emitted[s] + 1))

\* handleMuxFrame on the next frame of the wire.  A request is answered with a
\* message (a notification that follows it is a HostEmits), a notification with
\* none, and data for a stream that is not open with a close frame.
HandleMuxFrame ==
    /\ hostUp
    /\ toHost # << >>
    /\ LET f == Head(toHost) IN
        \/ f.type = "open" /\ AddMuxPeer(f.id)
        \/ /\ f.type = "data" /\ f.id \notin peers
           /\ Enqueue(Frame("close", f.id, 0))
           /\ UNCHANGED <<peers, emitted>>
        \/ f.type = "data" /\ f.id \in peers /\ Emit(f.id) /\ UNCHANGED peers
        \/ /\ f.type = "data" /\ f.id \in peers
           /\ UNCHANGED <<peers, emitted, fromHost>>
        \/ /\ f.type = "close" /\ peers' = peers \ {f.id}
           /\ UNCHANGED <<emitted, fromHost>>
    /\ toHost' = Tail(toHost)
    /\ UNCHANGED <<serverVars, hostUp>>

\* An agent event is emitted to a subscribed peer.  (One emitted to a peer that
\* has just been removed finds no stream on the server.)
HostEmits(s) ==
    /\ hostUp
    /\ s \in peers
    /\ emitted[s] < MaxData
    /\ Emit(s)
    /\ UNCHANGED <<serverVars, hostUp, peers, toHost>>

-----------------------------------------------------------------------------
(* Specification *)

OpenStep(s) ==
    \/ SendOpen(s) \/ SendOpenFails(s) \/ Opened(s) \/ OpenRefused(s)
    \/ OpenTimeout(s) \/ OpenHostDown(s)

ProxyStep(s) == ProxyEnds(s) \/ ForwarderEnds(s)

Next ==
    \/ \E s \in Streams : Reserve(s) \/ OpenStep(s) \/ ProxyStep(s)
    \/ \E s \in Streams : \/ Deliver(s) \/ ClientGone(s) \/ SendClose(s)
                          \/ Forward(s) \/ ForwardFails(s) \/ HostEmits(s)
    \/ RouteFrame \/ CloseBegins \/ CloseSweeps
    \/ HandleMuxFrame \/ HostTeardown

Spec == Init /\ [][Next]_vars

\* Goroutines that can run do, openStream has its timer, and the read of a
\* socket the server has closed fails; nobody is obliged to disconnect, to send
\* or to break the connection.
Fairness ==
    /\ \A s \in Streams : /\ WF_vars(OpenStep(s)) /\ WF_vars(ProxyStep(s))
                          /\ WF_vars(SendClose(s))
    /\ WF_vars(CloseSweeps)
    /\ WF_vars(HandleMuxFrame)
    /\ WF_vars(conn # "up" /\ HostTeardown)

FairSpec == Spec /\ Fairness

-----------------------------------------------------------------------------
(* Properties *)

\* Every variable has the shape of the queues, tables and process states.
TypeOK ==
    /\ conn \in {"up", "closing", "swept"}
    /\ hostUp \in BOOLEAN
    /\ nextStream \in 0..MaxStreams
    /\ caller \in [Streams -> Callers]
    /\ table \subseteq Streams
    /\ done \subseteq Streams
    /\ opened \in [Streams -> {"empty", "ok", "error"}]
    /\ \A s \in Streams : rx[s] \in Seq(1..(2 * MaxData)) /\ Len(rx[s]) <= RecvQueue
    /\ \A s \in Streams : got[s] \in Seq(1..(2 * MaxData))
    /\ asked \in [Streams -> 0..MaxData]
    /\ toHost \in Seq(Frames) /\ Len(toHost) <= WriteQueue
    /\ fromHost \in Seq(Frames) /\ Len(fromHost) <= OutQueue
    /\ peers \subseteq Streams
    /\ emitted \in [Streams -> 0..(2 * MaxData)]
    /\ closing \subseteq done /\ closeLost \subseteq done

\* What the client of a stream receives are the messages its peer emitted,
\* from the first on, in order and without a gap: a stream that cannot keep up
\* is closed (routeFrame), never thinned out.
ReliableDelivery ==
    \A s \in Streams : \A i \in 1..Len(got[s]) : got[s][i] = i

\* The frame that ends peer s is on its way, yet to be sent, or was lost.
EndsSoon(s) ==
    \/ s \in closing \cup closeLost
    \/ \E i \in 1..Len(toHost) : toHost[i] = Frame("close", s, 0)

\* The Agent Host turns down a stream that the server admitted under its own
\* limit only for peers that are already over: the server frees a place before
\* it sends the close frame (ahpStream.close), so the new stream's open frame
\* may overtake it, and this is the only way the two limits can disagree.  No
\* stream number is ever seen twice.
RefusedOnlyForEnding ==
    conn = "up" /\ hostUp /\ toHost # << >> /\ Head(toHost).type = "open" =>
        /\ Head(toHost).id \notin peers
        /\ PeerLimitReached => \E s \in peers : EndsSoon(s)

\* Every logical peer belongs to a stream the server still has, or is about to
\* end: no path (timeout, overflow, failed write, disconnect) leaves a peer
\* behind on a connection that is up.
NoOrphanPeer ==
    conn = "up" => \A s \in peers : s \in table \/ EndsSoon(s)

\* The loss of the Agent Host reaches every caller: whoever is opening a stream
\* or attached to one is let go.
DownReleasesCallers ==
    \A s \in Streams :
        (conn # "up" /\ caller[s] # "none") ~> caller[s] = "ended"

\* A logical peer whose stream is over on the server (closed by timeout, by
\* overflow or by its client) goes away on the Agent Host too, unless the close
\* frame was lost to a full write queue on a connection that stays up.
EndedPeersReleased ==
    \A s \in Streams :
        (s \in peers \cap done)
            ~> (s \notin peers \/ (s \in closeLost /\ conn = "up"))

=============================================================================
