------------------------ MODULE SessionCatalogProofs ------------------------
(***************************************************************************)
(* SessionCatalog for every number of sessions, changes, connections and   *)
(* failed syncs: an inductive invariant and what follows from it, as long  *)
(* as the watcher of a closed connection stops in time (no late writes,    *)
(* and a connection has closed its predecessor before the next registers). *)
(***************************************************************************)
EXTENDS SessionCatalog, SequenceTheorems, TLAPS

Prompt == MaxLag = 0

\* A connection closes the one it replaced before it is replaced itself.
ClosesFirst ==
    \A c \in Conns : Phase(c, "registered") /\ watcher[c].prev # 0 => c = conns

-----------------------------------------------------------------------------
(* The inductive invariant *)

Synced   == {"initialized", "listed", "replacing", "watching", "applying"}
Phases   == {"none", "registered", "start", "ended"} \cup Synced
Boxes    == {b \in Seq(Notes) : Len(b) <= 1}
Watchers == [phase : Phases, prev : Nat, id : Nat, list : Summaries, event : Boxes]

Types ==
    /\ sess \in Summaries /\ rows \in Summaries /\ sent \in Summaries
    /\ clock \in Versions /\ syncs \in Nat /\ peer \in Nat /\ lag \in Nat
    /\ prompted \subseteq born /\ born \subseteq Sessions /\ overtaken \subseteq Sessions
    /\ held \in [Goroutines -> Boxes]
    /\ wire \in [Conns -> Seq(Notes)]
    /\ watcher \in [Conns -> Watchers]
    /\ known \in [Conns -> Summaries]
    /\ conns \in 0..MaxConns /\ hostConn \in Nat /\ current \in Nat /\ down \subseteq 1..conns

\* A watcher with a peer is past its initialization; one note at a time is applied.
Shapes ==
    \A c \in Conns :
        /\ watcher[c].id # 0 <=> watcher[c].phase \in Synced
        /\ watcher[c].event # << >> <=> Phase(c, "applying")
        /\ Phase(c, "none") <=> c > conns

\* The connection in use at either end is the newest; all older ones are closed, but
\* for the one the newest is about to close.
NewestConn ==
    /\ hostConn \in {0, conns} /\ current \in {0, conns}
    /\ current = 0 /\ conns # 0 => conns \in down
    /\ \A c \in Conns : watcher[c].prev < c
    /\ \A c \in Conns : c < conns =>
          c \in down \/ (Phase(conns, "registered") /\ watcher[conns].prev = c)

\* The host's peer is that of its connection; peers are numbered.
Peers ==
    /\ peer <= syncs /\ (peer # 0 => hostConn # 0)
    /\ \A c \in Conns : /\ watcher[c].id <= syncs
                        /\ watcher[c].id # 0 /\ watcher[c].id = peer => c = hostConn
    /\ \A g \in Goroutines : held[g] # << >> => held[g][1].to <= syncs

ConnInv == Types /\ Shapes /\ NewestConn /\ Peers

\* The notes on their way to the watcher of c.
Path(c) == watcher[c].event \o wire[c]

\* A session that is gone never comes back, and what is known of a session was alive.
Births ==
    /\ \A s \in Sessions : s \notin born =>
          /\ sess[s] = 0 /\ rows[s] = 0
          /\ \A c \in Conns : watcher[c].list[s] = 0 /\ known[c][s] = 0
    /\ \A s \in Sessions : sess[s] <= clock
    /\ \A g \in Goroutines : held[g] # << >> => held[g][1].session \in born
    /\ \A c \in Conns : \A i \in DOMAIN Path(c) :
          LET n == Path(c)[i] IN
          n.session \in born /\ n.kind # "dirty" /\ (n.kind = "removed" => sess[n.session] = 0)

\* What the goroutines of the host are about to announce.
Holding(g, s) == held[g] # << >> /\ held[g][1].session = s

Announcing ==
    /\ \A s \in Sessions : Holding("sdk", s) =>
          /\ held["sdk"][1].kind \in {"dirty", "changed"}
          /\ sess[s] = 0 \/ s \in prompted
    /\ \A s \in Sessions : Holding("reader", s) =>
          LET n == held["reader"][1] IN
          /\ n.kind = "added" => n.version = sess[s] /\ sess[s] # 0 /\ s \notin prompted
          /\ n.kind = "removed" => sess[s] = 0
          /\ n.kind # "dirty" /\ peer # 0 => n.to = peer

\* The newest version of session s is going to be sent.
Pending(s) ==
    \E g \in Goroutines :
        /\ Holding(g, s)
        /\ \/ held[g][1].kind = "dirty"
           \/ held[g][1].version = sess[s] /\ held[g][1].to = peer

\* Who holds an older version than the newest has another goroutine beside it that
\* sends the newest, or has sent it.
Overtaking ==
    \A s \in Sessions :
        /\ s \notin born => sent[s] = 0
        /\ sess[s] # 0 =>
              /\ sent[s] <= sess[s]
              /\ \A g \in Goroutines : Holding(g, s) /\ held[g][1].kind # "dirty" =>
                    /\ held[g][1].version <= sess[s]
                    /\ peer # 0 /\ held[g][1].to = peer /\ held[g][1].version # sess[s] =>
                          Pending(s) \/ sent[s] = sess[s]

HostInv == Births /\ Announcing /\ Overtaking

\* What the watcher works from until it has taken the notes on their way.
Base(c) == IF Phase(c, "watching") \/ Phase(c, "applying") THEN known[c] ELSE watcher[c].list

Linked(c) == peer # 0 /\ watcher[c].id = peer

About(c, s) == {i \in DOMAIN Path(c) : Path(c)[i].session = s}

\* The last note about a session that is alive has its newest version.
UpToDate(c, s) ==
    \/ Pending(s)
    \/ \E i \in About(c, s) : /\ Path(c)[i].version = sess[s]
                              /\ \A j \in About(c, s) : j <= i
    \/ About(c, s) = {} /\ (Phase(c, "initialized") \/ Base(c)[s] = sess[s])

\* A session that is gone has been removed, or soon will be.
Removed(c, s) ==
    \/ Holding("reader", s) /\ held["reader"][1].kind = "removed"
    \/ \E i \in About(c, s) : /\ Path(c)[i].kind = "removed"
                              /\ \A j \in About(c, s) : j > i => Path(c)[j].kind = "changed"
    \/ /\ \A i \in About(c, s) : Path(c)[i].kind # "added"
       /\ Phase(c, "initialized") \/ Base(c)[s] = 0

\* A session that is alive is known before it is changed.
Introduced(c, s) ==
    \/ Base(c)[s] # 0
    \/ Holding("reader", s) /\ held["reader"][1].kind = "added" /\ About(c, s) = {}
    \/ \E i \in About(c, s) : Path(c)[i].kind = "added" /\ \A j \in About(c, s) : i <= j

Mirrors(c, s) ==
    /\ sess[s] # 0 /\ s \notin overtaken => UpToDate(c, s)
    /\ sess[s] = 0 => Removed(c, s)
    /\ sess[s] # 0 /\ ~Phase(c, "initialized") => Introduced(c, s)

Mirroring == \A c \in Conns : Linked(c) => \A s \in Sessions : Mirrors(c, s)

\* The rows are what the watcher of the newest connection knows; a list that is about to
\* replace them lacks only sessions that have no row yet or are gone.
RowsKnown ==
    /\ conns # 0 /\ (Phase(conns, "watching") \/ Phase(conns, "applying")) => rows = known[conns]
    /\ \A c \in Conns : c \notin down /\ (Phase(c, "listed") \/ Phase(c, "replacing")) =>
          \A s \in Sessions : sess[s] # 0 /\ watcher[c].list[s] = 0 => rows[s] = 0

IInv == ConnInv /\ HostInv /\ Mirroring /\ RowsKnown

-----------------------------------------------------------------------------
(* Connections, watchers and peers *)

LEMMA Constants ==
    /\ NoSummary \in Summaries /\ << >> \in Boxes /\ 0 \in Nat
    /\ \A s \in Sessions : NoSummary[s] = 0
    /\ \A n \in Notes : <<n>> \in Boxes
BY CatalogAssumption DEF NoSummary, Summaries, Versions, Boxes

\* The steps of the host's sessions leave the connections alone.
SessionStep ==
    \/ \E s \in Sessions : Create(s) \/ Dispose(s) \/ Dispatch(s) \/ AgentEvent(s)
    \/ \E g \in Goroutines : AnnounceStep(g)

LEMMA HoldTypes ==
    ASSUME Types, NEW g \in Goroutines, NEW n \in Notes, Holds(g, n)
    PROVE  held' \in [Goroutines -> Boxes] /\ held'[g] = <<n>> /\ held'[g] # << >> /\ held'[g][1] = n
BY Constants DEF Types, Holds

LEMMA NoteTypes ==
    ASSUME NEW s \in Sessions, NEW to \in Nat
    PROVE  /\ Note("dirty", s, 0, to) \in Notes /\ Note("removed", s, 0, to) \in Notes
           /\ \A v \in 1..MaxChanges : /\ Note("added", s, v, to) \in Notes
                                       /\ Note("changed", s, v, to) \in Notes
BY DEF Note, Notes

LEMMA ChangeTypes ==
    ASSUME Types, NEW s \in Sessions, Changes(s)
    PROVE  /\ sess' \in Summaries /\ clock' \in Versions /\ clock' = clock + 1
           /\ clock + 1 \in 1..MaxChanges /\ sess'[s] = clock + 1
           /\ \A t \in Sessions : t # s => sess'[t] = sess[t]
<1>1. clock + 1 \in 1..MaxChanges /\ clock + 1 \in Versions
  BY CatalogAssumption DEF Types, Changes, Versions
<1> QED  BY <1>1 DEF Types, Changes, Summaries

\* The host has a peer on the newest connection only.
LEMMA PeerConn ==
    ASSUME ConnInv, peer # 0 PROVE hostConn = conns /\ conns \in Conns /\ hostConn \in Conns
BY CatalogAssumption DEF ConnInv, Types, NewestConn, Peers, Conns

LEMMA SessionStepKeepsConn ==
    ASSUME ConnInv, HostInv, SessionStep PROVE ConnInv'
<1> USE DEF ConnInv
<1>1. UNCHANGED <<hostConn, current, conns, down, peer, watcher, known, syncs, lag, rows>>
  BY DEF SessionStep, Create, Dispose, Dispatch, AgentEvent, AnnounceStep, Summarise, Emit, connVars
<1>2. Shapes' /\ NewestConn'
  BY <1>1 DEF Shapes, NewestConn, Phase
<1>3. SUFFICES Types' /\ \A g \in Goroutines : held'[g] # << >> => held'[g][1].to <= syncs
  BY <1>1, <1>2 DEF Peers
<1>4. ASSUME NEW g \in Goroutines, NEW n \in Notes, Holds(g, n), n.to <= syncs
      PROVE  \A h \in Goroutines : held'[h] # << >> => held'[h][1].to <= syncs
  BY <1>4, HoldTypes DEF Holds, Types, Peers
<1>5. ASSUME NEW g \in Goroutines, Releases(g)
      PROVE  /\ held' \in [Goroutines -> Boxes]
             /\ \A h \in Goroutines : held'[h] # << >> => held'[h][1].to <= syncs
  BY <1>5, Constants DEF Releases, Types, Peers
<1>6. peer \in Nat /\ peer <= syncs /\ 0 <= syncs
  BY DEF Types, Peers
<1>7. "reader" \in Goroutines /\ "sdk" \in Goroutines
  BY DEF Goroutines
<1>8. ASSUME NEW s \in Sessions, Create(s)
      PROVE  Types' /\ \A g \in Goroutines : held'[g] # << >> => held'[g][1].to <= syncs
  <2>1. PICK n : n = Note("added", s, clock + 1, peer)
    OBVIOUS
  <2>2. n \in Notes /\ n.to = peer
    BY <1>6, <1>8, <2>1, NoteTypes, ChangeTypes DEF Create, Note
  <2>3. Holds("reader", n) /\ sess' \in Summaries /\ clock' \in Versions
    BY <1>8, <2>1, ChangeTypes DEF Create
  <2>4. UNCHANGED <<wire, prompted, sent, overtaken>> /\ born' = born \cup {s}
    BY <1>8 DEF Create, historyVars
  <2> QED  BY <1>1, <1>4, <1>6, <1>7, <2>2, <2>3, <2>4, HoldTypes DEF Types
<1>9. ASSUME NEW s \in Sessions, Dispose(s)
      PROVE  Types' /\ \A g \in Goroutines : held'[g] # << >> => held'[g][1].to <= syncs
  <2>1. PICK n : n = Note("removed", s, 0, peer)
    OBVIOUS
  <2>2. n \in Notes /\ n.to = peer
    BY <1>6, <2>1, NoteTypes DEF Note
  <2>3. Holds("reader", n) /\ sess' \in Summaries
    BY <1>9, <2>1, CatalogAssumption DEF Dispose, Types, Summaries, Versions
  <2>4. UNCHANGED <<wire, born, sent, overtaken, clock>> /\ prompted' = prompted \ {s}
    BY <1>9 DEF Dispose, historyVars
  <2> QED  BY <1>1, <1>4, <1>6, <1>7, <2>2, <2>3, <2>4, HoldTypes DEF Types
<1>10. ASSUME NEW s \in Sessions, Dispatch(s) \/ AgentEvent(s)
       PROVE  Types' /\ \A g \in Goroutines : held'[g] # << >> => held'[g][1].to <= syncs
  <2>1. PICK n : n = Note("dirty", s, 0, 0)
    OBVIOUS
  <2>2. n \in Notes /\ n.to = 0
    BY <1>6, <2>1, NoteTypes DEF Note
  <2>3. /\ sess' \in Summaries /\ clock' \in Versions
        /\ \E g \in Goroutines : Holds(g, n)
    BY <1>7, <1>10, <2>1, ChangeTypes DEF Dispatch, AgentEvent
  <2>4. s \in born
    BY <1>10 DEF Dispatch, AgentEvent, HostInv, Births
  <2>5. UNCHANGED <<wire, born, sent, overtaken>> /\ prompted' \subseteq prompted \cup {s}
    BY <1>10 DEF Dispatch, AgentEvent, historyVars
  <2> QED  BY <1>1, <1>4, <1>6, <2>2, <2>3, <2>4, <2>5, HoldTypes DEF Types
<1>11. ASSUME NEW g \in Goroutines, Summarise(g)
       PROVE  Types' /\ \A h \in Goroutines : held'[h] # << >> => held'[h][1].to <= syncs
  <2>1. PICK s, n : s = held[g][1].session /\ n = Note("changed", s, sess[s], peer)
    OBVIOUS
  <2>2. s \in Sessions
    BY <1>11, <2>1 DEF Types, Summarise, Boxes, Notes
  <2>3. sess[s] # 0 => n \in Notes /\ n.to = peer
    <3>1. sess[s] # 0 => sess[s] \in 1..MaxChanges
      BY <2>2, CatalogAssumption DEF Types, Summaries, Versions
    <3>2. n.to = peer
      BY <2>1 DEF Note
    <3> QED  BY <1>6, <2>1, <2>2, <3>1, <3>2, NoteTypes
  <2>4. IF sess[s] = 0 THEN Releases(g) ELSE Holds(g, n)
    BY <1>11, <2>1 DEF Summarise
  <2>5. UNCHANGED <<sess, clock, born, prompted, wire, sent, overtaken>>
    BY <1>11 DEF Summarise, historyVars
  <2> QED  BY <1>1, <1>4, <1>5, <1>6, <2>3, <2>4, <2>5, HoldTypes DEF Types
<1>12. ASSUME NEW g \in Goroutines, Emit(g)
       PROVE  Types' /\ \A h \in Goroutines : held'[h] # << >> => held'[h][1].to <= syncs
  <2>1. PICK n : n = held[g][1]
    OBVIOUS
  <2>2. n \in Notes /\ n.session \in Sessions /\ n.version \in Versions
    BY <1>12, <2>1, CatalogAssumption DEF Types, Emit, Boxes, Notes, Versions
  <2>3. wire' \in [Conns -> Seq(Notes)]
    <3>1. CASE peer # 0
      <4>1. hostConn \in Conns
        BY <3>1, PeerConn
      <4>2. PICK q : q = Append(wire[hostConn], n)
        OBVIOUS
      <4>3. q \in Seq(Notes)
        BY <2>2, <4>1, <4>2 DEF Types
      <4>4. wire' = wire \/ wire' = [wire EXCEPT ![hostConn] = q]
        BY <1>12, <2>1, <4>2 DEF Emit
      <4> QED  BY <4>1, <4>3, <4>4 DEF Types
    <3>2. CASE peer = 0
      BY <1>12, <3>2 DEF Emit, Types
    <3> QED  BY <3>1, <3>2
  <2>4. sent' \in Summaries /\ overtaken' \subseteq Sessions
    BY <1>12, <2>1, <2>2 DEF Emit, Types, Summaries, historyVars
  <2>5. Releases(g) /\ UNCHANGED <<sess, clock, born, prompted>>
    BY <1>12 DEF Emit
  <2> QED  BY <1>1, <1>5, <2>3, <2>4, <2>5 DEF Types
<1> QED  BY <1>8, <1>9, <1>10, <1>11, <1>12 DEF SessionStep, AnnounceStep

\* A watcher that goes on or ends, with the peer it had or without one.
LEMMA WatcherGoesOn ==
    ASSUME ConnInv, NEW c \in Conns, watcher[c].phase \notin {"none", "registered"},
           NEW ph \in Phases \ {"none", "registered"}, NEW id \in {0, watcher[c].id},
           NEW list \in Summaries, NEW event \in Boxes,
           watcher' = [watcher EXCEPT ![c] = At(ph, 0, id, list, event)],
           id # 0 <=> ph \in Synced, event # << >> <=> ph = "applying",
           UNCHANGED <<connVars, syncs, held>>, peer' \in {peer, 0}
    PROVE  watcher' \in [Conns -> Watchers] /\ Shapes' /\ NewestConn' /\ Peers'
<1>1. id \in Nat /\ 0 \in Nat
  BY DEF ConnInv, Types, Watchers
<1>2. /\ watcher'[c].phase = ph /\ watcher'[c].prev = 0 /\ watcher'[c].id = id
      /\ watcher'[c].event = event /\ watcher' \in [Conns -> Watchers]
      /\ \A d \in Conns : d # c => watcher'[d] = watcher[d]
  <2>1. PICK v : v = At(ph, 0, id, list, event)
    OBVIOUS
  <2>2. v \in Watchers
    BY <1>1, <2>1 DEF At, Watchers
  <2>3. watcher' = [watcher EXCEPT ![c] = v] /\ watcher \in [Conns -> Watchers]
    BY <2>1 DEF ConnInv, Types
  <2>4. watcher'[c] = v /\ watcher' \in [Conns -> Watchers]
        /\ \A d \in Conns : d # c => watcher'[d] = watcher[d]
    BY <2>2, <2>3
  <2> QED  BY <2>1, <2>4 DEF At
<1>3. UNCHANGED <<hostConn, current, conns, down>>
  BY DEF connVars
<1>4. Shapes'
  BY <1>2, <1>3 DEF ConnInv, Shapes, Phase
<1>5. NewestConn'
  <2>1. watcher'[c].prev < c
    BY <1>2 DEF Conns
  <2>2. Phase(conns, "registered") => conns # c
    BY DEF Phase
  <2>3. \A d \in Conns : d < conns => conns \in Conns
    BY CatalogAssumption DEF ConnInv, Types, Conns
  <2>4. \A d \in Conns : watcher'[d].prev < d
    BY <1>2, <2>1 DEF ConnInv, NewestConn
  <2>5. ASSUME NEW d \in Conns, d < conns
        PROVE  d \in down \/ (watcher'[conns].phase = "registered" /\ watcher'[conns].prev = d)
    BY <1>2, <2>2, <2>3, <2>5 DEF ConnInv, NewestConn, Phase
  <2> QED  BY <1>3, <2>4, <2>5 DEF ConnInv, NewestConn, Phase
<1>6. Peers'
  <2>1. \A d \in Conns : watcher'[d].id = watcher[d].id \/ watcher'[d].id = 0
    BY <1>2
  <2>2. 0 <= syncs
    BY DEF ConnInv, Types
  <2> QED  BY <1>3, <2>1, <2>2 DEF ConnInv, Peers
<1> QED  BY <1>2, <1>4, <1>5, <1>6

LEMMA WatcherKeepsConn ==
    ASSUME ConnInv, NEW c \in Conns,
           \/ ListSessions(c) \/ CheckCurrent(c) \/ Replace(c) \/ TakeEvent(c) \/ Apply(c)
           \/ SyncFails(c) \/ WatchEnds(c)
    PROVE  ConnInv'
<1>0. /\ {"start", "ended"} \cup Synced \subseteq Phases \ {"none", "registered"}
      /\ watcher[c].list \in Summaries /\ watcher[c].event \in Boxes /\ sess \in Summaries
      /\ watcher[c].id # 0 <=> watcher[c].phase \in Synced
      /\ wire[c] \in Seq(Notes) /\ known[c] \in Summaries
      /\ watcher[c].event # << >> <=> watcher[c].phase = "applying"
  BY DEF Phases, Synced, ConnInv, Types, Watchers, Shapes, Phase
<1>1. UNCHANGED <<sess, clock, born, prompted, held, hostConn, current, conns, down, syncs>>
  BY DEF ListSessions, CheckCurrent, Replace, TakeEvent, Apply, SyncFails, WatchEnds, hostVars, connVars
<1>2. SUFFICES Types' /\ Shapes' /\ NewestConn' /\ Peers'
  BY DEF ConnInv
<1>3. CASE ListSessions(c)
  <2>1. /\ watcher[c].phase = "initialized" /\ UNCHANGED <<peer, wire, known, lag, rows, sent, overtaken>>
        /\ watcher' = [watcher EXCEPT ![c] = At("listed", 0, watcher[c].id, sess, << >>)]
    BY <1>3 DEF ListSessions, Phase, historyVars
  <2>2. watcher' \in [Conns -> Watchers] /\ Shapes' /\ NewestConn' /\ Peers'
    BY <1>0, <1>1, <2>1, WatcherGoesOn, Constants DEF Synced, connVars
  <2> QED  BY <1>1, <2>1, <2>2 DEF ConnInv, Types
<1>4. CASE CheckCurrent(c)
  <2>1. PICK w : w = watcher[c]
    OBVIOUS
  <2>2. /\ w.phase = "listed" /\ UNCHANGED <<peer, wire, known, lag, rows, sent, overtaken>>
        /\ watcher' = [watcher EXCEPT ![c] = [w EXCEPT !.phase = "replacing"]]
    BY <1>4, <2>1 DEF CheckCurrent, Phase, historyVars
  <2>3. w \in Watchers
    BY <2>1 DEF ConnInv, Types
  <2>4. PICK v : v = [w EXCEPT !.phase = "replacing"]
    OBVIOUS
  <2>5. /\ v \in Watchers /\ v.phase = "replacing" /\ v.prev = w.prev /\ v.id = w.id
        /\ v.event = w.event
    BY <1>0, <2>3, <2>4 DEF Watchers, Synced
  <2>6. watcher'[c] = v /\ \A d \in Conns : d # c => watcher'[d] = watcher[d]
    BY <2>2, <2>4 DEF ConnInv, Types
  <2>7. watcher' \in [Conns -> Watchers]
    BY <2>2, <2>4, <2>5 DEF ConnInv, Types
  <2>8. Shapes'
    BY <1>0, <1>1, <2>1, <2>2, <2>5, <2>6 DEF ConnInv, Shapes, Phase, Synced
  <2>9. NewestConn'
    BY <1>1, <2>1, <2>2, <2>5, <2>6, CatalogAssumption DEF ConnInv, NewestConn, Phase, Types, Conns
  <2>10. Peers'
    BY <1>1, <2>1, <2>2, <2>5, <2>6 DEF ConnInv, Peers
  <2> QED  BY <1>1, <2>2, <2>7, <2>8, <2>9, <2>10 DEF ConnInv, Types
<1>5. CASE Replace(c)
  <2>1. /\ watcher[c].phase = "replacing" /\ UNCHANGED <<peer, wire, sent, overtaken>>
        /\ watcher' = [watcher EXCEPT ![c] = At("watching", 0, watcher[c].id, NoSummary, << >>)]
        /\ rows' = watcher[c].list /\ known' = [known EXCEPT ![c] = watcher[c].list]
        /\ lag' = lag \/ lag' = lag + 1
    BY <1>5 DEF Replace, Phase, historyVars, MayWrite
  <2>2. watcher' \in [Conns -> Watchers] /\ Shapes' /\ NewestConn' /\ Peers'
    BY <1>0, <1>1, <2>1, WatcherGoesOn, Constants DEF Synced, connVars
  <2> QED  BY <1>0, <1>1, <2>1, <2>2 DEF ConnInv, Types
<1>6. CASE TakeEvent(c)
  <2>1. PICK n : n = Head(wire[c])
    OBVIOUS
  <2>2. /\ watcher[c].phase = "watching" /\ UNCHANGED <<peer, known, lag, rows, sent, overtaken>>
        /\ watcher' = [watcher EXCEPT ![c] = At("applying", 0, watcher[c].id, NoSummary, <<n>>)]
        /\ wire[c] # << >> /\ wire' = [wire EXCEPT ![c] = Tail(wire[c])]
    BY <1>6, <2>1 DEF TakeEvent, Phase, historyVars, ConnInv, Types
  <2>3. n \in Notes /\ Tail(wire[c]) \in Seq(Notes) /\ <<n>> # << >>
    BY <1>0, <2>1, <2>2
  <2>4. watcher' \in [Conns -> Watchers] /\ Shapes' /\ NewestConn' /\ Peers'
    BY <1>0, <1>1, <2>2, <2>3, WatcherGoesOn, Constants DEF Synced, connVars
  <2> QED  BY <1>1, <2>2, <2>3, <2>4 DEF ConnInv, Types
<1>7. CASE Apply(c)
  <2>1. PICK n : n = watcher[c].event[1]
    OBVIOUS
  <2>2. /\ watcher[c].phase = "applying" /\ UNCHANGED <<peer, wire, sent, overtaken>>
        /\ watcher' = [watcher EXCEPT ![c] = At("watching", 0, watcher[c].id, NoSummary, << >>)]
        /\ \/ UNCHANGED <<known, rows>>
           \/ /\ known' = [known EXCEPT ![c][n.session] = n.version]
              /\ rows' = [rows EXCEPT ![n.session] = n.version]
        /\ lag' = lag \/ lag' = lag + 1
    BY <1>7, <2>1 DEF Apply, Phase, historyVars, MayWrite
  <2>3. n \in Notes
    BY <1>0, <2>1, <2>2 DEF Boxes
  <2>4. n.session \in Sessions /\ n.version \in Versions
    BY <2>3, CatalogAssumption DEF Notes, Versions
  <2>5. known' \in [Conns -> Summaries] /\ rows' \in Summaries
    <3>1. PICK k : k = [known[c] EXCEPT ![n.session] = n.version]
      OBVIOUS
    <3>2. k \in Summaries
      BY <1>0, <2>4, <3>1 DEF Summaries
    <3>3. known' = known \/ known' = [known EXCEPT ![c] = k]
      BY <2>2, <3>1
    <3> QED  BY <2>2, <2>4, <3>2, <3>3 DEF ConnInv, Types, Summaries
  <2>6. watcher' \in [Conns -> Watchers] /\ Shapes' /\ NewestConn' /\ Peers'
    BY <1>0, <1>1, <2>2, WatcherGoesOn, Constants DEF Synced, connVars
  <2> QED  BY <1>1, <2>2, <2>5, <2>6 DEF ConnInv, Types
<1>8. CASE SyncFails(c) \/ WatchEnds(c)
  <2>1. PICK ph \in {"start", "ended"} :
            watcher' = [watcher EXCEPT ![c] = At(ph, 0, 0, NoSummary, << >>)]
    BY <1>8 DEF SyncFails, WatchEnds, Resting
  <2>2. /\ watcher[c].phase \notin {"none", "registered"}
        /\ wire' = [wire EXCEPT ![c] = << >>] /\ known' = [known EXCEPT ![c] = NoSummary]
        /\ UNCHANGED <<lag, rows>>
        /\ \/ UNCHANGED <<peer, sent, overtaken>>
           \/ peer' = 0 /\ sent' = NoSummary /\ overtaken' = {}
    BY <1>8 DEF SyncFails, WatchEnds, Phase, Syncing, PeerGone, historyVars
  <2>3. watcher' \in [Conns -> Watchers] /\ Shapes' /\ NewestConn' /\ Peers'
    BY <1>0, <1>1, <2>1, <2>2, WatcherGoesOn, Constants DEF Synced, connVars
  <2>4. known' \in [Conns -> Summaries] /\ wire' \in [Conns -> Seq(Notes)]
    BY <2>2, Constants DEF ConnInv, Types
  <2>5. peer' \in Nat /\ sent' \in Summaries /\ overtaken' \subseteq Sessions
    BY <2>2, Constants DEF ConnInv, Types
  <2> QED  BY <1>1, <2>2, <2>3, <2>4, <2>5 DEF ConnInv, Types
<1> QED  BY <1>3, <1>4, <1>5, <1>6, <1>7, <1>8

LEMMA RegisterKeepsConn ==
    ASSUME ConnInv, ClosesFirst', NEW c \in Conns, Register(c) PROVE ConnInv'
<1>1. /\ c = conns + 1 /\ conns' = c /\ hostConn' = c /\ current' = c /\ hostConn = 0
      /\ UNCHANGED <<sess, clock, born, prompted, held, down, peer, wire, known, syncs, lag, rows,
                     sent, overtaken>>
      /\ watcher' = [watcher EXCEPT ![c] = At("registered", current, 0, NoSummary, << >>)]
  BY DEF Register, hostVars, historyVars
<1>2. PICK v : v = At("registered", current, 0, NoSummary, << >>)
  OBVIOUS
<1>3. /\ v \in Watchers /\ v.phase = "registered" /\ v.prev = current /\ v.id = 0 /\ v.event = << >>
  BY <1>2, Constants DEF At, Watchers, Phases, ConnInv, Types
<1>4. /\ watcher'[c] = v /\ watcher' \in [Conns -> Watchers]
      /\ \A d \in Conns : d # c => watcher'[d] = watcher[d]
  BY <1>1, <1>2, <1>3 DEF ConnInv, Types
<1>5. Types'
  BY <1>1, <1>4, CatalogAssumption DEF ConnInv, Types, Conns
<1>6. conns \in Nat /\ conns < c /\ \A d \in Conns : d > conns /\ d # c <=> d > c
  BY <1>1 DEF ConnInv, Types, Conns
<1>7. Shapes'
  BY <1>1, <1>3, <1>4, <1>6 DEF ConnInv, Shapes, Phase, Synced
<1>8. NewestConn'
  <2>1. current < c
    BY <1>1, <1>6 DEF ConnInv, NewestConn, Types
  <2>2. ASSUME NEW d \in Conns, d < c PROVE d \in down \/ current = d
    <3>1. CASE d = conns
      BY <3>1 DEF ConnInv, NewestConn, Conns
    <3>2. CASE d # conns
      <4>1. d < conns /\ conns \in Conns
        BY <1>1, <1>6, <2>2, <3>2, CatalogAssumption DEF Conns
      <4>2. SUFFICES ASSUME Phase(conns, "registered"), watcher[conns].prev = d PROVE FALSE
        BY <4>1 DEF ConnInv, NewestConn
      <4>3. watcher'[conns] = watcher[conns] /\ d # 0
        BY <1>4, <1>6, <4>1 DEF Conns
      <4> QED  BY <1>1, <1>6, <4>1, <4>2, <4>3 DEF ClosesFirst, Phase
    <3> QED  BY <3>1, <3>2
  <2>3. \A d \in Conns : watcher'[d].prev < d
    BY <1>3, <1>4, <2>1 DEF ConnInv, NewestConn
  <2> QED  BY <1>1, <1>3, <1>4, <2>2, <2>3 DEF NewestConn, Phase, Conns
<1>9. Peers'
  BY <1>1, <1>3, <1>4 DEF ConnInv, Peers, Conns, Types
<1> QED  BY <1>5, <1>7, <1>8, <1>9 DEF ConnInv

LEMMA ClosePreviousKeepsConn ==
    ASSUME ConnInv, NEW c \in Conns, ClosePrevious(c) PROVE ConnInv'
<1>1. /\ watcher[c].phase = "registered"
      /\ UNCHANGED <<sess, clock, born, prompted, held, conns, hostConn, current, peer, wire, known,
                     syncs, lag, rows, sent, overtaken>>
      /\ watcher' = [watcher EXCEPT ![c] = At("start", 0, 0, NoSummary, << >>)]
      /\ down' = down \cup ({watcher[c].prev} \ {0})
  BY DEF ClosePrevious, hostVars, historyVars, Phase, Resting
<1>2. PICK v : v = At("start", 0, 0, NoSummary, << >>)
  OBVIOUS
<1>3. /\ v \in Watchers /\ v.phase = "start" /\ v.prev = 0 /\ v.id = 0 /\ v.event = << >>
  BY <1>2, Constants DEF At, Watchers, Phases
<1>4. /\ watcher'[c] = v /\ watcher' \in [Conns -> Watchers]
      /\ \A d \in Conns : d # c => watcher'[d] = watcher[d]
  BY <1>1, <1>2, <1>3 DEF ConnInv, Types
<1>5. c <= conns
  BY <1>1 DEF ConnInv, Shapes, Phase, Conns, Types
<1>6. watcher[c].prev < c /\ watcher[c].prev \in Nat
  BY DEF ConnInv, NewestConn, Types, Watchers
<1>7. down' \subseteq 1..conns
  <2>1. conns \in Nat /\ c \in Nat /\ down \subseteq 1..conns
    BY DEF ConnInv, Types, Conns
  <2>2. watcher[c].prev # 0 => watcher[c].prev \in 1..conns
    BY <1>5, <1>6, <2>1
  <2> QED  BY <1>1, <2>1, <2>2
<1>8. Types'
  BY <1>1, <1>4, <1>7 DEF ConnInv, Types
<1>9. Shapes'
  BY <1>1, <1>3, <1>4, <1>5 DEF ConnInv, Shapes, Phase, Synced, Types, Conns
<1>10. NewestConn'
  <2>1. \A d \in Conns : watcher'[d].prev < d
    BY <1>3, <1>4 DEF ConnInv, NewestConn, Conns
  <2>2. ASSUME NEW d \in Conns, d < conns
        PROVE  d \in down' \/ (watcher'[conns].phase = "registered" /\ watcher'[conns].prev = d)
    <3>1. conns \in Conns /\ d # 0
      BY <2>2, CatalogAssumption DEF ConnInv, Types, Conns
    <3>2. CASE d \in down
      BY <1>1, <3>2
    <3>3. CASE d \notin down
      <4>1. watcher[conns].phase = "registered" /\ watcher[conns].prev = d
        BY <2>2, <3>3 DEF ConnInv, NewestConn, Phase
      <4> QED  BY <1>1, <1>4, <3>1, <4>1
    <3> QED  BY <3>2, <3>3
  <2> QED  BY <1>1, <2>1, <2>2 DEF ConnInv, NewestConn, Phase
<1>11. Peers'
  BY <1>1, <1>3, <1>4 DEF ConnInv, Peers, Types
<1> QED  BY <1>8, <1>9, <1>10, <1>11 DEF ConnInv

LEMMA InitializeKeepsConn ==
    ASSUME ConnInv, NEW c \in Conns, Initialize(c) PROVE ConnInv'
<1>1. PICK id : id = syncs + 1
  OBVIOUS
<1>2. /\ watcher[c].phase = "start" /\ hostConn = c /\ syncs' = id /\ peer' = id
      /\ UNCHANGED <<sess, clock, born, prompted, held, hostConn, current, conns, down, known, lag, rows>>
      /\ watcher' = [watcher EXCEPT ![c] = At("initialized", 0, id, NoSummary, << >>)]
      /\ wire' = [wire EXCEPT ![c] = << >>] /\ sent' = NoSummary /\ overtaken' = {}
  BY <1>1 DEF Initialize, hostVars, connVars, Phase
<1>3. PICK v : v = At("initialized", 0, id, NoSummary, << >>)
  OBVIOUS
<1>4. id \in Nat /\ id > syncs /\ id # 0 /\ syncs \in Nat
  BY <1>1 DEF ConnInv, Types
<1>5. /\ v \in Watchers /\ v.phase = "initialized" /\ v.prev = 0 /\ v.id = id /\ v.event = << >>
  BY <1>3, <1>4, Constants DEF At, Watchers, Phases, Synced
<1>6. /\ watcher'[c] = v /\ watcher' \in [Conns -> Watchers]
      /\ \A d \in Conns : d # c => watcher'[d] = watcher[d]
  BY <1>2, <1>3, <1>5 DEF ConnInv, Types
<1>7. Types'
  BY <1>2, <1>4, <1>6, Constants DEF ConnInv, Types
<1>8. Shapes'
  BY <1>2, <1>4, <1>5, <1>6 DEF ConnInv, Shapes, Phase, Synced
<1>9. NewestConn'
  <2>1. c = conns
    BY <1>2 DEF ConnInv, NewestConn, Conns
  <2>2. \A d \in Conns : watcher'[d].prev < d
    BY <1>5, <1>6 DEF ConnInv, NewestConn, Conns
  <2> QED  BY <1>2, <2>1, <2>2 DEF ConnInv, NewestConn, Phase
<1>10. Peers'
  <2>1. \A d \in Conns : d # c => watcher'[d].id <= syncs
    BY <1>6 DEF ConnInv, Peers
  <2>2. \A d \in Conns : d # c => watcher'[d].id \in Nat /\ watcher'[d].id < id
    BY <1>4, <1>6, <2>1 DEF ConnInv, Types, Watchers
  <2>3. ASSUME NEW g \in Goroutines, held[g] # << >> PROVE held[g][1].to <= id
    <3>1. held[g][1].to <= syncs /\ held[g][1].to \in Nat
      BY <2>3 DEF ConnInv, Peers, Types, Boxes, Notes
    <3> QED  BY <1>4, <3>1
  <2>4. hostConn # 0
    BY <1>2 DEF Conns
  <2> QED  BY <1>2, <1>4, <1>5, <1>6, <2>2, <2>3, <2>4 DEF Peers
<1> QED  BY <1>7, <1>8, <1>9, <1>10 DEF ConnInv

LEMMA ConnStays ==
    ASSUME ConnInv, HostInv, ClosesFirst', [Next]_vars PROVE ConnInv'
<1>1. ASSUME NEW c \in Conns, ConnLost(c) \/ Unregister(c) PROVE ConnInv'
  <2>1. /\ UNCHANGED <<sess, clock, born, prompted, held, conns, hostConn, peer, wire, known, watcher,
                       syncs, lag, rows, sent, overtaken>>
        /\ \/ down' = down \cup {c} /\ c <= conns /\ current' = current
           \/ down' = down /\ c \in down /\ current = c /\ current' = 0
    BY <1>1 DEF ConnLost, Unregister, hostVars, historyVars
  <2>2. conns \in Nat /\ c \in Nat \ {0} /\ down \subseteq 1..conns
    BY DEF ConnInv, Types, Conns
  <2>3. down' \subseteq 1..conns /\ current' \in Nat
    <3>1. c <= conns => c \in 1..conns
      BY <2>2
    <3>2. current \in Nat
      BY DEF ConnInv, Types
    <3>3. down' = down \/ (down' = down \cup {c} /\ c \in 1..conns)
      BY <2>1, <3>1
    <3>4. current' = current \/ current' = 0
      BY <2>1
    <3>5. down' \subseteq 1..conns
      BY <2>2, <3>3
    <3> QED  BY <3>2, <3>4, <3>5
  <2>4. Types'
    BY <2>1, <2>3 DEF ConnInv, Types
  <2>5. NewestConn'
    BY <2>1 DEF ConnInv, NewestConn, Phase, Conns
  <2> QED  BY <2>1, <2>4, <2>5 DEF ConnInv, Shapes, Peers, Phase
<1>2. CASE Disconnect
  <2>1. /\ UNCHANGED <<sess, clock, born, prompted, held, conns, hostConn, peer, wire, known, watcher,
                       syncs, lag, rows, sent, overtaken>>
        /\ down' = down \cup {current} /\ current # 0 /\ current' = 0
    BY <1>2 DEF Disconnect, hostVars, historyVars
  <2>2. current = conns
    BY <2>1 DEF ConnInv, NewestConn
  <2>3. Types'
    BY <2>1, <2>2 DEF ConnInv, Types
  <2>4. NewestConn'
    BY <2>1, <2>2 DEF ConnInv, NewestConn, Phase
  <2> QED  BY <2>1, <2>3, <2>4 DEF ConnInv, Shapes, Peers, Phase
<1>3. CASE HostDrops \/ HostCrash
  <2>1. /\ UNCHANGED <<clock, born, current, conns, down, wire, known, watcher, syncs, lag, rows>>
        /\ hostConn' = 0 /\ peer' = 0 /\ sent' = NoSummary /\ overtaken' = {}
        /\ \/ UNCHANGED <<sess, prompted, held>>
           \/ sess' = NoSummary /\ prompted' = {} /\ held' = [g \in Goroutines |-> << >>]
    BY <1>3 DEF HostDrops, HostCrash, PeerGone, hostVars
  <2>2. Types'
    BY <2>1, Constants DEF ConnInv, Types
  <2>3. NewestConn' /\ Shapes'
    BY <2>1 DEF ConnInv, NewestConn, Shapes, Phase
  <2>4. Peers'
    BY <2>1 DEF ConnInv, Peers, Types
  <2> QED  BY <2>2, <2>3, <2>4 DEF ConnInv
<1>4. CASE UNCHANGED vars
  BY <1>4 DEF vars, hostVars, connVars, historyVars, ConnInv, Types, Shapes, NewestConn, Peers, Phase
<1> QED
  BY <1>1, <1>2, <1>3, <1>4, SessionStepKeepsConn, WatcherKeepsConn, RegisterKeepsConn,
     ClosePreviousKeepsConn, InitializeKeepsConn DEF Next, SessionStep, WatchStep

-----------------------------------------------------------------------------
(* The notes on their way *)

LEMMA BoxLength ==
    ASSUME NEW e \in Boxes, e # << >> PROVE e \in Seq(Notes) /\ Len(e) = 1 /\ e[1] \in Notes
<1>1. e \in Seq(Notes) /\ Len(e) <= 1
  BY DEF Boxes
<1>2. Len(e) \in Nat \ {0}
  BY <1>1, EmptySeq
<1>3. \A n \in Nat \ {0} : n <= 1 => n = 1
  OBVIOUS
<1>4. Len(e) = 1
  BY <1>1, <1>2, <1>3, Zenon
<1> QED  BY <1>1, <1>4, ElementOfSeq

LEMMA JoinOne ==
    ASSUME NEW S, NEW e \in Seq(S), NEW w \in Seq(S), Len(e) = 1
    PROVE  /\ e[1] = (e \o w)[1] /\ Len(e \o w) = 1 + Len(w) /\ Len(w) \in Nat
           /\ \A i \in 1..Len(e \o w) : i # 1 => w[i - 1] = (e \o w)[i]
<1>1. Len(w) \in Nat
  BY LenProperties
<1>2. Len(e \o w) = 1 + Len(w)
  BY ConcatProperties
<1>3. \A i \in 1..(1 + Len(w)) : (e \o w)[i] = IF i <= 1 THEN e[i] ELSE w[i - 1]
  BY ConcatProperties
<1> QED  BY <1>1, <1>2, <1>3

\* A path is a sequence of notes, and without an event that is being applied it is
\* what the wire holds.
LEMMA PathValue ==
    ASSUME NEW e \in Boxes, NEW w \in Seq(Notes)
    PROVE  /\ e \o w \in Seq(Notes) /\ DOMAIN (e \o w) = 1..Len(e \o w) /\ Len(e \o w) \in Nat
           /\ \A i \in DOMAIN (e \o w) : (e \o w)[i] \in Notes
           /\ e = << >> => e \o w = w
<1>1. e \o w \in Seq(Notes)
  BY DEF Boxes
<1>2. e = << >> => e \o w = w
  BY ConcatEmptySeq
<1> QED  BY <1>1, <1>2, LenProperties, ElementOfSeq

LEMMA PathType ==
    ASSUME ConnInv, NEW c \in Conns
    PROVE  /\ Path(c) \in Seq(Notes) /\ DOMAIN Path(c) = 1..Len(Path(c)) /\ Len(Path(c)) \in Nat
           /\ \A i \in DOMAIN Path(c) : Path(c)[i] \in Notes
           /\ ~Phase(c, "applying") => Path(c) = wire[c]
<1>1. /\ watcher[c].event \in Boxes /\ wire[c] \in Seq(Notes)
      /\ ~Phase(c, "applying") => watcher[c].event = << >>
  BY DEF ConnInv, Types, Watchers, Shapes
<1> QED  BY <1>1, PathValue DEF Path

LEMMA NextPathType ==
    ASSUME ConnInv', NEW c \in Conns
    PROVE  /\ Path(c)' \in Seq(Notes) /\ DOMAIN Path(c)' = 1..Len(Path(c)') /\ Len(Path(c)') \in Nat
           /\ \A i \in DOMAIN Path(c)' : Path(c)'[i] \in Notes
           /\ ~Phase(c, "applying")' => Path(c)' = wire'[c]
<1>1. /\ watcher'[c].event \in Boxes /\ wire'[c] \in Seq(Notes)
      /\ ~Phase(c, "applying")' => watcher'[c].event = << >>
  BY DEF ConnInv, Types, Watchers, Shapes
<1> QED  BY <1>1, PathValue DEF Path

\* A note that is delivered goes to the end of the path of the host's connection.
LEMMA PathEmits ==
    ASSUME ConnInv, ConnInv', NEW c \in Conns, NEW n \in Notes, UNCHANGED watcher,
           wire' = [wire EXCEPT ![c] = Append(@, n)]
    PROVE  /\ Len(Path(c)') = Len(Path(c)) + 1 /\ Path(c)'[Len(Path(c)) + 1] = n
           /\ \A i \in DOMAIN Path(c) : Path(c)'[i] = Path(c)[i]
           /\ \A d \in Conns : d # c => Path(d)' = Path(d)
<1>1. PICK e, w : e = watcher[c].event /\ w = wire[c]
  OBVIOUS
<1>2. e \in Seq(Notes) /\ w \in Seq(Notes)
  BY <1>1 DEF ConnInv, Types, Watchers, Boxes
<1>3. wire'[c] = Append(w, n) /\ \A d \in Conns : d # c => wire'[d] = wire[d]
  BY <1>1 DEF ConnInv, Types
<1>4. Path(c) = e \o w /\ Path(c)' = e \o Append(w, n)
  BY <1>1, <1>3 DEF Path
<1>5. \A d \in Conns : d # c => Path(d)' = Path(d)
  BY <1>3 DEF Path
<1>6. /\ Len(e \o Append(w, n)) = Len(e \o w) + 1 /\ (e \o Append(w, n))[Len(e \o w) + 1] = n
      /\ \A i \in 1..Len(e \o w) : (e \o Append(w, n))[i] = (e \o w)[i]
  BY <1>2
<1> QED  BY <1>4, <1>5, <1>6, PathType

\* Taking a note leaves the path alone, applying it shortens the path.
LEMMA PathTakes ==
    ASSUME ConnInv, ConnInv', NEW c \in Conns, TakeEvent(c)
    PROVE  \A d \in Conns : /\ Len(Path(d)') = Len(Path(d))
                            /\ \A i \in DOMAIN Path(d) : Path(d)'[i] = Path(d)[i]
<1>1. PICK w : w = wire[c]
  OBVIOUS
<1>2. w \in Seq(Notes) /\ w # << >> /\ Path(c) = w
  BY <1>1, PathType DEF TakeEvent, ConnInv, Types, Phase
<1>3. /\ wire' = [wire EXCEPT ![c] = Tail(w)]
      /\ watcher' = [watcher EXCEPT ![c] = At("applying", 0, watcher[c].id, NoSummary, <<Head(w)>>)]
  BY <1>1 DEF TakeEvent, ConnInv, Types
<1>4. wire'[c] = Tail(w) /\ watcher'[c] = At("applying", 0, watcher[c].id, NoSummary, <<Head(w)>>)
  BY <1>3 DEF ConnInv, Types
<1>5. Path(c)' = <<Head(w)>> \o Tail(w)
  BY <1>4 DEF Path, At
<1>6. /\ Len(<<Head(w)>> \o Tail(w)) = Len(w)
      /\ \A i \in 1..Len(w) : (<<Head(w)>> \o Tail(w))[i] = w[i]
  BY <1>2
<1>7. \A d \in Conns : d # c => wire'[d] = wire[d] /\ watcher'[d] = watcher[d]
  BY <1>3 DEF ConnInv, Types
<1> QED  BY <1>2, <1>5, <1>6, <1>7, PathType DEF Path

LEMMA PathApplies ==
    ASSUME ConnInv, ConnInv', NEW c \in Conns, Apply(c)
    PROVE  /\ watcher[c].event[1] = Path(c)[1] /\ 1 \in DOMAIN Path(c)
           /\ Len(Path(c)') = Len(Path(c)) - 1
           /\ \A i \in DOMAIN Path(c) : i # 1 => Path(c)'[i - 1] = Path(c)[i]
           /\ \A d \in Conns : d # c => Path(d)' = Path(d)
<1>1. PICK e, w : e = watcher[c].event /\ w = wire[c]
  OBVIOUS
<1>2. e \in Seq(Notes) /\ Len(e) = 1 /\ w \in Seq(Notes)
  <2>1. e \in Boxes /\ w \in Seq(Notes) /\ e # << >>
    BY <1>1 DEF Apply, ConnInv, Types, Watchers, Shapes
  <2> QED  BY <2>1, BoxLength
<1>3. UNCHANGED wire /\ watcher' = [watcher EXCEPT ![c] = At("watching", 0, watcher[c].id, NoSummary, << >>)]
  BY DEF Apply
<1>4. watcher'[c] = At("watching", 0, watcher[c].id, NoSummary, << >>)
  BY <1>3 DEF ConnInv, Types
<1>5. Path(c) = e \o w /\ Path(c)' = w
  <2>1. Path(c) = e \o w
    BY <1>1 DEF Path
  <2>2. watcher'[c].event = << >> /\ wire'[c] = w
    BY <1>1, <1>3, <1>4 DEF At
  <2>3. Path(c)' = << >> \o w
    BY <2>2 DEF Path
  <2> QED  BY <1>2, <2>1, <2>3, ConcatEmptySeq
<1>6. /\ e[1] = (e \o w)[1] /\ Len(e \o w) = 1 + Len(w) /\ Len(w) \in Nat
      /\ \A i \in 1..Len(e \o w) : i # 1 => w[i - 1] = (e \o w)[i]
  BY <1>2, JoinOne
<1>7. \A d \in Conns : d # c => wire'[d] = wire[d] /\ watcher'[d] = watcher[d]
  BY <1>3 DEF ConnInv, Types
<1>8. 1 \in DOMAIN Path(c) /\ DOMAIN Path(c) = 1..Len(e \o w)
  BY <1>5, <1>6, PathType
<1>9. \A d \in Conns : d # c => Path(d)' = Path(d)
  BY <1>7 DEF Path
<1>10. Len(Path(c)') = Len(Path(c)) - 1
  BY <1>5, <1>6
<1>11. \A i \in DOMAIN Path(c) : i # 1 => Path(c)'[i - 1] = Path(c)[i]
  BY <1>5, <1>6, <1>8
<1> QED  BY <1>1, <1>5, <1>6, <1>8, <1>9, <1>10, <1>11

-----------------------------------------------------------------------------
(* The host's sessions and what it announces *)

\* Every other step leaves the sessions alone, or is a crash of the host.
LEMMA Elsewhere ==
    ASSUME [Next]_vars
    PROVE  \/ SessionStep
           \/ UNCHANGED hostVars
           \/ HostCrash
BY DEF Next, SessionStep, WatchStep, vars, Register, ClosePrevious, ConnLost, Unregister, Disconnect,
   HostDrops, Initialize, ListSessions, CheckCurrent, Replace, TakeEvent, Apply, SyncFails, WatchEnds

\* Goroutine g takes up a note, or lets go of it.
NowHolds(g, kind, s, v, to) ==
    /\ held'[g] # << >> /\ \A h \in Goroutines : h # g => held'[h] = held[h]
    /\ held'[g][1].kind = kind /\ held'[g][1].session = s
    /\ held'[g][1].version = v /\ held'[g][1].to = to
NowFree(g) ==
    held'[g] = << >> /\ \A h \in Goroutines : h # g => held'[h] = held[h]

LEMMA TakesUp ==
    ASSUME ConnInv, NEW g \in Goroutines, NEW kind, NEW s, NEW v, NEW to, Holds(g, Note(kind, s, v, to))
    PROVE  NowHolds(g, kind, s, v, to)
<1>1. PICK n : n = Note(kind, s, v, to)
  OBVIOUS
<1>2. held'[g] = <<n>> /\ \A h \in Goroutines : h # g => held'[h] = held[h]
  BY <1>1 DEF Holds, ConnInv, Types
<1>3. n.kind = kind /\ n.session = s /\ n.version = v /\ n.to = to
  BY <1>1 DEF Note
<1>4. <<n>> # << >> /\ <<n>>[1] = n
  OBVIOUS
<1> QED  BY <1>2, <1>3, <1>4 DEF NowHolds

\* What a change of the sessions does to the versions and to the notes held.
Created(s) ==
    /\ Create(s) /\ s \notin born /\ born' = born \cup {s}
    /\ sess'[s] = clock + 1 /\ clock' = clock + 1
    /\ \A t \in Sessions : t # s => sess'[t] = sess[t]
    /\ held["reader"] = << >> /\ UNCHANGED prompted
    /\ NowHolds("reader", "added", s, clock + 1, peer)
Disposed(s) ==
    /\ Dispose(s) /\ sess[s] # 0 /\ sess'[s] = 0 /\ UNCHANGED <<born, clock>>
    /\ \A t \in Sessions : t # s => sess'[t] = sess[t]
    /\ held["reader"] = << >> /\ prompted' = prompted \ {s}
    /\ NowHolds("reader", "removed", s, 0, peer)
Changed(g, s) ==
    /\ Dispatch(s) \/ AgentEvent(s)
    /\ sess[s] # 0 /\ sess'[s] = clock + 1 /\ clock' = clock + 1 /\ UNCHANGED born
    /\ \A t \in Sessions : t # s => sess'[t] = sess[t]
    /\ held[g] = << >> /\ NowHolds(g, "dirty", s, 0, 0)
    /\ \/ g = "sdk" /\ s \in prompted /\ UNCHANGED prompted
       \/ g = "reader" /\ prompted' \in {prompted, prompted \cup {s}}
Summarised(g, s) ==
    /\ Summarise(g) /\ held[g] # << >> /\ held[g][1].kind = "dirty"
    /\ s = held[g][1].session /\ UNCHANGED <<sess, clock, born, prompted>>
    /\ \/ sess[s] = 0 /\ NowFree(g)
       \/ sess[s] # 0 /\ NowHolds(g, "changed", s, sess[s], peer)
Emitted(g) ==
    /\ Emit(g) /\ held[g] # << >> /\ held[g][1].kind # "dirty"
    /\ NowFree(g) /\ UNCHANGED <<sess, clock, born, prompted>>

LEMMA SessionMoves ==
    ASSUME ConnInv, HostInv, SessionStep
    PROVE  \/ \E s \in Sessions : Created(s) \/ Disposed(s)
           \/ \E g \in Goroutines : \E s \in Sessions : Changed(g, s) \/ Summarised(g, s)
           \/ \E g \in Goroutines : Emitted(g)
<1>1. ASSUME NEW s \in Sessions, Changes(s)
      PROVE  /\ sess'[s] = clock + 1 /\ clock' = clock + 1
             /\ \A t \in Sessions : t # s => sess'[t] = sess[t]
  BY <1>1, ChangeTypes DEF ConnInv
<1>2. ASSUME NEW s \in Sessions, Dispose(s)
      PROVE  sess'[s] = 0 /\ \A t \in Sessions : t # s => sess'[t] = sess[t]
  BY <1>2 DEF Dispose, ConnInv, Types, Summaries
<1>3. ASSUME NEW g \in Goroutines, held[g] # << >> PROVE held[g][1].session \in Sessions
  BY <1>3, BoxLength DEF ConnInv, Types, Notes
<1>4. "reader" \in Goroutines /\ "sdk" \in Goroutines
  BY DEF Goroutines
<1>5. ASSUME NEW s \in Sessions, Create(s)
      PROVE  /\ s \notin born /\ born' = born \cup {s} /\ Changes(s)
             /\ held["reader"] = << >> /\ UNCHANGED prompted
             /\ NowHolds("reader", "added", s, clock + 1, peer)
  BY <1>4, <1>5, TakesUp DEF Create, ReaderIdle
<1>6. ASSUME NEW s \in Sessions, Dispose(s)
      PROVE  /\ sess[s] # 0 /\ UNCHANGED <<born, clock>>
             /\ held["reader"] = << >> /\ prompted' = prompted \ {s}
             /\ NowHolds("reader", "removed", s, 0, peer)
  BY <1>4, <1>6, TakesUp DEF Dispose, ReaderIdle
<1>7. ASSUME NEW s \in Sessions, Dispatch(s)
      PROVE  /\ sess[s] # 0 /\ UNCHANGED born /\ Changes(s) /\ held["reader"] = << >>
             /\ prompted' \in {prompted, prompted \cup {s}}
             /\ NowHolds("reader", "dirty", s, 0, 0)
  BY <1>4, <1>7, TakesUp DEF Dispatch, ReaderIdle
<1>8. ASSUME NEW s \in Sessions, AgentEvent(s)
      PROVE  /\ sess[s] # 0 /\ UNCHANGED <<born, prompted>> /\ Changes(s) /\ held["sdk"] = << >>
             /\ s \in prompted /\ NowHolds("sdk", "dirty", s, 0, 0)
  BY <1>4, <1>8, TakesUp DEF AgentEvent
<1>9. ASSUME NEW g \in Goroutines, Summarise(g), NEW s, s = held[g][1].session
      PROVE  /\ held[g] # << >> /\ held[g][1].kind = "dirty" /\ UNCHANGED <<sess, clock, born, prompted>>
             /\ \/ sess[s] = 0 /\ NowFree(g)
                \/ sess[s] # 0 /\ NowHolds(g, "changed", s, sess[s], peer)
  BY <1>9, TakesUp DEF Summarise, Releases, NowFree, ConnInv, Types
<1>10. ASSUME NEW g \in Goroutines, Emit(g)
       PROVE  /\ held[g] # << >> /\ held[g][1].kind # "dirty" /\ UNCHANGED <<sess, clock, born, prompted>>
              /\ NowFree(g)
  BY <1>10 DEF Emit, Releases, NowFree, ConnInv, Types
<1>11. CASE \E s \in Sessions : Create(s)
  BY <1>1, <1>5, <1>11 DEF Created
<1>12. CASE \E s \in Sessions : Dispose(s)
  BY <1>2, <1>6, <1>12 DEF Disposed
<1>13. CASE \E s \in Sessions : Dispatch(s)
  BY <1>1, <1>4, <1>7, <1>13 DEF Changed
<1>14. CASE \E s \in Sessions : AgentEvent(s)
  BY <1>1, <1>4, <1>8, <1>14 DEF Changed
<1>15. CASE \E g \in Goroutines : Summarise(g)
  BY <1>3, <1>9, <1>15 DEF Summarised
<1>16. CASE \E g \in Goroutines : Emit(g)
  BY <1>10, <1>16 DEF Emitted
<1> QED  BY <1>11, <1>12, <1>13, <1>14, <1>15, <1>16 DEF SessionStep, AnnounceStep

\* A session that is gone never comes back.
LEMMA Lives ==
    ASSUME ConnInv, HostInv, [Next]_vars
    PROVE  /\ born \subseteq born' /\ \A s \in Sessions : sess'[s] <= clock'
           /\ \A s \in Sessions : s \notin born' => sess'[s] = 0
           /\ \A s \in born : sess[s] = 0 => sess'[s] = 0
<1>0. /\ clock \in Nat /\ \A s \in Sessions : sess[s] \in Nat /\ sess[s] <= clock
      /\ \A s \in Sessions : s \notin born => sess[s] = 0
      /\ born \subseteq Sessions
  BY CatalogAssumption DEF HostInv, Births, ConnInv, Types, Summaries, Versions
<1>1. CASE SessionStep
  <2>1. ASSUME NEW s \in Sessions, Created(s) \/ Disposed(s)
        PROVE  /\ born \subseteq born' /\ \A t \in Sessions : sess'[t] <= clock'
               /\ \A t \in Sessions : t \notin born' => sess'[t] = 0
               /\ \A t \in born : sess[t] = 0 => sess'[t] = 0
    BY <1>0, <2>1 DEF Created, Disposed
  <2>2. ASSUME NEW s \in Sessions, NEW g \in Goroutines, Changed(g, s)
        PROVE  /\ born \subseteq born' /\ \A t \in Sessions : sess'[t] <= clock'
               /\ \A t \in Sessions : t \notin born' => sess'[t] = 0
               /\ \A t \in born : sess[t] = 0 => sess'[t] = 0
    BY <1>0, <2>2 DEF Changed
  <2>3. ASSUME UNCHANGED <<sess, clock, born>>
        PROVE  /\ born \subseteq born' /\ \A t \in Sessions : sess'[t] <= clock'
               /\ \A t \in Sessions : t \notin born' => sess'[t] = 0
               /\ \A t \in born : sess[t] = 0 => sess'[t] = 0
    BY <1>0, <2>3
  <2> QED  BY <1>1, <2>1, <2>2, <2>3, SessionMoves DEF Summarised, Emitted
<1>2. CASE UNCHANGED hostVars
  BY <1>0, <1>2 DEF hostVars
<1>3. CASE HostCrash
  BY <1>0, <1>3, Constants DEF HostCrash
<1> QED  BY <1>1, <1>2, <1>3, Elsewhere

\* Where the notes on the way to a watcher come from.
LEMMA PathSteps ==
    ASSUME ConnInv, ConnInv', HostInv, [Next]_vars, NEW c \in Conns, NEW i \in DOMAIN Path(c)'
    PROVE  \/ \E j \in DOMAIN Path(c) : Path(c)'[i] = Path(c)[j]
           \/ \E g \in Goroutines : Emit(g) /\ held[g] # << >> /\ Path(c)'[i] = held[g][1]
<1>0. /\ DOMAIN Path(c) = 1..Len(Path(c)) /\ DOMAIN Path(c)' = 1..Len(Path(c)') /\ Len(Path(c)) \in Nat
      /\ Len(Path(c)') \in Nat
  BY PathType, NextPathType
<1>1. CASE Len(Path(c)') = Len(Path(c)) /\ \A j \in DOMAIN Path(c) : Path(c)'[j] = Path(c)[j]
  BY <1>0, <1>1
<1>2. CASE Path(c)' = Path(c)
  BY <1>2
<1>3. ASSUME NEW d \in Conns, Apply(d) PROVE \E j \in DOMAIN Path(c) : Path(c)'[i] = Path(c)[j]
  <2>1. CASE d # c
    BY <1>2, <1>3, <2>1, PathApplies
  <2>2. CASE d = c
    <3>1. Len(Path(c)') = Len(Path(c)) - 1
      BY <1>3, <2>2, PathApplies
    <3>2. i + 1 \in DOMAIN Path(c) /\ i + 1 # 1 /\ (i + 1) - 1 = i
      BY <1>0, <3>1
    <3>3. PICK j : j = i + 1
      OBVIOUS
    <3> QED  BY <1>3, <2>2, <3>2, <3>3, PathApplies
  <2> QED  BY <2>1, <2>2
<1>4. ASSUME NEW g \in Goroutines, Emit(g)
      PROVE  \/ \E j \in DOMAIN Path(c) : Path(c)'[i] = Path(c)[j]
             \/ held[g] # << >> /\ Path(c)'[i] = held[g][1]
  <2>1. PICK n : n = held[g][1]
    OBVIOUS
  <2>2. held[g] # << >> /\ n \in Notes /\ UNCHANGED <<watcher, hostConn>>
    BY <1>4, <2>1, BoxLength DEF Emit, ConnInv, Types, connVars
  <2>3. CASE wire' = wire
    BY <1>2, <2>2, <2>3 DEF Path
  <2>4. CASE peer # 0 /\ wire' = [wire EXCEPT ![hostConn] = Append(@, n)]
    <3>1. hostConn \in Conns
      BY <2>4, PeerConn
    <3>2. CASE hostConn # c
      BY <1>2, <2>2, <2>4, <3>1, <3>2, PathEmits
    <3>3. CASE hostConn = c
      <4>1. /\ Len(Path(c)') = Len(Path(c)) + 1 /\ Path(c)'[Len(Path(c)) + 1] = n
            /\ \A j \in DOMAIN Path(c) : Path(c)'[j] = Path(c)[j]
        BY <2>2, <2>4, <3>1, <3>3, PathEmits
      <4>2. i \in DOMAIN Path(c) \/ i = Len(Path(c)) + 1
        BY <1>0, <4>1
      <4> QED  BY <2>1, <2>2, <4>1, <4>2
    <3> QED  BY <3>2, <3>3
  <2>5. wire' = wire \/ (peer # 0 /\ wire' = [wire EXCEPT ![hostConn] = Append(@, n)])
    BY <1>4, <2>1 DEF Emit
  <2> QED  BY <2>3, <2>4, <2>5
<1>5. ASSUME NEW d \in Conns, TakeEvent(d) PROVE \E j \in DOMAIN Path(c) : Path(c)'[i] = Path(c)[j]
  BY <1>1, <1>5, PathTakes
<1>6. ASSUME NEW d \in Conns, NEW ph, NEW prev, NEW id, NEW list,
             watcher' = [watcher EXCEPT ![d] = At(ph, prev, id, list, << >>)],
             wire' = [wire EXCEPT ![d] = << >>]
      PROVE  Path(c)' = Path(c) \/ Path(c)' = << >>
  <2>1. watcher'[d] = At(ph, prev, id, list, << >>) /\ wire'[d] = << >>
    BY <1>6 DEF ConnInv, Types
  <2>2. d # c => watcher'[c] = watcher[c] /\ wire'[c] = wire[c]
    BY <1>6 DEF ConnInv, Types
  <2>3. << >> \o << >> = << >>
    BY ConcatEmptySeq, EmptySeq
  <2>4. watcher'[d].event = << >>
    BY <2>1 DEF At
  <2>5. d = c => Path(c)' = << >>
    BY <2>1, <2>3, <2>4 DEF Path
  <2>6. d # c => Path(c)' = Path(c)
    BY <2>2 DEF Path
  <2> QED  BY <2>5, <2>6
<1>7. ASSUME UNCHANGED wire, watcher'[c].event = watcher[c].event PROVE Path(c)' = Path(c)
  BY <1>7 DEF Path
<1>8. ASSUME NEW d \in Conns, ~Phase(d, "applying"), NEW ph, NEW prev, NEW id, NEW list,
             watcher' = [watcher EXCEPT ![d] = At(ph, prev, id, list, << >>)], UNCHANGED wire
      PROVE  Path(c)' = Path(c)
  <2>1. watcher'[d] = At(ph, prev, id, list, << >>)
    BY <1>8 DEF ConnInv, Types
  <2>2. watcher'[d].event = << >> /\ watcher[d].event = << >>
    BY <1>8, <2>1 DEF At, ConnInv, Shapes
  <2>3. d # c => watcher'[c] = watcher[c]
    BY <1>8 DEF ConnInv, Types
  <2> QED  BY <1>7, <1>8, <2>2, <2>3
<1>9. ASSUME NEW d \in Conns, Register(d) \/ ClosePrevious(d) \/ ListSessions(d) \/ Replace(d)
      PROVE  Path(c)' = Path(c)
  <2>1. ~Phase(d, "applying") /\ UNCHANGED wire
    BY <1>9 DEF Register, ClosePrevious, ListSessions, Replace, Phase, ConnInv, Shapes, Types, Conns
  <2>2. \E ph, prev, id, list : watcher' = [watcher EXCEPT ![d] = At(ph, prev, id, list, << >>)]
    BY <1>9 DEF Register, ClosePrevious, ListSessions, Replace, Resting
  <2> QED  BY <1>8, <2>1, <2>2
<1>10. ASSUME NEW d \in Conns, SyncFails(d) \/ WatchEnds(d) \/ Initialize(d)
       PROVE  Path(c)' = Path(c) \/ Path(c)' = << >>
  <2>1. wire' = [wire EXCEPT ![d] = << >>]
    BY <1>10 DEF SyncFails, WatchEnds, Initialize
  <2>2. \E ph, prev, id, list : watcher' = [watcher EXCEPT ![d] = At(ph, prev, id, list, << >>)]
    BY <1>10 DEF SyncFails, WatchEnds, Initialize, Resting
  <2> QED  BY <1>6, <2>1, <2>2
<1>11. ASSUME NEW d \in Conns, CheckCurrent(d) PROVE Path(c)' = Path(c)
  BY <1>7, <1>11 DEF CheckCurrent, ConnInv, Types, Watchers
<1>12. CASE Path(c)' = << >>
  BY <1>0, <1>12, EmptySeq
<1>13. ASSUME UNCHANGED <<wire, watcher>> PROVE Path(c)' = Path(c)
  BY <1>7, <1>13
<1>14. CASE SessionStep
  BY <1>2, <1>4, <1>13, <1>14 DEF SessionStep, AnnounceStep, Create, Dispose, Dispatch, AgentEvent, Summarise
<1> QED
  BY <1>2, <1>3, <1>5, <1>9, <1>10, <1>11, <1>12, <1>13, <1>14 DEF Next, SessionStep, WatchStep, vars,
     ConnLost, Unregister, Disconnect, HostDrops, HostCrash

LEMMA NoteFacts ==
    ASSUME ConnInv, HostInv
    PROVE  /\ \A g \in Goroutines : held[g] # << >> =>
                 /\ held[g][1] \in Notes /\ held[g][1].session \in born
                 /\ held[g][1].kind = "removed" => sess[held[g][1].session] = 0
           /\ \A c \in Conns : \A i \in DOMAIN Path(c) :
                 /\ Path(c)[i] \in Notes /\ Path(c)[i].session \in born /\ Path(c)[i].kind # "dirty"
                 /\ Path(c)[i].kind = "removed" => sess[Path(c)[i].session] = 0
           /\ \A n \in Notes : n.session \in Sessions /\ n.version \in Versions
           /\ born \subseteq Sessions
<1>1. ASSUME NEW g \in Goroutines, held[g] # << >>
      PROVE  /\ held[g][1] \in Notes /\ held[g][1].session \in born
             /\ held[g][1].kind = "removed" => sess[held[g][1].session] = 0
  <2>1. held[g][1] \in Notes /\ held[g][1].session \in born /\ born \subseteq Sessions
    BY <1>1, BoxLength DEF ConnInv, Types, HostInv, Births
  <2>2. g = "reader" \/ g = "sdk"
    BY DEF Goroutines
  <2> QED  BY <1>1, <2>1, <2>2 DEF HostInv, Announcing, Holding
<1>2. \A n \in Notes : n.session \in Sessions /\ n.version \in Versions
  BY CatalogAssumption DEF Notes, Versions
<1> QED  BY <1>1, <1>2, PathType DEF HostInv, Births, ConnInv, Types

LEMMA BirthsStay ==
    ASSUME ConnInv, ConnInv', HostInv, [Next]_vars PROVE Births'
<1>1. /\ \A s \in Sessions : s \notin born =>
            /\ sess[s] = 0 /\ rows[s] = 0
            /\ \A c \in Conns : watcher[c].list[s] = 0 /\ known[c][s] = 0
      /\ born \subseteq Sessions
  BY DEF HostInv, Births, ConnInv, Types
<1>2. ASSUME NEW s \in Sessions, s \notin born'
      PROVE  rows'[s] = 0 /\ \A c \in Conns : watcher'[c].list[s] = 0 /\ known'[c][s] = 0
  <2>0. s \notin born
    BY <1>2, Lives
  <2>1. ASSUME NEW d \in Conns, NEW ph, NEW prev, NEW id, NEW list, NEW event, list[s] = 0,
               watcher' = [watcher EXCEPT ![d] = At(ph, prev, id, list, event)]
        PROVE  \A c \in Conns : watcher'[c].list[s] = 0
    <3>1. watcher'[d] = At(ph, prev, id, list, event) /\ \A c \in Conns : c # d => watcher'[c] = watcher[c]
      BY <2>1 DEF ConnInv, Types
    <3> QED  BY <1>1, <2>0, <2>1, <3>1 DEF At
  <2>2. ASSUME NEW d \in Conns, ListSessions(d) PROVE \A c \in Conns : watcher'[c].list[s] = 0
    BY <1>1, <2>0, <2>1, <2>2 DEF ListSessions
  <2>3. ASSUME NEW d \in Conns, Register(d) \/ ClosePrevious(d) \/ Initialize(d) \/ Replace(d)
                 \/ TakeEvent(d) \/ Apply(d) \/ SyncFails(d) \/ WatchEnds(d)
        PROVE  \A c \in Conns : watcher'[c].list[s] = 0
    <3>1. \E ph, prev, id, event : watcher' = [watcher EXCEPT ![d] = At(ph, prev, id, NoSummary, event)]
      BY <2>3 DEF Register, ClosePrevious, Initialize, Replace, TakeEvent, Apply, SyncFails, WatchEnds,
         Resting
    <3>2. PICK ph, prev, id, event : watcher' = [watcher EXCEPT ![d] = At(ph, prev, id, NoSummary, event)]
      BY <3>1
    <3>3. NoSummary[s] = 0
      BY Constants
    <3> QED  BY <2>1, <3>2, <3>3
  <2>4. ASSUME NEW d \in Conns, CheckCurrent(d) PROVE \A c \in Conns : watcher'[c].list[s] = 0
    BY <1>1, <2>0, <2>4 DEF CheckCurrent, ConnInv, Types, Watchers
  <2>5. \A c \in Conns : watcher'[c].list[s] = 0
    BY <1>1, <2>0, <2>2, <2>3, <2>4 DEF Next, WatchStep, AnnounceStep, vars, Create, Dispose, Dispatch,
       AgentEvent, Summarise, Emit, ConnLost, Unregister, Disconnect, HostDrops, HostCrash
  <2>6. ASSUME NEW d \in Conns, Replace(d)
        PROVE  rows'[s] = 0 /\ \A c \in Conns : known'[c][s] = 0
    BY <1>1, <2>0, <2>6 DEF Replace, ConnInv, Types
  <2>7. ASSUME NEW d \in Conns, Apply(d)
        PROVE  rows'[s] = 0 /\ \A c \in Conns : known'[c][s] = 0
    <3>1. PICK n : n = watcher[d].event[1]
      OBVIOUS
    <3>2. n.session \in born /\ n.session \in Sessions
      BY <2>7, <3>1, PathApplies, NoteFacts
    <3>3. \/ UNCHANGED <<known, rows>>
          \/ /\ known' = [known EXCEPT ![d][n.session] = n.version]
             /\ rows' = [rows EXCEPT ![n.session] = n.version]
      BY <2>7, <3>1 DEF Apply
    <3>4. n.session # s
      BY <2>0, <3>2
    <3>5. \A c \in Conns : known'[c][s] = known[c][s]
      <4>1. PICK k : k = [known[d] EXCEPT ![n.session] = n.version]
        OBVIOUS
      <4>2. k[s] = known[d][s]
        BY <3>4, <4>1 DEF ConnInv, Types, Summaries
      <4>3. known' = known \/ known' = [known EXCEPT ![d] = k]
        BY <3>3, <4>1
      <4> QED  BY <4>2, <4>3 DEF ConnInv, Types
    <3>6. rows'[s] = rows[s]
      BY <3>2, <3>3, <3>4 DEF ConnInv, Types, Summaries
    <3> QED  BY <1>1, <2>0, <3>5, <3>6
  <2>8. ASSUME NEW d \in Conns, SyncFails(d) \/ WatchEnds(d)
        PROVE  rows'[s] = 0 /\ \A c \in Conns : known'[c][s] = 0
    BY <1>1, <2>0, <2>8, Constants DEF SyncFails, WatchEnds, ConnInv, Types
  <2>9. rows'[s] = 0 /\ \A c \in Conns : known'[c][s] = 0
    BY <1>1, <2>0, <2>6, <2>7, <2>8 DEF Next, WatchStep, AnnounceStep, vars, Create, Dispose, Dispatch,
       AgentEvent, Summarise, Emit, ConnLost, Unregister, Disconnect, HostDrops, HostCrash, Register,
       ClosePrevious, Initialize, ListSessions, CheckCurrent, TakeEvent
  <2> QED  BY <2>5, <2>9
<1>3. ASSUME NEW g \in Goroutines, held'[g] # << >> PROVE held'[g][1].session \in born'
  <2>1. \A h \in Goroutines : held[h] # << >> => held[h][1].session \in born'
    BY Lives, NoteFacts
  <2>2. ASSUME NEW h, NEW kind, NEW s, NEW v, NEW to, NowHolds(h, kind, s, v, to), s \in born'
        PROVE  held'[g][1].session \in born'
    BY <1>3, <2>1, <2>2 DEF NowHolds
  <2>3. ASSUME NEW h, NowFree(h)
        PROVE  held'[g][1].session \in born'
    BY <1>3, <2>1, <2>3 DEF NowFree
  <2>4. ASSUME NEW s \in Sessions, Created(s) PROVE held'[g][1].session \in born'
    BY <2>2, <2>4 DEF Created
  <2>5. ASSUME NEW s \in Sessions, Disposed(s) PROVE held'[g][1].session \in born'
    BY <1>1, <2>2, <2>5 DEF Disposed
  <2>6. ASSUME NEW h \in Goroutines, NEW s \in Sessions, Changed(h, s)
        PROVE  held'[g][1].session \in born'
    BY <1>1, <2>2, <2>6 DEF Changed
  <2>7. ASSUME NEW h \in Goroutines, NEW s \in Sessions, Summarised(h, s)
        PROVE  held'[g][1].session \in born'
    BY <2>1, <2>2, <2>3, <2>7 DEF Summarised
  <2>8. ASSUME NEW h \in Goroutines, Emitted(h) PROVE held'[g][1].session \in born'
    BY <2>3, <2>8 DEF Emitted
  <2>9. CASE UNCHANGED hostVars
    BY <1>3, <2>1, <2>9 DEF hostVars
  <2>10. ~HostCrash
    BY <1>3 DEF HostCrash
  <2> QED  BY <2>4, <2>5, <2>6, <2>7, <2>8, <2>9, <2>10, SessionMoves, Elsewhere
<1>4. ASSUME NEW c \in Conns, NEW i \in DOMAIN Path(c)'
      PROVE  /\ Path(c)'[i].session \in born' /\ Path(c)'[i].kind # "dirty"
             /\ Path(c)'[i].kind = "removed" => sess'[Path(c)'[i].session] = 0
  <2>1. PICK n : /\ n = Path(c)'[i] /\ n.session \in born /\ n.kind # "dirty"
                 /\ n.kind = "removed" => sess[n.session] = 0
    BY PathSteps, NoteFacts DEF Emit
  <2> QED  BY <2>1, Lives
<1> QED  BY <1>2, <1>3, <1>4, Lives DEF Births

LEMMA PeerMoves ==
    ASSUME [Next]_vars
    PROVE  \/ UNCHANGED <<peer, sent, overtaken>>
           \/ \E g \in Goroutines : Emit(g) /\ UNCHANGED peer
           \/ peer' = 0 /\ sent' = NoSummary /\ overtaken' = {}
           \/ \E c \in Conns : /\ Initialize(c) /\ held["reader"] = << >> /\ UNCHANGED hostVars
                               /\ peer' = syncs + 1 /\ sent' = NoSummary /\ overtaken' = {}
BY DEF Next, WatchStep, AnnounceStep, vars, historyVars, Create, Dispose, Dispatch, AgentEvent, Summarise,
   Emit, Register, ClosePrevious, ConnLost, Unregister, Disconnect, HostDrops, HostCrash, PeerGone,
   Initialize, ReaderIdle, ListSessions, CheckCurrent, Replace, TakeEvent, Apply, SyncFails, WatchEnds

LEMMA SessionStepPeer == ASSUME SessionStep PROVE UNCHANGED <<peer, watcher, known, rows>>
BY DEF SessionStep, AnnounceStep, Create, Dispose, Dispatch, AgentEvent, Summarise, Emit

LEMMA AnnouncingStays ==
    ASSUME ConnInv, HostInv, [Next]_vars PROVE Announcing'
<1>1. /\ "reader" \in Goroutines /\ "sdk" \in Goroutines /\ "reader" # "sdk"
      /\ \A g \in Goroutines : \A s : Holding(g, s) => s \in born /\ s \in Sessions
  BY NoteFacts DEF Goroutines, Holding
<1>2. /\ \A s \in Sessions : Holding("sdk", s) =>
            /\ held["sdk"][1].kind \in {"dirty", "changed"}
            /\ sess[s] = 0 \/ s \in prompted
      /\ \A s \in Sessions : Holding("reader", s) =>
            /\ held["reader"][1].kind = "added" =>
                  held["reader"][1].version = sess[s] /\ sess[s] # 0 /\ s \notin prompted
            /\ held["reader"][1].kind = "removed" => sess[s] = 0
            /\ held["reader"][1].kind # "dirty" /\ peer # 0 => held["reader"][1].to = peer
  BY DEF HostInv, Announcing
<1>3. prompted \subseteq born /\ \A s \in Sessions : s \notin born => sess[s] = 0
  BY DEF ConnInv, Types, HostInv, Births
<1>4. CASE SessionStep
  <2>1. UNCHANGED peer
    BY <1>4, SessionStepPeer
  <2>2. ASSUME NEW s \in Sessions, Created(s) PROVE Announcing'
    <3>1. clock + 1 # 0
      BY <2>2, CatalogAssumption DEF ConnInv, Types, Versions
    <3> QED  BY <1>1, <1>2, <1>3, <2>1, <2>2, <3>1 DEF Created, Announcing, Holding, NowHolds
  <2>3. ASSUME NEW s \in Sessions, Disposed(s) PROVE Announcing'
    BY <1>1, <1>2, <1>3, <2>1, <2>3 DEF Disposed, Announcing, Holding, NowHolds
  <2>4. ASSUME NEW g \in Goroutines, NEW s \in Sessions, Changed(g, s) PROVE Announcing'
    BY <1>1, <1>2, <1>3, <2>1, <2>4 DEF Changed, Announcing, Holding, NowHolds
  <2>5. ASSUME NEW g \in Goroutines, NEW s \in Sessions, Summarised(g, s) PROVE Announcing'
    BY <1>1, <1>2, <1>3, <2>1, <2>5 DEF Summarised, Announcing, Holding, NowHolds, NowFree
  <2>6. ASSUME NEW g \in Goroutines, Emitted(g) PROVE Announcing'
    BY <1>1, <1>2, <1>3, <2>1, <2>6 DEF Emitted, Announcing, Holding, NowFree
  <2> QED  BY <1>4, <2>2, <2>3, <2>4, <2>5, <2>6, SessionMoves
<1>5. CASE UNCHANGED hostVars
  BY <1>1, <1>2, <1>5, PeerMoves DEF hostVars, Announcing, Holding
<1>6. CASE HostCrash
  BY <1>1, <1>6 DEF HostCrash, Announcing, Holding
<1> QED  BY <1>4, <1>5, <1>6, Elsewhere

LEMMA OvertakingStays ==
    ASSUME ConnInv, HostInv, [Next]_vars PROVE Overtaking'
<1>1. /\ "reader" \in Goroutines /\ "sdk" \in Goroutines /\ "reader" # "sdk"
      /\ \A g \in Goroutines : g = "reader" \/ g = "sdk"
      /\ \A g \in Goroutines : \A s : Holding(g, s) => s \in born /\ s \in Sessions
  BY NoteFacts DEF Goroutines, Holding
<1>2. \A s \in Sessions :
        /\ s \notin born => sent[s] = 0 /\ sess[s] = 0
        /\ sess[s] # 0 =>
              /\ sent[s] <= sess[s]
              /\ \A g \in Goroutines : Holding(g, s) /\ held[g][1].kind # "dirty" =>
                    /\ held[g][1].version <= sess[s]
                    /\ peer # 0 /\ held[g][1].to = peer /\ held[g][1].version # sess[s] =>
                          Pending(s) \/ sent[s] = sess[s]
  BY DEF HostInv, Overtaking, Births
<1>3. /\ clock \in Nat /\ \A s \in Sessions : sess[s] \in Nat /\ sess[s] <= clock /\ sent[s] \in Nat
      /\ \A g \in Goroutines : held[g] # << >> => held[g][1].version \in Nat
  BY NoteFacts, CatalogAssumption DEF HostInv, Births, ConnInv, Types, Summaries, Versions
<1>4. CASE SessionStep
  <2>1. UNCHANGED peer
    BY <1>4, SessionStepPeer
  <2>2. ASSUME NEW s \in Sessions, Created(s) PROVE Overtaking'
    <3>1. UNCHANGED sent
      BY <2>2 DEF Created, Create, historyVars
    <3> QED  BY <1>1, <1>2, <1>3, <2>1, <2>2, <3>1 DEF Created, Overtaking, Holding, NowHolds, Pending
  <2>3. ASSUME NEW s \in Sessions, Disposed(s) PROVE Overtaking'
    <3>1. UNCHANGED sent
      BY <2>3 DEF Disposed, Dispose, historyVars
    <3> QED  BY <1>1, <1>2, <1>3, <2>1, <2>3, <3>1 DEF Disposed, Overtaking, Holding, NowHolds, Pending
  <2>4. ASSUME NEW g \in Goroutines, NEW s \in Sessions, Changed(g, s) PROVE Overtaking'
    <3>1. UNCHANGED sent
      BY <2>4 DEF Changed, Dispatch, AgentEvent, historyVars
    <3> QED  BY <1>1, <1>2, <1>3, <2>1, <2>4, <3>1 DEF Changed, Overtaking, Holding, NowHolds, Pending
  <2>5. ASSUME NEW g \in Goroutines, NEW s \in Sessions, Summarised(g, s) PROVE Overtaking'
    <3>1. UNCHANGED sent
      BY <2>5 DEF Summarised, Summarise, historyVars
    <3> QED  BY <1>1, <1>2, <1>3, <2>1, <2>5, <3>1 DEF Summarised, Overtaking, Holding, NowHolds,
                NowFree, Pending
  <2>6. ASSUME NEW g \in Goroutines, Emitted(g) PROVE Overtaking'
    <3>1. PICK n : n = held[g][1]
      OBVIOUS
    <3>2. \/ ~(n.to # 0 /\ n.to = peer) /\ UNCHANGED sent
          \/ /\ n.to # 0 /\ n.to = peer
             /\ \/ n.kind = "changed" /\ n.version < sent[n.session] /\ UNCHANGED sent
                \/ /\ ~(n.kind = "changed" /\ n.version < sent[n.session])
                   /\ sent' = [sent EXCEPT ![n.session] = n.version]
      BY <2>6, <3>1 DEF Emitted, Emit, historyVars
    <3>3. n.session \in Sessions /\ n.session \in born /\ n.version \in Nat /\ Holding(g, n.session)
      BY <1>1, <1>3, <2>6, <3>1 DEF Emitted, Holding
    <3>4. PICK s \in Sessions : s = n.session
      BY <3>3
    <3>5. \/ ~(n.to # 0 /\ n.to = peer) /\ UNCHANGED sent
          \/ n.kind = "changed" /\ n.version < sent[s] /\ UNCHANGED sent
          \/ /\ n.to # 0 /\ n.to = peer /\ ~(n.kind = "changed" /\ n.version < sent[s])
             /\ sent'[s] = n.version /\ \A t \in Sessions : t # s => sent'[t] = sent[t]
      BY <3>2, <3>4 DEF ConnInv, Types, Summaries
    <3>6. sess[s] # 0 => n.version <= sess[s]
      BY <1>2, <2>6, <3>1, <3>3, <3>4 DEF Emitted
    <3>7. sess[s] # 0 => n.kind = "changed" \/ n.version = sess[s]
      <4>1. n.kind \in {"changed", "added", "removed"}
        BY <2>6, <3>1, NoteFacts DEF Emitted, Notes
      <4> QED  BY <1>1, <2>6, <3>1, <3>3, <3>4, <4>1 DEF HostInv, Announcing, Emitted
    <3>8. ASSUME NEW t \in Sessions, t # s PROVE Pending(t) => Pending(t)'
      BY <2>1, <2>6, <3>1, <3>4, <3>8 DEF Emitted, Pending, Holding, NowFree
    <3>9. /\ s \notin born' => sent'[s] = 0
          /\ sess'[s] # 0 => sent'[s] <= sess'[s]
      BY <1>2, <2>6, <3>3, <3>4, <3>5, <3>6 DEF Emitted
    <3>10. ASSUME NEW h \in Goroutines, Holding(h, s)', held'[h][1].kind # "dirty", sess'[s] # 0
           PROVE  /\ held'[h][1].version <= sess'[s]
                  /\ peer' # 0 /\ held'[h][1].to = peer' /\ held'[h][1].version # sess'[s] =>
                          Pending(s)' \/ sent'[s] = sess'[s]
      <4>1. h # g /\ held'[h] = held[h] /\ UNCHANGED sess
        BY <2>6, <3>10 DEF Emitted, NowFree, Holding
      <4>2. Holding(h, s) /\ held[h][1].kind # "dirty"
        BY <3>10, <4>1 DEF Holding
      <4>3. ASSUME sent[s] = sess[s] PROVE sent'[s] = sess[s]
        BY <1>3, <3>3, <3>5, <3>6, <3>7, <3>10, <4>1, <4>3
      <4>4. ASSUME Pending(s), peer # 0 PROVE Pending(s)' \/ sent'[s] = sess[s]
        <5>1. PICK i \in Goroutines :
                 Holding(i, s) /\ (held[i][1].kind = "dirty"
                                   \/ (held[i][1].version = sess[s] /\ held[i][1].to = peer))
          BY <4>4 DEF Pending
        <5>2. CASE i = g
          BY <1>2, <1>3, <2>6, <3>1, <3>3, <3>4, <3>5, <3>10, <4>1, <4>4, <5>1, <5>2 DEF Emitted
        <5>3. CASE i # g
          BY <2>1, <2>6, <4>1, <5>1, <5>3 DEF Emitted, NowFree, Pending, Holding
        <5> QED  BY <5>2, <5>3
      <4> QED  BY <1>2, <2>1, <3>10, <4>1, <4>2, <4>3, <4>4
    <3>11. ASSUME NEW t \in Sessions, t # s, sess'[t] # 0, NEW h \in Goroutines, Holding(h, t)',
                  held'[h][1].kind # "dirty"
           PROVE  /\ held'[h][1].version <= sess'[t]
                  /\ peer' # 0 /\ held'[h][1].to = peer' /\ held'[h][1].version # sess'[t] =>
                          Pending(t)' \/ sent'[t] = sess'[t]
      BY <1>2, <2>1, <2>6, <3>5, <3>8, <3>11 DEF Emitted, NowFree, Holding
    <3> QED  BY <1>2, <2>6, <3>5, <3>9, <3>10, <3>11 DEF Overtaking, Emitted
  <2> QED  BY <1>4, <2>2, <2>3, <2>4, <2>5, <2>6, SessionMoves
<1>5. CASE UNCHANGED hostVars
  <2>1. CASE UNCHANGED <<peer, sent>>
    BY <1>2, <1>5, <2>1 DEF hostVars, Overtaking, Holding, Pending
  <2>2. CASE peer' = 0 /\ sent' = NoSummary
    BY <1>2, <1>3, <1>5, <2>2, Constants DEF hostVars, Overtaking, Holding
  <2>3. CASE peer' = syncs + 1 /\ sent' = NoSummary
    <3>1. \A g \in Goroutines : held[g] # << >> => held[g][1].to # peer'
      <4>1. \A g \in Goroutines : held[g] # << >> => held[g][1].to \in Nat /\ held[g][1].to <= syncs
        BY NoteFacts DEF ConnInv, Peers, Notes
      <4>2. syncs \in Nat
        BY DEF ConnInv, Types
      <4> QED  BY <2>3, <4>1, <4>2
    <3> QED  BY <1>2, <1>3, <1>5, <2>3, <3>1, Constants DEF hostVars, Overtaking, Holding
  <2>4. \A g \in Goroutines : ~Emit(g)
    BY <1>5 DEF hostVars, Emit, Releases, ConnInv, Types
  <2> QED  BY <2>1, <2>2, <2>3, <2>4, PeerMoves
<1>6. CASE HostCrash
  BY <1>1, <1>6, Constants DEF HostCrash, PeerGone, Overtaking
<1> QED  BY <1>4, <1>5, <1>6, Elsewhere

-----------------------------------------------------------------------------
(* The rows *)

\* Only the watcher of a connection that is not down writes, and there is one.
LEMMA OneWriter ==
    ASSUME ConnInv, NEW c \in Conns, NEW d \in Conns, c \notin down, d \notin down,
           watcher[c].phase \notin {"none", "registered"}, watcher[d].phase \notin {"none", "registered"}
    PROVE  c = d
<1>1. c <= conns /\ d <= conns /\ c \in Nat /\ d \in Nat /\ conns \in Nat
  BY DEF ConnInv, Types, Shapes, Phase, Conns
<1>2. \A e \in Conns : e < conns => e \in down \/ (Phase(conns, "registered") /\ watcher[conns].prev = e)
  BY DEF ConnInv, NewestConn
<1>3. c < conns \/ c = conns
  BY <1>1
<1>4. d < conns \/ d = conns
  BY <1>1
<1> QED  BY <1>2, <1>3, <1>4 DEF Phase

LEMMA NewestWrites ==
    ASSUME ConnInv, NEW c \in Conns, c \notin down, Phase(c, "replacing") \/ Phase(c, "applying")
    PROVE  c = conns \/ Phase(conns, "registered")
BY DEF ConnInv, Types, Shapes, NewestConn, Phase, Conns

LEMMA PromptWrites ==
    ASSUME Prompt, ConnInv, NEW c \in Conns, MayWrite(c) PROVE c \notin down
<1>1. lag \in Nat /\ MaxLag = 0
  BY DEF Prompt, ConnInv, Types
<1> QED  BY <1>1 DEF MayWrite

LEMMA RowsKnownStay ==
    ASSUME Prompt, ConnInv, ConnInv', HostInv, RowsKnown, [Next]_vars PROVE RowsKnown'
<1> DEFINE Applied(c) == Phase(c, "watching") \/ Phase(c, "applying")
           Listed(c)  == Phase(c, "listed") \/ Phase(c, "replacing")
<1>0. conns # 0 => conns \in Conns
  BY CatalogAssumption DEF ConnInv, Types, Conns
<1>1. conns # 0 /\ Applied(conns) => rows = known[conns]
  BY DEF RowsKnown
<1>2. \A c \in Conns : c \notin down /\ Listed(c) =>
          \A s \in Sessions : sess[s] # 0 /\ watcher[c].list[s] = 0 => rows[s] = 0
  BY DEF RowsKnown
<1>3. \A s \in Sessions : sess'[s] # 0 => sess[s] # 0 \/ rows[s] = 0
  BY Lives DEF HostInv, Births
<1>4. ASSUME UNCHANGED <<rows, known, conns, watcher>>, down \subseteq down' PROVE RowsKnown'
  BY <1>1, <1>2, <1>3, <1>4 DEF RowsKnown, Phase
<1>5. ASSUME NEW d \in Conns, Register(d) PROVE RowsKnown'
  <2>1. /\ d = conns' /\ UNCHANGED <<rows, known, down>> /\ watcher'[d].phase = "registered"
        /\ \A c \in Conns : c # d => watcher'[c] = watcher[c]
    BY <1>5 DEF Register, ConnInv, Types, At
  <2> QED  BY <1>2, <1>3, <2>1 DEF RowsKnown, Phase
<1>6. ASSUME NEW d \in Conns, UNCHANGED <<rows, conns, down>>, watcher'[d].phase \in {"start", "initialized", "ended"},
             \A c \in Conns : c # d => watcher'[c] = watcher[c] /\ known'[c] = known[c]
      PROVE  RowsKnown'
  BY <1>0, <1>1, <1>2, <1>3, <1>6 DEF RowsKnown, Phase
<1>7. ASSUME NEW d \in Conns, ClosePrevious(d) PROVE RowsKnown'
  <2>1. /\ UNCHANGED <<rows, conns, known>> /\ down \subseteq down' /\ watcher'[d].phase = "start"
        /\ \A c \in Conns : c # d => watcher'[c] = watcher[c]
    BY <1>7 DEF ClosePrevious, ConnInv, Types, At, Resting
  <2> QED  BY <1>0, <1>1, <1>2, <1>3, <2>1 DEF RowsKnown, Phase
<1>8. ASSUME NEW d \in Conns, Initialize(d) \/ SyncFails(d) \/ WatchEnds(d) PROVE RowsKnown'
  <2>1. /\ UNCHANGED <<rows, conns, down>> /\ watcher'[d].phase \in {"start", "initialized", "ended"}
        /\ \A c \in Conns : c # d => watcher'[c] = watcher[c] /\ known'[c] = known[c]
    BY <1>8 DEF Initialize, SyncFails, WatchEnds, ConnInv, Types, At, Resting, connVars
  <2> QED  BY <1>6, <2>1
<1>9. ASSUME NEW d \in Conns, ListSessions(d) PROVE RowsKnown'
  <2>1. /\ UNCHANGED <<rows, conns, down, known, sess>>
        /\ watcher'[d].phase = "listed" /\ watcher'[d].list = sess
        /\ \A c \in Conns : c # d => watcher'[c] = watcher[c]
    BY <1>9 DEF ListSessions, ConnInv, Types, At, connVars, hostVars
  <2> QED  BY <1>0, <1>1, <1>2, <1>3, <2>1 DEF RowsKnown, Phase
<1>10. ASSUME NEW d \in Conns, CheckCurrent(d) PROVE RowsKnown'
  <2>1. /\ UNCHANGED <<rows, conns, down, known, sess>> /\ Phase(d, "listed")
        /\ watcher'[d].phase = "replacing" /\ watcher'[d].list = watcher[d].list
        /\ \A c \in Conns : c # d => watcher'[c] = watcher[c]
    BY <1>10 DEF CheckCurrent, ConnInv, Types, Watchers, connVars, hostVars
  <2> QED  BY <1>0, <1>1, <1>2, <2>1 DEF RowsKnown, Phase
<1>11. ASSUME NEW d \in Conns, TakeEvent(d) PROVE RowsKnown'
  <2>1. /\ UNCHANGED <<rows, conns, down, known, sess>> /\ Phase(d, "watching")
        /\ watcher'[d].phase = "applying"
        /\ \A c \in Conns : c # d => watcher'[c] = watcher[c]
    BY <1>11 DEF TakeEvent, ConnInv, Types, At, connVars, hostVars
  <2> QED  BY <1>0, <1>1, <1>2, <2>1 DEF RowsKnown, Phase
<1>12. ASSUME NEW d \in Conns, Replace(d) PROVE RowsKnown'
  <2>1. /\ UNCHANGED <<conns, down, sess>> /\ Phase(d, "replacing") /\ d \notin down
        /\ watcher'[d].phase = "watching" /\ rows' = watcher[d].list /\ known'[d] = watcher[d].list
        /\ \A c \in Conns : c # d => watcher'[c] = watcher[c]
    BY <1>12, PromptWrites DEF Replace, ConnInv, Types, At, connVars, hostVars
  <2>2. d = conns \/ Phase(conns, "registered")
    BY <2>1, NewestWrites
  <2>3. \A c \in Conns : c \notin down /\ Listed(c) => c = d
    BY <2>1, OneWriter DEF Phase
  <2> QED  BY <1>0, <2>1, <2>2, <2>3 DEF RowsKnown, Phase
<1>13. ASSUME NEW d \in Conns, Apply(d) PROVE RowsKnown'
  <2>1. /\ UNCHANGED <<conns, down, sess>> /\ Phase(d, "applying") /\ watcher'[d].phase = "watching"
        /\ \A c \in Conns : c # d => watcher'[c] = watcher[c]
    BY <1>13 DEF Apply, ConnInv, Types, At, connVars, hostVars
  <2>2. CASE UNCHANGED <<known, rows>>
    BY <1>0, <1>1, <1>2, <2>1, <2>2 DEF RowsKnown, Phase
  <2>3. ASSUME NEW n, MayWrite(d), known' = [known EXCEPT ![d][n.session] = n.version],
               rows' = [rows EXCEPT ![n.session] = n.version]
        PROVE  RowsKnown'
    <3>1. d \notin down /\ (d = conns \/ Phase(conns, "registered"))
      BY <2>1, <2>3, PromptWrites, NewestWrites
    <3>2. PICK k : k = [known[d] EXCEPT ![n.session] = n.version]
      OBVIOUS
    <3>3. known'[d] = k /\ (rows = known[d] => rows' = k)
      BY <2>3, <3>2 DEF ConnInv, Types
    <3>4. \A c \in Conns : c \notin down /\ Listed(c) => c = d
      BY <2>1, <3>1, OneWriter DEF Phase
    <3> QED  BY <1>0, <1>1, <2>1, <3>1, <3>3, <3>4 DEF RowsKnown, Phase
  <2> QED  BY <1>13, <2>2, <2>3 DEF Apply
<1>14. CASE UNCHANGED vars
  BY <1>4, <1>14 DEF vars, connVars
<1>15. ASSUME NEW d \in Conns, ConnLost(d) \/ Unregister(d) PROVE RowsKnown'
  BY <1>4, <1>15 DEF ConnLost, Unregister
<1>16. CASE Disconnect \/ HostDrops \/ HostCrash
  BY <1>4, <1>16 DEF Disconnect, HostDrops, HostCrash
<1>17. CASE SessionStep
  <2>1. UNCHANGED <<conns, down>>
    BY <1>17 DEF SessionStep, AnnounceStep, Create, Dispose, Dispatch, AgentEvent, Summarise, Emit, connVars
  <2> QED  BY <1>4, <1>17, <2>1, SessionStepPeer
<1> QED
  BY <1>5, <1>7, <1>8, <1>9, <1>10, <1>11, <1>12, <1>13, <1>14, <1>15, <1>16, <1>17
     DEF Next, SessionStep, WatchStep

\* Who is alive is never dropped from the rows.
LEMMA AliveKept ==
    ASSUME Prompt, ConnInv, ConnInv', HostInv, RowsKnown, [Next]_vars,
           NEW s \in Sessions, rows[s] # 0, rows'[s] = 0
    PROVE  sess[s] = 0
<1>1. ASSUME NEW d \in Conns, Replace(d) PROVE sess[s] = 0
  BY <1>1, PromptWrites DEF Replace, RowsKnown
<1>2. ASSUME NEW d \in Conns, Apply(d) PROVE sess[s] = 0
  <2>1. PICK n : n = watcher[d].event[1]
    OBVIOUS
  <2>2. /\ n \in Notes /\ n.kind # "dirty" /\ n.session \in Sessions
        /\ n.kind = "removed" => sess[n.session] = 0
    BY <1>2, <2>1, PathApplies, NoteFacts
  <2>3. UNCHANGED rows \/ rows' = [rows EXCEPT ![n.session] = n.version]
    BY <1>2, <2>1 DEF Apply
  <2>4. n.session = s /\ n.version = 0
    BY <2>2, <2>3 DEF ConnInv, Types, Summaries
  <2>5. n.kind = "removed"
    BY <2>2, <2>4 DEF Notes
  <2> QED  BY <2>2, <2>4, <2>5
<1> QED
  BY <1>1, <1>2 DEF Next, WatchStep, AnnounceStep, vars, Create, Dispose, Dispatch, AgentEvent, Summarise,
     Emit, Register, ClosePrevious, ConnLost, Unregister, Disconnect, HostDrops, HostCrash,
     Initialize, ListSessions, CheckCurrent, TakeEvent, SyncFails, WatchEnds

-----------------------------------------------------------------------------
(* What is known, what is on its way and what is about to be sent *)

\* The view on a session is not affected by what happens to others.
LEMMA Unaffected ==
    ASSUME NEW c \in Conns, NEW s \in Sessions, Mirrors(c, s), sess'[s] = sess[s],
           s \in overtaken => s \in overtaken', Pending(s) => Pending(s)',
           Holding("reader", s) => Holding("reader", s)' /\ held'["reader"][1] = held["reader"][1],
           About(c, s)' = About(c, s), \A i \in About(c, s) : Path(c)'[i] = Path(c)[i],
           Phase(c, "initialized")' <=> Phase(c, "initialized"), Base(c)'[s] = Base(c)[s]
    PROVE  Mirrors(c, s)'
<1>1. UpToDate(c, s) => UpToDate(c, s)'
  BY DEF UpToDate
<1>2. Removed(c, s) => Removed(c, s)'
  BY DEF Removed
<1>3. Introduced(c, s) => Introduced(c, s)'
  BY DEF Introduced
<1> QED  BY <1>1, <1>2, <1>3 DEF Mirrors

LEMMA SamePath ==
    ASSUME ConnInv, ConnInv', NEW c \in Conns, Len(Path(c)') = Len(Path(c)),
           \A i \in DOMAIN Path(c) : Path(c)'[i] = Path(c)[i]
    PROVE  \A s \in Sessions : /\ About(c, s)' = About(c, s)
                               /\ \A i \in About(c, s) : Path(c)'[i] = Path(c)[i]
BY PathType, NextPathType DEF About

LEMMA HostMoves ==
    ASSUME ConnInv, HostInv, Mirroring, SessionStep, ~\E g \in Goroutines : Emit(g) PROVE Mirroring'
<1>1. UNCHANGED <<peer, watcher, known, wire, overtaken>>
  BY DEF SessionStep, AnnounceStep, Create, Dispose, Dispatch, AgentEvent, Summarise, historyVars
<1>2. SUFFICES ASSUME NEW c \in Conns, Linked(c), NEW t \in Sessions PROVE Mirrors(c, t)'
  BY <1>1 DEF Mirroring, Linked
<1>3. /\ About(c, t)' = About(c, t) /\ \A i \in About(c, t) : Path(c)'[i] = Path(c)[i]
      /\ Phase(c, "initialized")' <=> Phase(c, "initialized")
      /\ Base(c)'[t] = Base(c)[t]
  BY <1>1 DEF About, Path, Phase, Base
<1>4. Mirrors(c, t) /\ peer # 0
  BY <1>2 DEF Mirroring, Linked
<1>5. /\ "reader" \in Goroutines /\ "sdk" \in Goroutines /\ "reader" # "sdk"
      /\ \A g \in Goroutines : \A s : Holding(g, s) => s \in born /\ s \in Sessions
      /\ \A i \in About(c, t) : t \in born
  BY NoteFacts DEF Goroutines, Holding, About
<1>6. ASSUME sess'[t] = sess[t], Pending(t) => Pending(t)',
             Holding("reader", t) => Holding("reader", t)' /\ held'["reader"][1] = held["reader"][1]
      PROVE  Mirrors(c, t)'
  BY <1>1, <1>3, <1>4, <1>6, Unaffected
<1>7. ASSUME NEW s \in Sessions, Created(s) PROVE Mirrors(c, t)'
  <2>1. CASE t # s
    <3>1. Pending(t) => Pending(t)'
      BY <1>1, <1>7, <2>1 DEF Created, NowHolds, Pending, Holding
    <3>2. ~Holding("reader", t) /\ sess'[t] = sess[t]
      BY <1>7, <2>1 DEF Created, Holding
    <3> QED  BY <1>6, <3>1, <3>2
  <2>2. CASE t = s
    <3>1. sess'[s] # 0 /\ About(c, s) = {}
      BY <1>5, <1>7, <2>2, CatalogAssumption DEF Created, ConnInv, Types, Versions
    <3>2. Holding("reader", s)' /\ held'["reader"][1].kind = "added"
      BY <1>7 DEF Created, NowHolds, Holding
    <3>3. Pending(s)'
      BY <1>1, <1>5, <1>7, <3>2 DEF Created, NowHolds, Pending
    <3> QED  BY <1>3, <2>2, <3>1, <3>2, <3>3 DEF Mirrors, UpToDate, Introduced
  <2> QED  BY <2>1, <2>2
<1>8. ASSUME NEW s \in Sessions, Disposed(s) PROVE Mirrors(c, t)'
  <2>1. CASE t # s
    BY <1>1, <1>6, <1>8, <2>1 DEF Disposed, NowHolds, Pending, Holding
  <2>2. CASE t = s
    BY <1>8, <2>2 DEF Disposed, NowHolds, Holding, Mirrors, Removed
  <2> QED  BY <2>1, <2>2
<1>9. ASSUME NEW g \in Goroutines, NEW s \in Sessions, Changed(g, s) PROVE Mirrors(c, t)'
  <2>1. Holding("reader", t) => Holding("reader", t)' /\ held'["reader"][1] = held["reader"][1]
    BY <1>5, <1>9 DEF Changed, NowHolds, Holding
  <2>2. CASE t # s
    <3>1. Pending(t) => Pending(t)'
      BY <1>1, <1>9, <2>2 DEF Changed, NowHolds, Pending, Holding
    <3> QED  BY <1>6, <1>9, <2>1, <2>2, <3>1 DEF Changed
  <2>3. CASE t = s
    <3>1. sess'[s] # 0 /\ sess[s] # 0
      BY <1>9, CatalogAssumption DEF Changed, ConnInv, Types, Versions
    <3>2. Pending(s)'
      BY <1>9 DEF Changed, NowHolds, Pending, Holding
    <3>3. Introduced(c, s) => Introduced(c, s)'
      BY <1>3, <2>1, <2>3 DEF Introduced
    <3> QED  BY <1>3, <1>4, <2>3, <3>1, <3>2, <3>3 DEF Mirrors, UpToDate
  <2> QED  BY <2>2, <2>3
<1>10. ASSUME NEW g \in Goroutines, NEW s \in Sessions, Summarised(g, s) PROVE Mirrors(c, t)'
  <2>1. CASE t # s
    <3>1. \A h \in Goroutines : Holding(h, t) => h # g /\ Holding(h, t)' /\ held'[h] = held[h]
      BY <1>10, <2>1 DEF Summarised, NowHolds, NowFree, Holding
    <3>2. UNCHANGED sess
      BY <1>10 DEF Summarised
    <3>3. Pending(t) => Pending(t)'
      BY <1>1, <3>1, <3>2 DEF Pending
    <3> QED  BY <1>5, <1>6, <3>1, <3>2, <3>3
  <2>2. CASE t = s
    <3>1. \/ g = "reader" /\ held["reader"][1].kind = "dirty"
          \/ g = "sdk" /\ held'["reader"] = held["reader"]
      BY <1>5, <1>10 DEF Summarised, NowHolds, NowFree, Goroutines
    <3>2. sess[s] # 0 => Pending(s)'
      BY <1>1, <1>10 DEF Summarised, NowHolds, Pending, Holding
    <3>3. UNCHANGED sess
      BY <1>10 DEF Summarised
    <3>4. Introduced(c, s) => Introduced(c, s)'
      BY <1>3, <2>2, <3>1 DEF Introduced, Holding
    <3>5. Removed(c, s) => Removed(c, s)'
      BY <1>3, <2>2, <3>1 DEF Removed, Holding
    <3> QED  BY <1>1, <1>3, <1>4, <2>2, <3>2, <3>3, <3>4, <3>5 DEF Mirrors, UpToDate
  <2> QED  BY <2>1, <2>2
<1> QED  BY <1>7, <1>8, <1>9, <1>10, SessionMoves DEF Emitted

\* A note that is not delivered was not for the peer; one that is comes last on the path.
LEMMA EmitMoves ==
    ASSUME ConnInv, ConnInv', HostInv, Mirroring, NEW g \in Goroutines, Emitted(g) PROVE Mirroring'
<1>1. UNCHANGED <<peer, watcher, known, sess>>
  BY DEF Emitted, Emit
<1>2. SUFFICES ASSUME NEW c \in Conns, Linked(c), NEW t \in Sessions PROVE Mirrors(c, t)'
  BY <1>1 DEF Mirroring, Linked
<1>3. Mirrors(c, t) /\ peer # 0 /\ c = hostConn
  BY <1>2 DEF Mirroring, Linked, ConnInv, Peers
<1>4. PICK n : n = held[g][1]
  OBVIOUS
<1>5. PICK s : s = n.session
  OBVIOUS
<1>6. /\ n \in Notes /\ n.kind # "dirty" /\ held[g] # << >> /\ Holding(g, s) /\ s \in Sessions
      /\ n.kind \in {"added", "changed", "removed"}
      /\ n.kind = "removed" => n.version = 0 /\ sess[s] = 0
      /\ n.version \in Nat
  BY <1>4, <1>5, NoteFacts, CatalogAssumption DEF Emitted, Holding, Notes, Versions
<1>7. \A h \in Goroutines : h # g /\ held[h] # << >> => held'[h] # << >> /\ held'[h] = held[h]
  BY DEF Emitted, NowFree
<1>8. /\ Phase(c, "initialized")' <=> Phase(c, "initialized")
      /\ Base(c)'[t] = Base(c)[t]
  BY <1>1 DEF Phase, Base
<1>9. \A h \in Goroutines : h # g /\ Holding(h, t) => Holding(h, t)' /\ held'[h] = held[h]
  BY <1>7 DEF Holding
<1>10. /\ "reader" \in Goroutines /\ "sdk" \in Goroutines /\ "reader" # "sdk"
       /\ \A h \in Goroutines : h = "reader" \/ h = "sdk"
  BY DEF Goroutines
<1>11. CASE ~(n.to # 0 /\ n.to = peer)
  <2>1. UNCHANGED <<wire, overtaken>> /\ n.to # peer
    BY <1>3, <1>4, <1>11 DEF Emitted, Emit, historyVars
  <2>2. About(c, t)' = About(c, t) /\ \A i \in About(c, t) : Path(c)'[i] = Path(c)[i]
    BY <1>1, <2>1 DEF About, Path
  <2>3. g # "reader"
    BY <1>3, <1>4, <1>5, <1>6, <2>1 DEF HostInv, Announcing
  <2>4. Pending(t) => Pending(t)'
    BY <1>1, <1>4, <1>6, <1>9, <2>1 DEF Pending
  <2> QED  BY <1>1, <1>3, <1>8, <1>9, <1>10, <2>1, <2>2, <2>3, <2>4, Unaffected
<1>12. CASE n.to # 0 /\ n.to = peer
  <2>1. PICK late : late = (n.kind = "changed" /\ n.version < sent[s])
    OBVIOUS
  <2>2. /\ wire' = [wire EXCEPT ![c] = Append(@, n)]
        /\ late => UNCHANGED sent /\ overtaken' = overtaken \cup {s}
        /\ ~late => overtaken' = overtaken \ {s}
    BY <1>3, <1>4, <1>5, <1>12, <2>1 DEF Emitted, Emit
  <2>3. PICK L : L = Len(Path(c)) + 1
    OBVIOUS
  <2>4. /\ Len(Path(c)') = L /\ Path(c)'[L] = n /\ DOMAIN Path(c)' = DOMAIN Path(c) \cup {L}
        /\ \A i \in DOMAIN Path(c) : Path(c)'[i] = Path(c)[i] /\ i < L /\ i \in Nat
    <3>1. /\ Len(Path(c)') = L /\ Path(c)'[L] = n
          /\ \A i \in DOMAIN Path(c) : Path(c)'[i] = Path(c)[i]
      BY <1>1, <1>6, <2>2, <2>3, PathEmits
    <3>2. Len(Path(c)) \in Nat /\ DOMAIN Path(c) = 1..Len(Path(c)) /\ DOMAIN Path(c)' = 1..L
      BY <3>1, PathType, NextPathType
    <3>3. DOMAIN Path(c)' = DOMAIN Path(c) \cup {L} /\ \A i \in DOMAIN Path(c) : i < L /\ i \in Nat
      BY <2>3, <3>2
    <3> QED  BY <3>1, <3>3
  <2>5. CASE t # s
    <3>1. About(c, t)' = About(c, t) /\ \A i \in About(c, t) : Path(c)'[i] = Path(c)[i]
      BY <1>5, <2>4, <2>5 DEF About
    <3>2. \A h \in Goroutines : Holding(h, t) => h # g
      BY <1>4, <1>5, <2>5 DEF Holding
    <3>3. Pending(t) => Pending(t)'
      BY <1>1, <1>9, <3>2 DEF Pending
    <3> QED  BY <1>1, <1>3, <1>8, <1>9, <1>10, <2>2, <2>5, <3>1, <3>2, <3>3, Unaffected
  <2>6. CASE t = s
    <3>1. /\ About(c, s)' = About(c, s) \cup {L}
          /\ \A i \in About(c, s) : Path(c)'[i] = Path(c)[i] /\ i < L /\ i \in Nat
      BY <1>5, <2>4 DEF About
    <3>2. ASSUME sess[s] # 0, s \notin overtaken' PROVE UpToDate(c, s)'
      <4>1. CASE n.version = sess[s]
        BY <1>1, <2>4, <3>1, <4>1 DEF UpToDate
      <4>2. CASE n.version # sess[s]
        <5>1. n.kind = "changed" /\ ~(n.version < sent[s])
          <6>1. n.kind = "changed"
            BY <1>4, <1>5, <1>6, <1>10, <3>2, <4>2 DEF HostInv, Announcing
          <6> QED  BY <2>1, <2>2, <3>2, <6>1
        <5>2. n.version <= sess[s] /\ (Pending(s) \/ sent[s] = sess[s])
          BY <1>3, <1>4, <1>6, <1>12, <3>2, <4>2 DEF HostInv, Overtaking
        <5>3. sess[s] \in Nat /\ sent[s] \in Nat
          BY <1>6, CatalogAssumption DEF ConnInv, Types, Summaries, Versions
        <5>4. Pending(s)
          BY <1>6, <4>2, <5>1, <5>2, <5>3
        <5>5. Pending(s)'
          BY <1>1, <1>4, <1>6, <1>9, <2>6, <4>2, <5>4 DEF Pending
        <5> QED  BY <5>5 DEF UpToDate
      <4> QED  BY <4>1, <4>2
    <3>3. ASSUME sess[s] = 0 PROVE Removed(c, s)'
      <4>1. n.kind # "added"
        BY <1>4, <1>5, <1>6, <1>10, <3>3 DEF HostInv, Announcing
      <4>2. CASE n.kind = "removed"
        BY <2>4, <3>1, <4>2 DEF Removed
      <4>3. CASE n.kind = "changed"
        <5>1. Removed(c, s)
          BY <1>3, <2>6, <3>3 DEF Mirrors
        <5>2. CASE Holding("reader", s) /\ held["reader"][1].kind = "removed"
          BY <1>4, <1>9, <1>10, <2>6, <4>3, <5>2 DEF Removed
        <5>3. ASSUME NEW i \in About(c, s), Path(c)[i].kind = "removed",
                     \A j \in About(c, s) : j > i => Path(c)[j].kind = "changed"
              PROVE  Removed(c, s)'
          BY <2>4, <3>1, <4>3, <5>3 DEF Removed
        <5>4. CASE /\ \A i \in About(c, s) : Path(c)[i].kind # "added"
                   /\ Phase(c, "initialized") \/ Base(c)[s] = 0
          BY <1>8, <2>4, <2>6, <3>1, <4>3, <5>4 DEF Removed
        <5> QED  BY <5>1, <5>2, <5>3, <5>4 DEF Removed
      <4> QED  BY <1>6, <4>1, <4>2, <4>3
    <3>4. ASSUME sess[s] # 0, Introduced(c, s) PROVE Introduced(c, s)'
      <4>1. CASE Base(c)[s] # 0
        BY <1>8, <2>6, <4>1 DEF Introduced
      <4>2. CASE Holding("reader", s) /\ held["reader"][1].kind = "added" /\ About(c, s) = {}
        <5>1. g = "reader"
          BY <1>4, <1>5, <1>6, <1>10, <3>4, <4>2 DEF HostInv, Announcing
        <5> QED  BY <1>4, <2>4, <3>1, <4>2, <5>1 DEF Introduced
      <4>3. ASSUME NEW i \in About(c, s), Path(c)[i].kind = "added", \A j \in About(c, s) : i <= j
            PROVE  Introduced(c, s)'
        BY <2>4, <3>1, <4>3 DEF Introduced
      <4> QED  BY <3>4, <4>1, <4>2, <4>3 DEF Introduced
    <3> QED  BY <1>1, <1>3, <1>8, <2>6, <3>2, <3>3, <3>4 DEF Mirrors
  <2> QED  BY <2>5, <2>6
<1> QED  BY <1>11, <1>12

\* The first note on the path is applied.
LEMMA ApplyMoves ==
    ASSUME ConnInv, ConnInv', HostInv, Mirroring, NEW d \in Conns, Apply(d) PROVE Mirroring'
<1>1. /\ UNCHANGED <<sess, held, peer, overtaken>> /\ Phase(d, "applying")
      /\ watcher'[d] = At("watching", 0, watcher[d].id, NoSummary, << >>)
      /\ \A c \in Conns : c # d => watcher'[c] = watcher[c]
  BY DEF Apply, ConnInv, Types, hostVars, historyVars
<1>2. SUFFICES ASSUME NEW c \in Conns, Linked(c), NEW t \in Sessions PROVE Mirrors(c, t)'
  BY <1>1 DEF Mirroring, Linked, At
<1>3. Mirrors(c, t) /\ peer # 0
  BY <1>2 DEF Mirroring, Linked
<1>4. PICK n : n = watcher[d].event[1]
  OBVIOUS
<1>5. PICK s : s = n.session
  OBVIOUS
<1>6. /\ n = Path(d)[1] /\ 1 \in DOMAIN Path(d) /\ Len(Path(d)') = Len(Path(d)) - 1
      /\ \A i \in DOMAIN Path(d) : i # 1 => Path(d)'[i - 1] = Path(d)[i]
      /\ \A e \in Conns : e # d => Path(e)' = Path(e)
  BY <1>4, PathApplies
<1>7. /\ n \in Notes /\ n.kind \in {"added", "changed", "removed"} /\ s \in Sessions
      /\ n.kind = "removed" => n.version = 0 /\ sess[s] = 0
      /\ n.kind # "removed" => n.version # 0
  BY <1>5, <1>6, NoteFacts DEF Notes
<1>8. /\ \/ Ignored(d, n) /\ known' = known
         \/ ~Ignored(d, n) /\ known'[d][s] = n.version
      /\ \A r \in Sessions : r # s => known'[d][r] = known[d][r]
      /\ \A e \in Conns : e # d => known'[e] = known[e]
  <2>1. PICK k : k = [known[d] EXCEPT ![s] = n.version]
    OBVIOUS
  <2>2. k[s] = n.version /\ \A r \in Sessions : r # s => k[r] = known[d][r]
    BY <1>7, <2>1 DEF ConnInv, Types, Summaries
  <2>3. (Ignored(d, n) /\ known' = known) \/ (~Ignored(d, n) /\ known' = [known EXCEPT ![d] = k])
    BY <1>4, <1>5, <2>1 DEF Apply
  <2> QED  BY <2>2, <2>3 DEF ConnInv, Types
<1>9. CASE c # d
  <2>1. About(c, t)' = About(c, t) /\ \A i \in About(c, t) : Path(c)'[i] = Path(c)[i]
    BY <1>6, <1>9 DEF About
  <2>2. (Phase(c, "initialized")' <=> Phase(c, "initialized")) /\ Base(c)'[t] = Base(c)[t]
    BY <1>1, <1>8, <1>9 DEF Phase, Base
  <2> QED  BY <1>1, <1>3, <2>1, <2>2, Unaffected DEF Pending, Holding
<1>10. CASE c = d
  <2>1. Base(c) = known[c] /\ Base(c)' = known'[c] /\ ~Phase(c, "initialized") /\ ~Phase(c, "initialized")'
    BY <1>1, <1>10 DEF Phase, Base, At
  <2>2. /\ \A i \in About(c, t) : i \in Nat \ {0}
        /\ \A i \in About(c, t) : i # 1 => i - 1 \in About(c, t)' /\ Path(c)'[i - 1] = Path(c)[i]
        /\ \A i \in About(c, t)' : /\ i \in Nat \ {0} /\ i + 1 # 1 /\ i + 1 \in About(c, t)
                                   /\ Path(c)'[i] = Path(c)[i + 1]
    <3>1. /\ DOMAIN Path(c) = 1..Len(Path(c)) /\ DOMAIN Path(c)' = 1..Len(Path(c)') /\ Len(Path(c)) \in Nat
          /\ Len(Path(c)') \in Nat /\ Len(Path(c)') = Len(Path(c)) - 1
      BY <1>6, <1>10, PathType, NextPathType
    <3>2. \A i \in DOMAIN Path(c) : /\ i \in Nat \ {0}
                                    /\ i # 1 => i - 1 \in DOMAIN Path(c)' /\ Path(c)'[i - 1] = Path(c)[i]
      BY <1>6, <1>10, <3>1
    <3>3. \A i \in DOMAIN Path(c)' : /\ i \in Nat \ {0} /\ i + 1 # 1 /\ i + 1 \in DOMAIN Path(c)
                                     /\ (i + 1) - 1 = i
      BY <3>1
    <3>4. \A i \in DOMAIN Path(c)' : Path(c)'[i] = Path(c)[i + 1]
      <4>1. SUFFICES ASSUME NEW i \in DOMAIN Path(c)' PROVE Path(c)'[i] = Path(c)[i + 1]
        OBVIOUS
      <4>2. PICK j : j = i + 1
        OBVIOUS
      <4>3. j \in DOMAIN Path(c) /\ j # 1 /\ j - 1 = i
        BY <3>3, <4>2
      <4> QED  BY <1>6, <1>10, <4>2, <4>3
    <3> QED  BY <3>2, <3>3, <3>4 DEF About
  <2>3. s = t <=> 1 \in About(c, t)
    BY <1>5, <1>6, <1>10 DEF About
  <2>4. Pending(t) => Pending(t)'
    BY <1>1 DEF Pending, Holding
  <2>5. Holding("reader", t) <=> Holding("reader", t)'
    BY <1>1 DEF Holding
  <2>6. t # s => Base(c)'[t] = Base(c)[t]
    BY <1>8, <1>10, <2>1
  <2>7. t = s => \/ Base(c)'[t] = n.version
                 \/ n.kind = "changed" /\ Base(c)[t] = 0 /\ Base(c)'[t] = 0
    BY <1>5, <1>8, <1>10, <2>1 DEF Ignored
  <2>8. ASSUME NEW i \in About(c, t), i # 1 PROVE i - 1 \in About(c, t)' /\ Path(c)'[i - 1] = Path(c)[i]
    BY <2>2, <2>8
  <2>9. ASSUME sess[t] # 0, Introduced(c, t) PROVE t = s => Base(c)'[t] = n.version /\ n.kind # "removed"
    <3>1. SUFFICES ASSUME t = s, n.kind = "changed", Base(c)[t] = 0 PROVE FALSE
      BY <1>7, <2>7, <2>9
    <3>2. PICK i \in About(c, t) : Path(c)[i].kind = "added" /\ \A j \in About(c, t) : i <= j
      BY <2>3, <2>9, <3>1 DEF Introduced
    <3>3. i = 1
      BY <2>2, <2>3, <3>1, <3>2
    <3> QED  BY <1>6, <1>10, <3>1, <3>2, <3>3
  <2>10. ASSUME sess[t] # 0, Introduced(c, t) PROVE Introduced(c, t)'
    <3>1. CASE t = s
      BY <1>7, <2>9, <2>10, <3>1 DEF Introduced
    <3>2. CASE t # s
      <4>1. CASE Base(c)[t] # 0
        BY <2>6, <3>2, <4>1 DEF Introduced
      <4>2. CASE Holding("reader", t) /\ held["reader"][1].kind = "added" /\ About(c, t) = {}
        <5>1. About(c, t)' = {}
          BY <2>2, <4>2
        <5> QED  BY <1>1, <2>5, <4>2, <5>1 DEF Introduced
      <4>3. ASSUME NEW i \in About(c, t), Path(c)[i].kind = "added", \A j \in About(c, t) : i <= j
            PROVE  Introduced(c, t)'
        <5>1. i - 1 \in About(c, t)' /\ Path(c)'[i - 1].kind = "added"
          BY <2>3, <2>8, <3>2, <4>3
        <5>2. \A j \in About(c, t)' : i - 1 <= j
          BY <2>2, <4>3
        <5> QED  BY <5>1, <5>2 DEF Introduced
      <4> QED  BY <2>10, <4>1, <4>2, <4>3 DEF Introduced
    <3> QED  BY <3>1, <3>2
  <2>11. ASSUME sess[t] # 0, Introduced(c, t), UpToDate(c, t) PROVE UpToDate(c, t)'
    <3>1. CASE Pending(t)
      BY <2>4, <3>1 DEF UpToDate
    <3>2. ASSUME NEW i \in About(c, t), Path(c)[i].version = sess[t], \A j \in About(c, t) : j <= i
          PROVE  UpToDate(c, t)'
      <4>1. CASE i # 1
        <5>1. i - 1 \in About(c, t)' /\ Path(c)'[i - 1].version = sess'[t]
          BY <1>1, <2>8, <3>2, <4>1
        <5>2. \A j \in About(c, t)' : j <= i - 1
          BY <2>2, <3>2
        <5> QED  BY <5>1, <5>2 DEF UpToDate
      <4>2. CASE i = 1
        <5>1. t = s /\ n.version = sess[t] /\ Base(c)'[t] = n.version
          BY <1>6, <1>10, <2>3, <2>9, <2>11, <3>2, <4>2
        <5>2. About(c, t)' = {}
          BY <2>2, <3>2, <4>2
        <5> QED  BY <1>1, <5>1, <5>2 DEF UpToDate
      <4> QED  BY <4>1, <4>2
    <3>3. CASE About(c, t) = {} /\ Base(c)[t] = sess[t]
      <4>1. About(c, t)' = {} /\ t # s
        BY <2>2, <2>3, <3>3
      <4> QED  BY <1>1, <2>6, <3>3, <4>1 DEF UpToDate
    <3> QED  BY <2>1, <2>11, <3>1, <3>2, <3>3 DEF UpToDate
  <2>12. ASSUME sess[t] = 0, Removed(c, t) PROVE Removed(c, t)'
    <3>1. CASE Holding("reader", t) /\ held["reader"][1].kind = "removed"
      BY <1>1, <2>5, <3>1 DEF Removed
    <3>2. ASSUME NEW i \in About(c, t), Path(c)[i].kind = "removed",
                 \A j \in About(c, t) : j > i => Path(c)[j].kind = "changed"
          PROVE  Removed(c, t)'
      <4>1. CASE i # 1
        <5>1. i - 1 \in About(c, t)' /\ Path(c)'[i - 1].kind = "removed"
          BY <2>8, <3>2, <4>1
        <5>2. ASSUME NEW j \in About(c, t)', j > i - 1 PROVE Path(c)'[j].kind = "changed"
          <6>1. j + 1 \in About(c, t) /\ j + 1 > i /\ Path(c)'[j] = Path(c)[j + 1]
            BY <2>2, <3>2, <5>2
          <6> QED  BY <3>2, <6>1
        <5> QED  BY <5>1, <5>2 DEF Removed
      <4>2. CASE i = 1
        <5>1. t = s /\ n.kind = "removed" /\ Base(c)'[t] = 0
          BY <1>6, <1>7, <1>10, <2>3, <2>7, <3>2, <4>2
        <5>2. ASSUME NEW j \in About(c, t)' PROVE Path(c)'[j].kind # "added"
          <6>1. j + 1 \in About(c, t) /\ j + 1 > i /\ Path(c)'[j] = Path(c)[j + 1]
            BY <2>2, <4>2, <5>2
          <6> QED  BY <3>2, <6>1
        <5> QED  BY <5>1, <5>2 DEF Removed
      <4> QED  BY <4>1, <4>2
    <3>3. CASE (\A i \in About(c, t) : Path(c)[i].kind # "added") /\ Base(c)[t] = 0
      <4>1. \A j \in About(c, t)' : Path(c)'[j].kind # "added"
        BY <2>2, <3>3
      <4>2. t = s => n.kind # "added"
        BY <1>6, <1>10, <2>3, <3>3
      <4>3. Base(c)'[t] = 0
        BY <1>7, <1>8, <1>10, <2>1, <2>6, <3>3, <4>2, <1>5 DEF Ignored
      <4> QED  BY <4>1, <4>3 DEF Removed
    <3> QED  BY <2>1, <2>12, <3>1, <3>2, <3>3 DEF Removed
  <2> QED  BY <1>1, <1>3, <2>1, <2>10, <2>11, <2>12 DEF Mirrors
<1> QED  BY <1>9, <1>10

\* What the watcher of one connection does to the views of the others.
LEMMA OtherConns ==
    ASSUME ConnInv, NEW c \in Conns, Linked(c), \A s \in Sessions : Mirrors(c, s),
           UNCHANGED <<sess, held, peer, overtaken>>,
           watcher'[c] = watcher[c], wire'[c] = wire[c], known'[c] = known[c]
    PROVE  \A s \in Sessions : Mirrors(c, s)'
<1>1. SUFFICES ASSUME NEW s \in Sessions PROVE Mirrors(c, s)'
  OBVIOUS
<1>2. Mirrors(c, s)
  OBVIOUS
<1>3. About(c, s)' = About(c, s) /\ \A i \in About(c, s) : Path(c)'[i] = Path(c)[i]
  BY DEF About, Path
<1>4. (Phase(c, "initialized")' <=> Phase(c, "initialized")) /\ Base(c)'[s] = Base(c)[s]
  BY DEF Phase, Base
<1>5. (Pending(s) => Pending(s)') /\ (Holding("reader", s) => Holding("reader", s)')
  BY DEF Pending, Holding
<1> QED  BY <1>2, <1>3, <1>4, <1>5, Unaffected

\* A watcher that loses its peer, or gets a new one.
LEMMA PeerMovesViews ==
    ASSUME ConnInv, ConnInv', Mirroring, NEW d \in Conns,
           Register(d) \/ ClosePrevious(d) \/ SyncFails(d) \/ WatchEnds(d)
    PROVE  Mirroring'
<1>1. /\ UNCHANGED <<sess, held>> /\ watcher'[d].id = 0
      /\ peer' = 0 \/ UNCHANGED <<peer, overtaken>>
      /\ \A c \in Conns : c # d => watcher'[c] = watcher[c] /\ wire'[c] = wire[c] /\ known'[c] = known[c]
  BY DEF Register, ClosePrevious, SyncFails, WatchEnds, PeerGone, ConnInv, Types, At, Resting, hostVars,
     historyVars
<1>2. SUFFICES ASSUME NEW c \in Conns, Linked(c)' PROVE \A s \in Sessions : Mirrors(c, s)'
  BY DEF Mirroring
<1>3. c # d /\ Linked(c) /\ UNCHANGED <<peer, overtaken>>
  BY <1>1, <1>2 DEF Linked
<1>4. \A s \in Sessions : Mirrors(c, s)
  BY <1>3 DEF Mirroring
<1> QED  BY <1>1, <1>3, <1>4, OtherConns

LEMMA InitializeMoves ==
    ASSUME ConnInv, ConnInv', Mirroring, NEW d \in Conns, Initialize(d) PROVE Mirroring'
<1>1. /\ UNCHANGED sess /\ held["reader"] = << >> /\ held' = held /\ peer' = syncs + 1
      /\ watcher'[d] = At("initialized", 0, syncs + 1, NoSummary, << >>) /\ wire'[d] = << >>
      /\ \A c \in Conns : c # d => watcher'[c] = watcher[c]
  BY DEF Initialize, ReaderIdle, ConnInv, Types, hostVars
<1>2. SUFFICES ASSUME NEW c \in Conns, Linked(c)', NEW s \in Sessions PROVE Mirrors(c, s)'
  BY DEF Mirroring
<1>3. c = d
  <2>1. SUFFICES ASSUME c # d PROVE FALSE
    OBVIOUS
  <2>2. watcher[c].id <= syncs /\ watcher[c].id \in Nat /\ syncs \in Nat
    BY DEF ConnInv, Peers, Types, Watchers
  <2>3. watcher[c].id = syncs + 1
    BY <1>1, <1>2, <2>1 DEF Linked
  <2> QED  BY <2>2, <2>3
<1>4. watcher'[c].phase = "initialized" /\ Path(c)' = wire'[c]
  BY <1>1, <1>3, NextPathType DEF At, Phase
<1>5. About(c, s)' = {}
  BY <1>1, <1>3, <1>4 DEF About
<1> QED  BY <1>1, <1>4, <1>5 DEF Mirrors, UpToDate, Removed, Phase

\* The list is the host's sessions, and nothing is on its way that came before it.
LEMMA ListMoves ==
    ASSUME ConnInv, ConnInv', Mirroring, NEW d \in Conns, ListSessions(d) PROVE Mirroring'
<1>1. /\ UNCHANGED <<sess, held, peer, overtaken, wire, known>> /\ held["reader"] = << >> /\ Phase(d, "initialized")
      /\ watcher'[d] = At("listed", 0, watcher[d].id, sess, << >>)
      /\ \A c \in Conns : c # d => watcher'[c] = watcher[c]
  BY DEF ListSessions, ReaderIdle, ConnInv, Types, hostVars, historyVars
<1>2. SUFFICES ASSUME NEW c \in Conns, Linked(c)' PROVE \A s \in Sessions : Mirrors(c, s)'
  BY DEF Mirroring
<1>3. Linked(c) /\ \A s \in Sessions : Mirrors(c, s)
  BY <1>1, <1>2 DEF Mirroring, Linked, At
<1>4. CASE c # d
  BY <1>1, <1>3, <1>4, OtherConns
<1>5. ASSUME c = d, NEW s \in Sessions PROVE Mirrors(c, s)'
  <2>1. Base(c)' = sess /\ ~Phase(c, "initialized")'
    BY <1>1, <1>5 DEF Base, Phase, At
  <2>2. Path(c)' = Path(c)
    <3>1. ~Phase(c, "applying") /\ ~Phase(c, "applying")'
      BY <1>1, <1>5 DEF Phase, At
    <3> QED  BY <1>1, <3>1, PathType, NextPathType
  <2>3. About(c, s)' = About(c, s)
    BY <2>2 DEF About
  <2>4. Pending(s) => Pending(s)'
    BY <1>1 DEF Pending, Holding
  <2>5. UpToDate(c, s) => UpToDate(c, s)'
    BY <1>1, <2>1, <2>2, <2>3, <2>4 DEF UpToDate
  <2>6. sess[s] = 0 /\ Removed(c, s) => Removed(c, s)'
    BY <1>1, <2>1, <2>2, <2>3 DEF Removed, Holding
  <2>7. sess[s] # 0 => Introduced(c, s)'
    BY <2>1 DEF Introduced
  <2> QED  BY <1>1, <1>3, <2>5, <2>6, <2>7 DEF Mirrors
<1> QED  BY <1>4, <1>5

\* The watcher goes on from what it has read.
LEMMA ReadingMoves ==
    ASSUME ConnInv, ConnInv', Mirroring, NEW d \in Conns, CheckCurrent(d) \/ Replace(d) \/ TakeEvent(d)
    PROVE  Mirroring'
<1>1. /\ UNCHANGED <<sess, held, peer, overtaken>>
      /\ \A c \in Conns : c # d => watcher'[c] = watcher[c] /\ wire'[c] = wire[c] /\ known'[c] = known[c]
  BY DEF CheckCurrent, Replace, TakeEvent, ConnInv, Types, hostVars, historyVars
<1>2. watcher'[d].id = watcher[d].id /\ ~Phase(d, "initialized") /\ ~Phase(d, "initialized")'
  BY DEF CheckCurrent, Replace, TakeEvent, ConnInv, Types, Watchers, Phase, At
<1>3. Base(d)' = Base(d)
  BY DEF CheckCurrent, Replace, TakeEvent, ConnInv, Types, Watchers, Phase, At, Base
<1>4. SUFFICES ASSUME NEW c \in Conns, Linked(c)' PROVE \A s \in Sessions : Mirrors(c, s)'
  BY DEF Mirroring
<1>5. Linked(c) /\ \A s \in Sessions : Mirrors(c, s)
  BY <1>1, <1>2, <1>4 DEF Mirroring, Linked
<1>6. CASE c # d
  BY <1>1, <1>5, <1>6, OtherConns
<1>7. ASSUME c = d, NEW s \in Sessions PROVE Mirrors(c, s)'
  <2>1. Len(Path(c)') = Len(Path(c)) /\ \A i \in DOMAIN Path(c) : Path(c)'[i] = Path(c)[i]
    <3>1. CASE TakeEvent(d)
      BY <3>1, PathTakes
    <3>2. CASE CheckCurrent(d) \/ Replace(d)
      <4>1. ~Phase(c, "applying") /\ ~Phase(c, "applying")' /\ wire' = wire
        BY <1>7, <3>2 DEF CheckCurrent, Replace, Phase, At, ConnInv, Types, Watchers
      <4>2. Path(c)' = Path(c)
        BY <4>1, PathType, NextPathType
      <4> QED  BY <4>2
    <3> QED  BY <3>1, <3>2
  <2>2. About(c, s)' = About(c, s) /\ \A i \in About(c, s) : Path(c)'[i] = Path(c)[i]
    BY <2>1, SamePath
  <2>3. Pending(s) => Pending(s)'
    BY <1>1 DEF Pending, Holding
  <2>4. Holding("reader", s) => Holding("reader", s)' /\ held'["reader"][1] = held["reader"][1]
    BY <1>1 DEF Holding
  <2>5. Mirrors(c, s)
    BY <1>5
  <2> QED  BY <1>1, <1>2, <1>3, <1>7, <2>2, <2>3, <2>4, <2>5, Unaffected
<1> QED  BY <1>6, <1>7

LEMMA MirroringStays ==
    ASSUME ConnInv, ConnInv', HostInv, Mirroring, [Next]_vars PROVE Mirroring'
<1>1. CASE peer' = 0
  BY <1>1 DEF Mirroring, Linked
<1>2. ASSUME UNCHANGED <<sess, held, peer, overtaken, watcher, wire, known>> PROVE Mirroring'
  <2>1. SUFFICES ASSUME NEW c \in Conns, Linked(c)' PROVE \A s \in Sessions : Mirrors(c, s)'
    BY DEF Mirroring
  <2>2. Linked(c) /\ \A s \in Sessions : Mirrors(c, s)
    BY <1>2, <2>1 DEF Mirroring, Linked
  <2> QED  BY <1>2, <2>2, OtherConns
<1>3. ASSUME NEW d \in Conns, ConnLost(d) \/ Unregister(d) PROVE Mirroring'
  BY <1>2, <1>3 DEF ConnLost, Unregister, hostVars, historyVars
<1>4. CASE Disconnect
  BY <1>2, <1>4 DEF Disconnect, hostVars, historyVars
<1>5. CASE HostDrops \/ HostCrash
  BY <1>1, <1>5 DEF HostDrops, HostCrash, PeerGone
<1>6. CASE UNCHANGED vars
  BY <1>2, <1>6 DEF vars, hostVars, historyVars
<1>7. CASE SessionStep
  <2>1. ASSUME NEW g \in Goroutines, Emit(g) PROVE Emitted(g)
    BY <2>1 DEF Emit, Emitted, Releases, NowFree, ConnInv, Types
  <2> QED  BY <1>7, <2>1, EmitMoves, HostMoves
<1> QED
  BY <1>3, <1>4, <1>5, <1>6, <1>7, PeerMovesViews, InitializeMoves, ListMoves, ReadingMoves, ApplyMoves
     DEF Next, SessionStep, WatchStep

-----------------------------------------------------------------------------
(* The theorems *)

LEMMA Initially == Init => IInv
<1> SUFFICES ASSUME Init PROVE IInv
  OBVIOUS
<1>1. PICK w : w = Resting("none")
  OBVIOUS
<1>2. w.phase = "none" /\ w.prev = 0 /\ w.id = 0 /\ w.list = NoSummary /\ w.event = << >> /\ w \in Watchers
  BY <1>1, Constants DEF Resting, At, Watchers, Phases
<1>3. \A c \in Conns : watcher[c] = w /\ wire[c] = << >> /\ known[c] = NoSummary
  BY <1>1 DEF Init
<1>4. \A g \in Goroutines : held[g] = << >>
  BY DEF Init
<1>5. Types
  <2>1. /\ watcher \in [Conns -> Watchers] /\ wire \in [Conns -> Seq(Notes)]
        /\ known \in [Conns -> Summaries] /\ held \in [Goroutines -> Boxes]
    BY <1>1, <1>2, Constants DEF Init
  <2> QED  BY <2>1, Constants, CatalogAssumption DEF Init, Types, Versions
<1>6. Shapes /\ NewestConn /\ Peers
  BY <1>2, <1>3, <1>4 DEF Init, Shapes, NewestConn, Peers, Phase, Synced, Conns
<1>7. \A c \in Conns : DOMAIN Path(c) = {}
  <2>1. SUFFICES ASSUME NEW c \in Conns PROVE Path(c) = << >>
    OBVIOUS
  <2> QED  BY <1>2, <1>3, <1>5, <1>6, PathType DEF ConnInv, Phase
<1>8. HostInv
  BY <1>2, <1>3, <1>4, <1>7, Constants, CatalogAssumption
     DEF Init, HostInv, Births, Announcing, Overtaking, Holding, Goroutines, Versions
<1>9. Mirroring /\ RowsKnown
  BY <1>2, <1>3 DEF Init, Mirroring, Linked, RowsKnown, Phase
<1> QED  BY <1>5, <1>6, <1>8, <1>9 DEF IInv, ConnInv

LEMMA Invariance ==
    ASSUME Prompt, IInv, ClosesFirst', [Next]_vars PROVE IInv'
<1>1. ConnInv'
  BY ConnStays DEF IInv
<1>2. HostInv'
  BY <1>1, BirthsStay, AnnouncingStays, OvertakingStays DEF IInv, HostInv
<1> QED  BY <1>1, <1>2, MirroringStays, RowsKnownStay DEF IInv

\* When nothing is on its way the watcher knows the sessions of the host.
LEMMA QuietKnows ==
    ASSUME IInv, NEW c \in Conns, Quiet(c), NEW s \in Sessions \ overtaken PROVE rows[s] = sess[s]
<1>1. /\ c = conns /\ c # 0 /\ c = hostConn /\ Phase(c, "watching") /\ rows = known[c]
  BY DEF Quiet, Up, IInv, ConnInv, NewestConn, RowsKnown
<1>2. watcher[c].id # 0 /\ peer = watcher[c].id
  BY <1>1 DEF Quiet, IInv, ConnInv, Shapes, Synced, Phase
<1>3. Mirrors(c, s)
  BY <1>2 DEF IInv, Mirroring, Linked
<1>4. About(c, s) = {}
  BY <1>1, PathType DEF IInv, Quiet, Phase, About
<1>5. \A g \in Goroutines : ~Holding(g, s)
  BY DEF Quiet, Holding
<1>6. ~Pending(s) /\ ~Holding("reader", s)
  BY <1>5 DEF Pending, Goroutines
<1>7. sess[s] # 0 => UpToDate(c, s)
  BY <1>3 DEF Mirrors
<1>8. sess[s] = 0 => Removed(c, s)
  BY <1>3 DEF Mirrors
<1>9. ~Phase(c, "initialized") /\ Base(c) = known[c]
  BY <1>1 DEF Phase, Base
<1>10. known[c][s] = sess[s]
  BY <1>4, <1>6, <1>7, <1>8, <1>9 DEF UpToDate, Removed
<1> QED  BY <1>1, <1>10

\* As long as watchers of closed connections stop in time, an idle catalog has the
\* sessions of the host, for any number of sessions, connections and failed syncs.
THEOREM CatalogMirrors ==
    ASSUME Prompt PROVE Spec /\ []ClosesFirst => []QuietMirrors
<1>1. Init => IInv
  BY Initially
<1>2. IInv /\ ClosesFirst' /\ [Next]_vars => IInv'
  BY Invariance
<1>3. IInv => QuietMirrors
  BY QuietKnows DEF QuietMirrors
<1> QED  BY <1>1, <1>2, <1>3, PTL DEF Spec

\* Under the same conditions no connection, list or late notification drops a session
\* that is alive from the catalog.
THEOREM AliveSessionsStay ==
    ASSUME Prompt PROVE Spec /\ []ClosesFirst => AliveStaysListed
<1>1. Init => IInv
  BY Initially
<1>2. IInv /\ ClosesFirst' /\ [Next]_vars => IInv'
  BY Invariance
<1>3. IInv /\ ClosesFirst' /\ [Next]_vars =>
          [\A s \in Sessions : rows[s] # 0 /\ rows'[s] = 0 => sess[s] = 0]_vars
  BY ConnStays, AliveKept DEF IInv
<1> QED  BY <1>1, <1>2, <1>3, PTL DEF Spec, AliveStaysListed

=============================================================================
