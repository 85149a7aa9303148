---------------------------- MODULE AhpMuxProofs ----------------------------
(***************************************************************************)
(* AhpMux for every number of streams and every capacity of the queues: no *)
(* logical peer is left behind, the two limits agree, and what a client    *)
(* receives has no gap as long as the host's own queue drops nothing.      *)
(***************************************************************************)
EXTENDS AhpMux, SequenceTheorems, FiniteSetTheorems, TLAPS

\* The frames of a queue, whatever their order.
Contents(q) == {q[i] : i \in 1..Len(q)}
Mentions(q, s) == \E f \in Contents(q) : f.id = s

\* Frames and tables have their shapes.  (Numbers are not bounded here.)
Wire == [type : {"open", "opened", "data", "close"}, id : Streams, n : Nat]

Shape ==
    /\ conn \in {"up", "closing", "swept"}
    /\ nextStream \in 0..MaxStreams
    /\ caller \in [Streams -> Callers]
    /\ table \subseteq Streams /\ done \subseteq Streams
    /\ closing \subseteq Streams /\ closeLost \subseteq Streams
    /\ opened \in [Streams -> {"empty", "ok", "error"}]
    /\ rx \in [Streams -> Seq(Nat)] /\ got \in [Streams -> Seq(Nat)]
    /\ asked \in [Streams -> Nat] /\ emitted \in [Streams -> Nat]
    /\ toHost \in Seq(Wire) /\ fromHost \in Seq(Wire)
    /\ peers \subseteq Streams

\* Streams are numbered in order, a closed one is not in the table, and the
\* table respects the server's limit.
Numbered ==
    /\ \A s \in Streams : caller[s] = "none" <=> s > nextStream
    /\ \A s \in table : s <= nextStream /\ s \notin done
    /\ \A s \in done : s <= nextStream
    /\ \A s \in Streams : opened[s] = "error" => s \in done
    /\ conn = "up" => \A s \in Streams : caller[s] = "sending" => s \in table
    /\ Cardinality(table) <= ServerLimit

\* The open frame of s is on its way; the Agent Host has not heard of s.
Asking(s) == \E f \in Contents(toHost) : f.type = "open" /\ f.id = s
Unheard(s) == caller[s] \in {"none", "sending"} \/ Asking(s)

\* A stream's open frame goes first, and until it has been handled nothing of
\* the stream exists on the way back.
OpenFirst ==
    /\ \A j \in 1..Len(toHost) : toHost[j].type = "open" =>
            \A i \in 1..(j - 1) : toHost[i].id # toHost[j].id
    /\ \A s \in Streams : caller[s] \in {"none", "sending"} =>
            ~Mentions(toHost, s) /\ s \notin closing
    /\ \A f \in Contents(toHost) : f.type = "data" => ~Unheard(f.id)
    /\ \A s \in Streams : Unheard(s) =>
            /\ s \notin peers /\ ~Mentions(fromHost, s)
            /\ emitted[s] = 0 /\ rx[s] = << >> /\ got[s] = << >>
            /\ opened[s] # "ok" /\ caller[s] \notin {"proxying", "draining"}

\* A close frame from the Agent Host is about a stream that is no peer.
ClosedIsNoPeer == \A f \in Contents(fromHost) : f.type = "close" => f.id \notin peers

\* The close frame of s is on its way, yet to be sent, or was lost.
Ending(s) == s \in closing \cup closeLost \/ Frame("close", s, 0) \in Contents(toHost)

\* NoOrphanPeer, for peers and those about to be peers.
NoOrphan == conn = "up" =>
    \A s \in Streams : s \in peers \/ Asking(s) => s \in table \/ Ending(s)

\* The streams of the table that are peers or will be when frame i is handled.
Admitted(i) ==
    {t \in table : t \in peers \/ \E j \in 1..(i - 1) :
                                      toHost[j].type = "open" /\ toHost[j].id = t}

\* Together with the stream that frame i opens they fit into the limit: all of
\* them were in the table at once when frame i was sent.
FitsLimit == conn = "up" =>
    \A i \in 1..Len(toHost) : toHost[i].type = "open" =>
        Cardinality(Admitted(i) \cup {toHost[i].id}) <= ServerLimit

\* The inductive invariant.
IInv == Shape /\ Numbered /\ OpenFirst /\ ClosedIsNoPeer /\ NoOrphan /\ FitsLimit

\* The messages of s that have reached the server.
Reached(s) == Len(got[s]) + Len(rx[s])

\* What is delivered and what is queued for the client follow each other.
Delivered(s) ==
    /\ \A i \in 1..Len(got[s]) : got[s][i] = i
    /\ \A i \in 1..Len(rx[s]) : rx[s][i] = Len(got[s]) + i

\* The messages that have not reached the server are on their way, in order.
OnTheWay(s) ==
    /\ Reached(s) <= emitted[s]
    /\ \A f \in Contents(fromHost) : f.type = "data" /\ f.id = s =>
            Reached(s) < f.n /\ f.n <= emitted[s]
    /\ \A j \in 1..Len(fromHost) : \A i \in 1..(j - 1) :
            /\ fromHost[i].type = "data" /\ fromHost[j].type = "data"
            /\ fromHost[i].id = s /\ fromHost[j].id = s
            => fromHost[i].n < fromHost[j].n
    /\ \A n \in (Reached(s) + 1)..emitted[s] : Frame("data", s, n) \in Contents(fromHost)

\* Inductive as long as the Agent Host's own queue drops nothing.
InOrder == \A s \in Streams : Delivered(s) /\ (s \in table => OnTheWay(s))

-----------------------------------------------------------------------------
(* Queues and sets *)

\* What a frame put at the end of a queue does to its contents.
LEMMA QueueAppend ==
    ASSUME NEW q \in Seq(Wire), NEW f \in Wire
    PROVE  /\ Append(q, f) \in Seq(Wire) /\ Len(Append(q, f)) = Len(q) + 1
           /\ Contents(Append(q, f)) = Contents(q) \cup {f}
           /\ \A i \in 1..Len(q) : Append(q, f)[i] = q[i]
           /\ Append(q, f)[Len(q) + 1] = f
<1> DEFINE a == Append(q, f)
<1>1. /\ a \in Seq(Wire) /\ Len(a) = Len(q) + 1 /\ a[Len(q) + 1] = f
      /\ \A i \in 1..Len(q) : a[i] = q[i]
  BY AppendProperties
<1>2. Len(q) \in Nat
  BY LenProperties
<1> HIDE DEF a
<1>3. Contents(a) = Contents(q) \cup {f}
  <2>1. \A i \in 1..Len(a) : i \in 1..Len(q) \/ i = Len(q) + 1
    BY <1>1, <1>2
  <2>2. 1..Len(q) \subseteq 1..Len(a) /\ Len(q) + 1 \in 1..Len(a)
    BY <1>1, <1>2
  <2> QED  BY <1>1, <2>1, <2>2 DEF Contents
<1> QED  BY <1>1, <1>3 DEF a

\* What taking the frame at the head of a queue does to its contents.
LEMMA QueueTail ==
    ASSUME NEW q \in Seq(Wire), q # << >>
    PROVE  /\ Head(q) \in Wire /\ Head(q) = q[1]
           /\ Tail(q) \in Seq(Wire) /\ Len(q) \in Nat \ {0} /\ Len(Tail(q)) = Len(q) - 1
           /\ \A i \in 1..Len(Tail(q)) : Tail(q)[i] = q[i + 1]
           /\ Contents(q) = Contents(Tail(q)) \cup {Head(q)}
<1> DEFINE u == Tail(q)
<1>1. /\ Head(q) \in Wire /\ Head(q) = q[1] /\ u \in Seq(Wire)
      /\ Len(q) \in Nat \ {0} /\ Len(u) = Len(q) - 1
      /\ \A i \in 1..Len(u) : u[i] = q[i + 1]
  BY HeadTailProperties, EmptySeq
<1> HIDE DEF u
<1>2. Contents(q) = Contents(u) \cup {q[1]}
  <2>1. \A i \in 1..Len(u) : i + 1 \in 1..Len(q)
    BY <1>1
  <2>2. \A i \in 1..Len(q) : i = 1 \/ (i - 1 \in 1..Len(u) /\ (i - 1) + 1 = i)
    BY <1>1
  <2>3. 1 \in 1..Len(q)
    BY <1>1
  <2>4. ASSUME NEW i \in 1..Len(q), i # 1 PROVE q[i] \in Contents(u)
    BY <1>1, <2>2, <2>4 DEF Contents
  <2>5. q[1] \in Contents(q) /\ \A i \in 1..Len(u) : u[i] \in Contents(q)
    BY <1>1, <2>1, <2>3 DEF Contents
  <2>6. \A f \in Contents(u) : f \in Contents(q)
    BY <2>5 DEF Contents
  <2>7. \A f \in Contents(q) : f \in Contents(u) \/ f = q[1]
    BY <2>4 DEF Contents
  <2> QED  BY <2>5, <2>6, <2>7
<1> QED  BY <1>1, <1>2 DEF u

\* Sets of streams are finite, and a smaller set has no more members.
LEMMA StreamSets ==
    ASSUME NEW S \in SUBSET Streams
    PROVE  /\ IsFiniteSet(S) /\ Cardinality(S) \in Nat
           /\ \A T \in SUBSET S : IsFiniteSet(T) /\ Cardinality(T) <= Cardinality(S)
<1>1. IsFiniteSet(Streams)
  BY MuxAssumption, FS_Interval DEF Streams
<1>2. IsFiniteSet(S)
  BY <1>1, FS_Subset
<1>3. Cardinality(S) \in Nat
  BY <1>2, FS_CardinalityType
<1>4. \A T \in SUBSET S : IsFiniteSet(T) /\ Cardinality(T) <= Cardinality(S)
  BY <1>2, FS_Subset
<1> QED  BY <1>2, <1>3, <1>4

LEMMA ContentsOfWire == \A q \in Seq(Wire) : Contents(q) \subseteq Wire
  BY ElementOfSeq DEF Contents

LEMMA AdmittedStreams ==
    ASSUME Shape, NEW i \in 1..Len(toHost)
    PROVE  Admitted(i) \cup {toHost[i].id} \in SUBSET Streams
<1>1. toHost[i] \in Wire
  BY ElementOfSeq DEF Shape
<1>2. Admitted(i) \subseteq Streams
  BY DEF Shape, Admitted
<1> QED  BY <1>1, <1>2 DEF Wire

-----------------------------------------------------------------------------
(* Initially *)

LEMMA InitIInv == Init => IInv /\ InOrder
<1> SUFFICES ASSUME Init PROVE IInv /\ InOrder
  OBVIOUS
<1> USE MuxAssumption DEF Init
<1>1. Shape
  BY EmptySeq DEF Shape, Callers, Streams
<1>2. Contents(toHost) = {} /\ Contents(fromHost) = {}
  BY DEF Contents
<1>3. Numbered
  BY FS_EmptySet DEF Numbered, Streams
<1>4. OpenFirst
  BY <1>2 DEF OpenFirst, Mentions
<1>5. ClosedIsNoPeer /\ NoOrphan
  BY <1>2 DEF ClosedIsNoPeer, NoOrphan, Asking
<1>6. FitsLimit
  BY DEF FitsLimit
<1>7. InOrder
  BY <1>2, EmptySeq DEF InOrder, Delivered
<1> QED  BY <1>1, <1>3, <1>4, <1>5, <1>6, <1>7 DEF IInv

-----------------------------------------------------------------------------
(* Steps of the server that queue nothing for the Agent Host *)

\* A stream that such a step may not touch in the wrong way: one the Agent Host
\* has not heard of stays as it is, and one that leaves the table while the
\* connection is up is being ended or is nothing to the Agent Host.
Careful(s) ==
    /\ caller'[s] \in {"none", "sending"} =>
            caller[s] \in {"none", "sending"} /\ (s \in closing' => s \in closing)
    /\ Unheard(s) => /\ caller'[s] \notin {"proxying", "draining"}
                     /\ rx'[s] = rx[s] /\ got'[s] = got[s] /\ opened'[s] # "ok"
    /\ s \in table' => s \in table \/ (Unheard(s) /\ ~Asking(s))
    /\ conn' = "up" /\ s \in table \ table' =>
            s \in closing' \/ (s \notin peers /\ ~Asking(s))

LEMMA ServerSide ==
    ASSUME IInv, Shape', Numbered', UNCHANGED <<toHost, emitted>>,
           conn' = "up" => conn = "up", peers' \subseteq peers,
           Contents(fromHost') \subseteq Contents(fromHost),
           closing \cup closeLost \subseteq closing' \cup closeLost',
           \A s \in Streams : Careful(s)
    PROVE  IInv'
<1>1. \A s \in Streams : /\ Asking(s)' <=> Asking(s)
                         /\ Unheard(s)' => Unheard(s)
                         /\ Mentions(toHost, s)' <=> Mentions(toHost, s)
                         /\ Mentions(fromHost, s)' => Mentions(fromHost, s)
                         /\ Ending(s) => Ending(s)'
  BY DEF Asking, Unheard, Careful, Mentions, Ending
<1>2. OpenFirst'
  <2>1. \A s \in Streams : caller'[s] \in {"none", "sending"} =>
            ~Mentions(toHost, s)' /\ s \notin closing'
    BY <1>1 DEF IInv, OpenFirst, Careful
  <2>2. \A f \in Contents(toHost)' : f.type = "data" => ~Unheard(f.id)'
    <3>1. \A f \in Contents(toHost) : f.id \in Streams
      BY ContentsOfWire DEF IInv, Shape, Wire
    <3> QED  BY <1>1, <3>1 DEF IInv, OpenFirst
  <2>3. \A s \in Streams : Unheard(s)' =>
            /\ s \notin peers' /\ ~Mentions(fromHost, s)'
            /\ emitted'[s] = 0 /\ rx'[s] = << >> /\ got'[s] = << >>
            /\ opened'[s] # "ok" /\ caller'[s] \notin {"proxying", "draining"}
    BY <1>1 DEF IInv, OpenFirst, Careful
  <2> QED  BY <2>1, <2>2, <2>3 DEF IInv, OpenFirst
<1>3. ClosedIsNoPeer'
  BY DEF IInv, ClosedIsNoPeer
<1>4. NoOrphan'
  BY <1>1 DEF IInv, NoOrphan, Careful, Ending
<1>5. FitsLimit'
  <2> SUFFICES ASSUME conn' = "up", NEW i \in 1..Len(toHost), toHost[i].type = "open"
               PROVE  Cardinality(Admitted(i)' \cup {toHost[i].id}) <= ServerLimit
    BY DEF FitsLimit
  <2>1. ASSUME NEW u \in Admitted(i)' PROVE u \in Admitted(i)
    <3>1. u \in Streams /\ u \in table'
      BY DEF Admitted, Shape
    <3>2. CASE u \in peers'
      BY <3>1, <3>2 DEF Admitted, Careful, IInv, OpenFirst
    <3>3. CASE u \notin peers'
      <4>1. PICK j \in 1..(i - 1) : toHost[j].type = "open" /\ toHost[j].id = u
        BY <3>3 DEF Admitted
      <4>2. j \in 1..Len(toHost)
        BY LenProperties DEF IInv, Shape
      <4>3. Asking(u)
        BY <4>1, <4>2 DEF Asking, Contents
      <4> QED  BY <3>1, <4>1, <4>3 DEF Admitted, Careful
    <3> QED  BY <3>2, <3>3
  <2>2. Admitted(i) \cup {toHost[i].id} \in SUBSET Streams
    BY AdmittedStreams DEF IInv
  <2>3. Cardinality(Admitted(i) \cup {toHost[i].id}) <= ServerLimit
    BY DEF IInv, FitsLimit
  <2>4. Cardinality(Admitted(i)' \cup {toHost[i].id})
            <= Cardinality(Admitted(i) \cup {toHost[i].id})
    BY <2>1, <2>2, StreamSets
  <2>5. /\ Cardinality(Admitted(i)' \cup {toHost[i].id}) \in Nat
        /\ Cardinality(Admitted(i) \cup {toHost[i].id}) \in Nat
    BY <2>1, <2>2, StreamSets
  <2> QED  BY <2>3, <2>4, <2>5, MuxAssumption
<1> QED  BY <1>2, <1>3, <1>4, <1>5 DEF IInv

\* Numbers and tables after a step that reserves no stream.
LEMMA NumberedKept ==
    ASSUME IInv, Shape', nextStream' = nextStream, table' \subseteq table,
           conn' = "up" => conn = "up",
           \A s \in Streams :
               /\ caller'[s] = "none" <=> caller[s] = "none"
               /\ caller'[s] = "sending" => caller[s] = "sending"
               /\ conn' = "up" /\ s \in table \ table' => caller'[s] # "sending"
               /\ s \in done' => s \in done \/ caller[s] # "none"
               /\ s \in table' => s \notin done'
               /\ opened'[s] = "error" => s \in done'
    PROVE  Numbered'
<1> USE DEF IInv
<1>1. nextStream \in Nat /\ Streams \subseteq Nat
  BY MuxAssumption DEF Shape, Streams
<1>2. Cardinality(table') <= ServerLimit
  <2>1. Cardinality(table') <= Cardinality(table)
    BY StreamSets DEF Shape
  <2>2. Cardinality(table') \in Nat /\ Cardinality(table) \in Nat
    BY StreamSets DEF Shape
  <2> QED  BY <2>1, <2>2, MuxAssumption DEF Numbered
<1>3. \A s \in done' : s \in Streams /\ s <= nextStream'
  <2>1. \A s \in Streams : caller[s] # "none" => s <= nextStream
    BY <1>1 DEF Numbered
  <2> QED  BY <2>1 DEF Numbered, Shape
<1>4. \A s \in table' : s \in Streams /\ s <= nextStream' /\ s \notin done'
  BY DEF Numbered, Shape
<1>5. \A s \in Streams : (caller'[s] = "none" <=> s > nextStream')
                         /\ (opened'[s] = "error" => s \in done')
  BY DEF Numbered
<1>6. conn' = "up" => \A s \in Streams : caller'[s] = "sending" => s \in table'
  BY DEF Numbered
<1> QED  BY <1>2, <1>3, <1>4, <1>5, <1>6 DEF Numbered

\* ahpStream.close takes the stream out of the table and owes a close frame.
LEMMA CloseStreamDoes ==
    ASSUME IInv, NEW s \in Streams, CloseStream(s)
    PROVE  /\ table' = table \ {s} /\ done' = done \cup {s}
           /\ closing \subseteq closing' /\ closing' \subseteq closing \cup {s}
           /\ s \in table => s \in closing'
  BY DEF CloseStream, IInv, Numbered

\* What a step that reserves no stream may do to stream s.
Kept(s) ==
    /\ \/ caller'[s] = caller[s]
       \/ caller[s] # "none" /\ caller'[s] \notin {"none", "sending"}
    /\ s \in done' => s \in done \/ caller[s] # "none"
    /\ s \in table' => s \notin done'
    /\ opened'[s] = "error" => s \in done'
    /\ caller[s] \in {"none", "sending"} => (s \in closing' => s \in closing)
    /\ Unheard(s) => /\ caller'[s] \notin {"proxying", "draining"}
                     /\ rx'[s] = rx[s] /\ got'[s] = got[s] /\ opened'[s] # "ok"
    /\ conn' = "up" /\ s \in table \ table' =>
            caller'[s] # "sending" /\ (s \in closing' \/ (s \notin peers /\ ~Asking(s)))

LEMMA ServerStep ==
    ASSUME IInv, Shape', UNCHANGED <<nextStream, toHost, emitted>>,
           conn' = "up" => conn = "up", peers' \subseteq peers,
           Contents(fromHost') \subseteq Contents(fromHost),
           closing \cup closeLost \subseteq closing' \cup closeLost',
           table' \subseteq table, \A s \in Streams : Kept(s)
    PROVE  IInv'
<1>1. Numbered'
  <2>1. \A s \in Streams : /\ caller'[s] = "none" <=> caller[s] = "none"
                           /\ caller'[s] = "sending" => caller[s] = "sending"
    BY DEF Kept
  <2> QED  BY <2>1, NumberedKept DEF Kept
<1>2. \A s \in Streams : Careful(s)
  BY DEF Kept, Careful
<1> QED  BY <1>1, <1>2, ServerSide

\* openStream: a place in the table for a stream nobody has heard of.
LEMMA ReserveKeeps == ASSUME IInv, NEW s \in Streams, Reserve(s) PROVE IInv'
<1> USE DEF IInv
<1>0. nextStream \in Nat /\ s \in Nat /\ s = nextStream + 1
  BY MuxAssumption DEF Shape, Streams, Reserve
<1>1. /\ nextStream' = s /\ table' = table \cup {s} /\ Cardinality(table) < ServerLimit
      /\ \A u \in Streams : caller'[u] = IF u = s THEN "sending" ELSE caller[u]
      /\ UNCHANGED <<conn, done, opened, rx, got, asked, closing, closeLost, hostVars,
                     toHost, fromHost>>
  BY DEF Reserve, Moves, Shape
<1>2. Shape'
  <2>1. caller' \in [Streams -> Callers]
    BY DEF Reserve, Moves, Shape, Callers
  <2>2. nextStream' \in 0..MaxStreams
    BY <1>1, MuxAssumption DEF Streams
  <2> QED  BY <1>1, <2>1, <2>2 DEF Shape, hostVars
<1>3. caller[s] = "none" /\ s \notin table /\ s \notin done
  BY <1>0 DEF Numbered
<1>4. Numbered'
  <2>1. Cardinality(table') <= ServerLimit
    <3>1. Cardinality(table') = Cardinality(table) + 1
      BY <1>1, <1>3, StreamSets, FS_AddElement DEF Shape
    <3>2. Cardinality(table) \in Nat
      BY StreamSets DEF Shape
    <3> QED  BY <1>1, <3>1, <3>2, MuxAssumption
  <2>2. \A u \in Streams : caller'[u] = "none" <=> u > nextStream'
    <3>1. \A u \in Streams : u \in Nat
      BY DEF Streams
    <3> QED  BY <1>0, <1>1, <1>3, <3>1 DEF Numbered
  <2>3. \A u \in table' : u <= nextStream' /\ u \notin done'
    BY <1>0, <1>1, <1>3 DEF Numbered, Shape, Streams
  <2>4. \A u \in done' : u <= nextStream'
    BY <1>0, <1>1 DEF Numbered, Shape, Streams
  <2>5. /\ \A u \in Streams : opened'[u] = "error" => u \in done'
        /\ conn' = "up" => \A u \in Streams : caller'[u] = "sending" => u \in table'
    BY <1>1 DEF Numbered
  <2> QED  BY <2>1, <2>2, <2>3, <2>4, <2>5 DEF Numbered
<1>5. Unheard(s) /\ ~Asking(s)
  BY <1>3 DEF Unheard, Asking, OpenFirst, Mentions
<1>6. \A u \in Streams : Careful(u)
  <2> SUFFICES ASSUME NEW u \in Streams PROVE Careful(u)
    OBVIOUS
  <2>1. CASE u = s
    BY <1>1, <1>3, <1>5, <2>1 DEF Careful, OpenFirst
  <2>2. CASE u # s
    BY <1>1, <2>2 DEF Careful, OpenFirst
  <2> QED  BY <2>1, <2>2
<1> QED  BY <1>1, <1>2, <1>4, <1>6, ServerSide DEF hostVars

\* The other ends of openStream: its failures, its answer, its timer.
LEMMA OpenKeeps ==
    ASSUME IInv, NEW s \in Streams,
           \/ SendOpenFails(s) \/ Opened(s) \/ OpenRefused(s) \/ OpenTimeout(s)
           \/ OpenHostDown(s)
    PROVE  IInv'
<1> USE DEF IInv
<1>1. ASSUME caller[s] \in {"sending", "waiting"}, caller[s] = "sending" \/ opened[s] = "error",
             RemoteClose({s}), Moves(s, "ended"),
             UNCHANGED <<conn, nextStream, rx, got, asked, closing, closeLost, hostVars,
                         toHost, fromHost>>
      PROVE  IInv'
  <2>1. /\ table' = table \ {s} /\ done' = done \cup {s}
        /\ \A u \in Streams : /\ caller'[u] = IF u = s THEN "ended" ELSE caller[u]
                              /\ opened'[u] \in {opened[u], "error"}
                              /\ opened'[u] = "error" => opened[u] = "error" \/ u = s
    BY <1>1 DEF RemoteClose, Moves, Shape
  <2>2. Shape'
    <3>1. opened' \in [Streams -> {"empty", "ok", "error"}] /\ caller' \in [Streams -> Callers]
      BY <1>1 DEF RemoteClose, Moves, Shape, Callers
    <3> QED  BY <1>1, <2>1, <3>1 DEF Shape, hostVars
  <2>3. s \in table => s \notin peers /\ ~Asking(s)
    BY <1>1 DEF Numbered, OpenFirst, Unheard, Asking, Mentions
  <2>4. \A u \in Streams : Kept(u)
    BY <1>1, <2>1, <2>3 DEF Kept, Numbered, OpenFirst
  <2> QED  BY <1>1, <2>1, <2>2, <2>4, ServerStep DEF hostVars
<1>2. ASSUME SendOpenFails(s) \/ OpenRefused(s) PROVE IInv'
  BY <1>1, <1>2 DEF SendOpenFails, OpenRefused
<1>3. ASSUME Opened(s) \/ OpenHostDown(s) PROVE IInv'
  <2>1. /\ caller[s] = "waiting" /\ (opened[s] = "ok" \/ caller' = [caller EXCEPT ![s] = "ended"])
        /\ \E place \in {"proxying", "ended"} : caller' = [caller EXCEPT ![s] = place]
        /\ \A u \in Streams : opened'[u] \in {opened[u], "empty"}
        /\ opened' \in [Streams -> {"empty", "ok", "error"}]
        /\ UNCHANGED <<conn, nextStream, table, done, rx, got, asked, closing, closeLost,
                       hostVars, toHost, fromHost>>
    BY <1>3 DEF Opened, OpenHostDown, Moves, Shape
  <2>2. Shape'
    <3>1. caller' \in [Streams -> Callers]
      BY <2>1 DEF Shape, Callers
    <3> QED  BY <2>1, <3>1 DEF Shape, hostVars
  <2>3. \A u \in Streams : Kept(u)
    <3>1. \A u \in Streams \ {s} : caller'[u] = caller[u]
      BY <2>1 DEF Shape
    <3>2. /\ caller'[s] \in {"proxying", "ended"}
          /\ caller'[s] = "proxying" => ~Unheard(s)
      BY <2>1 DEF Shape, OpenFirst
    <3> QED  BY <2>1, <3>1, <3>2 DEF Kept, Numbered, OpenFirst
  <2> QED  BY <2>1, <2>2, <2>3, ServerStep DEF hostVars
<1>4. ASSUME OpenTimeout(s) PROVE IInv'
  <2>1. /\ table' = table \ {s} /\ done' = done \cup {s} /\ caller[s] = "waiting"
        /\ closing \subseteq closing' /\ closing' \subseteq closing \cup {s}
        /\ s \in table => s \in closing'
        /\ \A u \in Streams : caller'[u] = IF u = s THEN "ended" ELSE caller[u]
        /\ UNCHANGED <<conn, nextStream, opened, rx, got, asked, closeLost, hostVars,
                       toHost, fromHost>>
    BY <1>4, CloseStreamDoes DEF OpenTimeout, Moves, Shape
  <2>2. Shape'
    <3>1. caller' \in [Streams -> Callers]
      BY <1>4 DEF OpenTimeout, Moves, Shape, Callers
    <3> QED  BY <2>1, <3>1 DEF Shape, hostVars
  <2>3. \A u \in Streams : Kept(u)
    BY <2>1 DEF Kept, Numbered, OpenFirst
  <2> QED  BY <2>1, <2>2, <2>3, ServerStep DEF hostVars
<1> QED  BY <1>2, <1>3, <1>4

\* proxyAHP and forwardClientFrames, as long as they queue nothing.
LEMMA ProxyKeeps ==
    ASSUME IInv, NEW s \in Streams,
           \/ Deliver(s) \/ ProxyEnds(s) \/ ClientGone(s) \/ ForwardFails(s)
           \/ ForwarderEnds(s)
    PROVE  IInv'
<1> USE DEF IInv
<1>1. ASSUME Deliver(s) PROVE IInv'
  <2>1. /\ caller[s] = "proxying" /\ rx[s] # << >>
        /\ \A u \in Streams \ {s} : rx'[u] = rx[u] /\ got'[u] = got[u]
        /\ UNCHANGED <<conn, nextStream, caller, table, done, opened, asked,
                       closing, closeLost, hostVars, toHost, fromHost>>
    BY <1>1 DEF Deliver, Shape
  <2>2. Shape'
    <3>1. rx[s] \in Seq(Nat) /\ got[s] \in Seq(Nat)
      BY DEF Shape
    <3>2. Head(rx[s]) \in Nat /\ Tail(rx[s]) \in Seq(Nat)
      BY <2>1, <3>1, HeadTailProperties
    <3>3. Append(got[s], Head(rx[s])) \in Seq(Nat)
      BY <3>1, <3>2, AppendProperties
    <3>4. rx' \in [Streams -> Seq(Nat)] /\ got' \in [Streams -> Seq(Nat)]
      BY <1>1, <3>2, <3>3 DEF Deliver, Shape
    <3> QED  BY <2>1, <3>4 DEF Shape, hostVars
  <2>3. ~Unheard(s)
    BY <2>1 DEF OpenFirst
  <2>4. \A u \in Streams : Kept(u)
    BY <2>1, <2>3 DEF Kept, Numbered, OpenFirst
  <2> QED  BY <2>1, <2>2, <2>4, ServerStep DEF hostVars
<1>2. ASSUME ProxyEnds(s) \/ ForwarderEnds(s) PROVE IInv'
  <2>1. /\ caller[s] \in {"proxying", "draining"}
        /\ \A u \in Streams \ {s} : caller'[u] = caller[u]
        /\ caller'[s] \in {"draining", "ended"}
        /\ UNCHANGED <<conn, nextStream, table, done, opened, rx, got, asked,
                       closing, closeLost, hostVars, toHost, fromHost>>
    BY <1>2 DEF ProxyEnds, ForwarderEnds, Moves, Shape
  <2>2. Shape'
    <3>1. caller' \in [Streams -> Callers]
      BY <1>2 DEF ProxyEnds, ForwarderEnds, Moves, Shape, Callers
    <3> QED  BY <2>1, <3>1 DEF Shape, hostVars
  <2>3. ~Unheard(s)
    BY <2>1 DEF OpenFirst
  <2>4. \A u \in Streams : Kept(u)
    BY <2>1, <2>3 DEF Kept, Numbered, OpenFirst
  <2> QED  BY <2>1, <2>2, <2>4, ServerStep DEF hostVars
<1>3. ASSUME ClientGone(s) \/ ForwardFails(s) PROVE IInv'
  <2>1. /\ caller[s] \in {"proxying", "draining"}
        /\ \A u \in Streams \ {s} : caller'[u] = caller[u]
        /\ caller'[s] = caller[s] \/ caller'[s] = "draining"
        /\ CloseStream(s)
        /\ UNCHANGED <<conn, nextStream, opened, rx, got, closeLost, hostVars,
                       toHost, fromHost>>
    BY <1>3 DEF ClientGone, ForwardFails, Moves, Shape
  <2>2. /\ table' = table \ {s} /\ done' = done \cup {s}
        /\ closing \subseteq closing' /\ closing' \subseteq closing \cup {s}
        /\ s \in table => s \in closing'
    BY <2>1, CloseStreamDoes
  <2>3. Shape'
    <3>1. caller' \in [Streams -> Callers]
      BY <1>3 DEF ClientGone, ForwardFails, Moves, Shape, Callers
    <3>2. asked' \in [Streams -> Nat]
      BY <1>3, MuxAssumption DEF ClientGone, ForwardFails, Shape
    <3> QED  BY <2>1, <2>2, <3>1, <3>2 DEF Shape, hostVars
  <2>4. ~Unheard(s)
    BY <2>1 DEF OpenFirst
  <2>5. \A u \in Streams : Kept(u)
    BY <2>1, <2>2, <2>4 DEF Kept, Numbered, OpenFirst
  <2> QED  BY <2>1, <2>2, <2>3, <2>5, ServerStep DEF hostVars
<1> QED  BY <1>1, <1>2, <1>3

\* The end of the connection, on either side.
LEMMA EndKeeps == ASSUME IInv, CloseBegins \/ CloseSweeps \/ HostTeardown PROVE IInv'
<1> USE DEF IInv
<1>1. ASSUME CloseBegins \/ HostTeardown PROVE IInv'
  <2>1. /\ UNCHANGED <<nextStream, caller, table, done, opened, rx, got, asked,
                       closing, closeLost, emitted, toHost, fromHost>>
        /\ conn' \in {conn, "closing"} /\ peers' \subseteq peers
    BY <1>1 DEF CloseBegins, HostTeardown, hostVars, serverVars
  <2>2. Shape'
    BY <2>1 DEF Shape
  <2>3. \A u \in Streams : Kept(u)
    BY <2>1 DEF Kept, Numbered, OpenFirst
  <2> QED  BY <2>1, <2>2, <2>3, ServerStep
<1>2. ASSUME CloseSweeps PROVE IInv'
  <2>1. /\ conn' = "swept" /\ table' = {} /\ done' = done \cup table
        /\ \A u \in Streams : /\ opened'[u] \in {opened[u], "error"}
                              /\ opened'[u] = "error" => opened[u] = "error" \/ u \in table
        /\ opened' \in [Streams -> {"empty", "ok", "error"}]
        /\ UNCHANGED <<nextStream, caller, rx, got, asked, closing, closeLost, hostVars,
                       toHost, fromHost>>
    BY <1>2 DEF CloseSweeps, RemoteClose, Shape
  <2>2. Shape'
    BY <2>1 DEF Shape, hostVars
  <2>3. \A u \in table : caller[u] # "none"
    <3>1. \A u \in Streams : u \in Nat
      BY DEF Streams
    <3> QED  BY <3>1, MuxAssumption DEF Numbered, Shape
  <2>4. \A u \in Streams : Kept(u)
    BY <2>1, <2>3 DEF Kept, Numbered, OpenFirst
  <2> QED  BY <2>1, <2>2, <2>4, ServerStep DEF hostVars
<1> QED  BY <1>1, <1>2

\* readHost: the stream of a routed frame has been heard of, and a close frame
\* of the Agent Host is about a stream that is no peer.
LEMMA RouteKeeps == ASSUME IInv, RouteFrame PROVE IInv'
<1> USE DEF IInv
<1> DEFINE f == Head(fromHost)
<1>1. /\ fromHost # << >> /\ fromHost' = Tail(fromHost)
      /\ UNCHANGED <<conn, nextStream, caller, got, asked, closeLost, hostVars, toHost>>
  BY DEF RouteFrame
<1>2. /\ f \in Wire /\ f \in Contents(fromHost) /\ fromHost' \in Seq(Wire)
      /\ Contents(fromHost') \subseteq Contents(fromHost)
  BY <1>1, QueueTail DEF Shape
<1>3. ~Unheard(f.id) /\ f.id \in Streams
  BY <1>2 DEF OpenFirst, Mentions, Wire
<1>4. f.type = "close" => f.id \notin peers /\ ~Asking(f.id)
  BY <1>2, <1>3 DEF ClosedIsNoPeer, Unheard
<1>5. caller[f.id] \notin {"none", "sending"}
  BY <1>3 DEF Unheard
<1>6. \/ UNCHANGED <<table, done, opened, rx, closing>>
      \/ RouteOpened(f.id)
      \/ f.type = "data" /\ RouteData(f.id, f.n)
      \/ f.type = "close" /\ RemoteClose({f.id}) /\ UNCHANGED <<rx, closing>>
  BY DEF RouteFrame
<1> HIDE DEF f
<1>7. /\ table' \subseteq table /\ done' \subseteq done \cup {f.id}
      /\ closing \subseteq closing' /\ closing' \subseteq closing \cup {f.id}
      /\ \A u \in Streams \ {f.id} : opened'[u] = opened[u] /\ rx'[u] = rx[u]
      /\ opened'[f.id] = "error" => opened[f.id] = "error" \/ f.id \in done'
      /\ \A u \in table \ table' : u = f.id /\ (f.id \in closing' \/ f.type = "close")
      /\ done \subseteq done' /\ (f.id \in table' => f.id \notin done')
      /\ opened' \in [Streams -> {"empty", "ok", "error"}] /\ rx' \in [Streams -> Seq(Nat)]
  <2>1. CASE UNCHANGED <<table, done, opened, rx, closing>>
    BY <2>1 DEF Shape, Numbered
  <2>2. CASE RouteOpened(f.id)
    BY <1>3, <2>2 DEF Shape, RouteOpened, Numbered
  <2>3. CASE f.type = "data" /\ RouteData(f.id, f.n)
    <3>1. CASE Len(rx[f.id]) < RecvQueue
      <4>1. Append(rx[f.id], f.n) \in Seq(Nat)
        BY <1>2, <1>3, AppendProperties DEF Shape, Wire
      <4>2. /\ rx' = [rx EXCEPT ![f.id] = Append(rx[f.id], f.n)]
            /\ UNCHANGED <<table, done, opened, closing>>
        BY <2>3, <3>1 DEF RouteData
      <4>3. rx' \in [Streams -> Seq(Nat)] /\ \A u \in Streams \ {f.id} : rx'[u] = rx[u]
        BY <1>3, <4>1, <4>2 DEF Shape
      <4> QED  BY <1>3, <4>2, <4>3 DEF Shape, Numbered
    <3>2. CASE ~(Len(rx[f.id]) < RecvQueue)
      <4>1. CloseStream(f.id) /\ UNCHANGED <<opened, rx>>
        BY <2>3, <3>2 DEF RouteData
      <4> QED  BY <1>3, <4>1, CloseStreamDoes DEF Shape, Numbered
    <3> QED  BY <3>1, <3>2
  <2>4. CASE f.type = "close" /\ RemoteClose({f.id}) /\ UNCHANGED <<rx, closing>>
    BY <1>3, <2>4 DEF Shape, RemoteClose, Numbered
  <2> QED  BY <1>6, <2>1, <2>2, <2>3, <2>4
<1>8. Shape'
  BY <1>1, <1>2, <1>3, <1>7 DEF Shape, hostVars
<1>9. \A u \in Streams : Kept(u)
  <2> SUFFICES ASSUME NEW u \in Streams PROVE Kept(u)
    OBVIOUS
  <2>1. CASE u = f.id
    BY <1>1, <1>3, <1>4, <1>5, <1>7, <2>1 DEF Kept, Numbered
  <2>2. CASE u # f.id
    BY <1>1, <1>7, <2>2 DEF Kept, Numbered, OpenFirst
  <2> QED  BY <2>1, <2>2
<1> QED  BY <1>1, <1>2, <1>7, <1>8, <1>9, ServerStep DEF hostVars

-----------------------------------------------------------------------------
(* Frames for the Agent Host *)

\* A frame of stream s is queued on a connection that is up: its open frame, a
\* message of its client, or its close frame.
LEMMA QueuedKeeps ==
    ASSUME IInv, Shape', NEW s \in Streams, NEW f \in Wire, f.id = s,
           conn = "up", toHost' = Append(toHost, f),
           UNCHANGED <<conn, nextStream, table, done, opened, rx, got, closeLost,
                       hostVars, fromHost>>,
           \A u \in Streams \ {s} : caller'[u] = caller[u],
           \/ f.type = "open" /\ caller[s] = "sending" /\ caller'[s] = "waiting"
              /\ closing' = closing
           \/ f.type = "data" /\ caller[s] \in {"proxying", "draining"}
              /\ caller'[s] = caller[s] /\ closing' = closing
           \/ f = Frame("close", s, 0) /\ f.type = "close" /\ s \in closing
              /\ closing' = closing \ {s} /\ caller'[s] = caller[s]
    PROVE  IInv'
<1> USE DEF IInv
<1>1. /\ Len(toHost) \in Nat /\ Len(toHost') = Len(toHost) + 1
      /\ Contents(toHost)' = Contents(toHost) \cup {f}
      /\ \A i \in 1..Len(toHost) : toHost'[i] = toHost[i]
      /\ toHost'[Len(toHost) + 1] = f
  BY QueueAppend, LenProperties DEF Shape, Contents
<1>2. \A u \in Streams : /\ Asking(u)' <=> Asking(u) \/ (u = s /\ f.type = "open")
                         /\ Mentions(toHost, u)' <=> Mentions(toHost, u) \/ u = s
                         /\ Mentions(fromHost, u)' <=> Mentions(fromHost, u)
  BY <1>1 DEF Asking, Mentions
<1>3. caller[s] # "none" /\ caller'[s] \notin {"none", "sending"}
  BY DEF OpenFirst
<1>4. \A u \in Streams : Unheard(u)' <=> Unheard(u)
  BY <1>2, <1>3 DEF Unheard
<1>5. Numbered'
  BY <1>3 DEF Numbered
<1>6. OpenFirst'
  <2>1. ASSUME NEW j \in 1..Len(toHost'), toHost'[j].type = "open", NEW i \in 1..(j - 1)
        PROVE  toHost'[i].id # toHost'[j].id
    <3>1. i \in 1..Len(toHost)
      BY <1>1
    <3>2. CASE j \in 1..Len(toHost)
      BY <1>1, <2>1, <3>1, <3>2 DEF OpenFirst
    <3>3. CASE j = Len(toHost) + 1
      <4>1. f.type = "open" /\ caller[s] = "sending"
        BY <1>1, <2>1, <3>3 DEF Frame
      <4>2. ~Mentions(toHost, s)
        BY <4>1 DEF OpenFirst
      <4> QED  BY <1>1, <3>1, <3>3, <4>2 DEF Mentions, Contents
    <3> QED  BY <1>1, <3>2, <3>3
  <2>2. \A u \in Streams : caller'[u] \in {"none", "sending"} =>
            ~Mentions(toHost, u)' /\ u \notin closing'
    BY <1>2, <1>3 DEF OpenFirst
  <2>3. \A g \in Contents(toHost)' : g.type = "data" => ~Unheard(g.id)'
    <3>1. \A g \in Contents(toHost) : g.id \in Streams
      BY ContentsOfWire DEF Shape, Wire
    <3>2. f.type = "data" => ~Unheard(s)
      BY DEF OpenFirst
    <3> QED  BY <1>1, <1>4, <3>1, <3>2 DEF OpenFirst
  <2>4. \A u \in Streams : Unheard(u)' =>
            /\ u \notin peers' /\ ~Mentions(fromHost, u)'
            /\ emitted'[u] = 0 /\ rx'[u] = << >> /\ got'[u] = << >>
            /\ opened'[u] # "ok" /\ caller'[u] \notin {"proxying", "draining"}
    BY <1>2, <1>3, <1>4 DEF OpenFirst, hostVars
  <2> QED  BY <2>1, <2>2, <2>3, <2>4 DEF OpenFirst
<1>7. ClosedIsNoPeer'
  BY DEF ClosedIsNoPeer, hostVars
<1>8. NoOrphan'
  <2>1. \A u \in Streams : Ending(u) => Ending(u)'
    BY <1>1 DEF Ending
  <2>2. f.type = "open" => s \in table
    BY DEF Numbered, Frame
  <2> QED  BY <1>2, <2>1, <2>2 DEF NoOrphan, hostVars
<1>9. FitsLimit'
  <2> SUFFICES ASSUME NEW i \in 1..Len(toHost'), toHost'[i].type = "open"
               PROVE  Cardinality(Admitted(i)' \cup {toHost'[i].id}) <= ServerLimit
    BY DEF FitsLimit
  <2>1. CASE i \in 1..Len(toHost)
    <3>1. \A j \in 1..(i - 1) : toHost'[j] = toHost[j]
      BY <1>1
    <3>2. Admitted(i)' = Admitted(i)
      BY <3>1 DEF Admitted, hostVars
    <3> QED  BY <1>1, <2>1, <3>2 DEF FitsLimit
  <2>2. CASE i = Len(toHost) + 1
    <3>1. f.type = "open" /\ caller[s] = "sending" /\ toHost'[i].id = s
      BY <1>1, <2>2 DEF Frame
    <3>2. s \in table
      BY <3>1 DEF Numbered
    <3>3. Admitted(i)' \cup {s} \subseteq table
      BY <3>2 DEF Admitted
    <3>4. Cardinality(Admitted(i)' \cup {s}) <= Cardinality(table)
      BY <3>3, StreamSets DEF Shape
    <3>5. Cardinality(Admitted(i)' \cup {s}) \in Nat /\ Cardinality(table) \in Nat
      BY <3>3, StreamSets DEF Shape
    <3>6. Cardinality(table) <= ServerLimit /\ ServerLimit \in Nat
      BY MuxAssumption DEF Numbered
    <3>7. Cardinality(Admitted(i)' \cup {s}) <= ServerLimit
      BY <3>4, <3>5, <3>6
    <3> QED  BY <3>1, <3>7
  <2>3. i \in 1..Len(toHost) \/ i = Len(toHost) + 1
    BY <1>1
  <2> QED  BY <2>1, <2>2, <2>3
<1> QED  BY <1>5, <1>6, <1>7, <1>8, <1>9

\* Once done is closed nothing reads the queue any more: the sender goes on.
LEMMA SendKeeps ==
    ASSUME IInv, NEW s \in Streams, SendOpen(s) \/ Forward(s) \/ SendClose(s)
    PROVE  IInv'
<1> USE DEF IInv
<1>1. ASSUME SendOpen(s) PROVE IInv'
  <2> DEFINE f == Frame("open", s, 0)
  <2>1. /\ f \in Wire /\ f.id = s /\ f.type = "open"
        /\ caller[s] = "sending" /\ caller'[s] = "waiting"
        /\ \A u \in Streams \ {s} : caller'[u] = caller[u]
        /\ caller' \in [Streams -> Callers]
        /\ toHost' = IF conn = "up" THEN Append(toHost, f) ELSE toHost
        /\ UNCHANGED <<conn, nextStream, table, done, opened, rx, got, asked, closing,
                       closeLost, hostVars, fromHost>>
    BY <1>1 DEF SendOpen, Moves, Send, Frame, Wire, Shape, Callers
  <2> HIDE DEF f
  <2>2. Shape'
    BY <2>1, QueueAppend DEF Shape, hostVars
  <2>3. CASE conn = "up"
    BY <2>1, <2>2, <2>3, QueuedKeeps
  <2>4. CASE conn # "up"
    <3>1. \A u \in Streams : Kept(u)
      BY <2>1, <2>4 DEF Kept, Numbered, OpenFirst
    <3> QED  BY <2>1, <2>2, <2>4, <3>1, ServerStep DEF hostVars
  <2> QED  BY <2>3, <2>4
<1>2. ASSUME Forward(s) PROVE IInv'
  <2> DEFINE f == Frame("data", s, asked[s] + 1)
  <2>1. /\ f \in Wire /\ f.id = s /\ f.type = "data"
        /\ caller[s] \in {"proxying", "draining"} /\ asked' \in [Streams -> Nat]
        /\ toHost' = IF conn = "up" THEN Append(toHost, f) ELSE toHost
        /\ UNCHANGED <<conn, nextStream, caller, table, done, opened, rx, got, closing,
                       closeLost, hostVars, fromHost>>
    BY <1>2 DEF Forward, Send, Frame, Wire, Shape
  <2> HIDE DEF f
  <2>2. Shape'
    BY <2>1, QueueAppend DEF Shape, hostVars
  <2>3. CASE conn = "up"
    BY <2>1, <2>2, <2>3, QueuedKeeps
  <2>4. CASE conn # "up"
    <3>1. \A u \in Streams : Kept(u)
      BY <2>1, <2>4 DEF Kept, Numbered, OpenFirst
    <3> QED  BY <2>1, <2>2, <2>4, <3>1, ServerStep DEF hostVars
  <2> QED  BY <2>3, <2>4
<1>3. ASSUME SendClose(s) PROVE IInv'
  <2> DEFINE f == Frame("close", s, 0)
  <2>1. /\ f \in Wire /\ f.id = s /\ f.type = "close"
        /\ s \in closing /\ closing' = closing \ {s}
        /\ UNCHANGED <<conn, nextStream, caller, table, done, opened, rx, got, asked,
                       hostVars, fromHost>>
        /\ \/ /\ toHost' = IF conn = "up" THEN Append(toHost, f) ELSE toHost
              /\ UNCHANGED closeLost
           \/ UNCHANGED toHost /\ closeLost' = closeLost \cup {s}
    BY <1>3 DEF SendClose, Send, Frame, Wire
  <2> HIDE DEF f
  <2>2. Shape'
    <3>1. toHost' \in Seq(Wire)
      <4>1. toHost \in Seq(Wire)
        BY DEF Shape
      <4>2. Append(toHost, f) \in Seq(Wire)
        BY <2>1, <4>1, QueueAppend
      <4> QED  BY <2>1, <4>1, <4>2
    <3>2. closing' \subseteq Streams /\ closeLost' \subseteq Streams
      BY <2>1 DEF Shape
    <3> QED  BY <2>1, <3>1, <3>2 DEF Shape, hostVars
  <2>3. CASE conn = "up" /\ toHost' = Append(toHost, f) /\ UNCHANGED closeLost
    <3>1. f = Frame("close", s, 0)
      BY DEF f
    <3> QED  BY <2>1, <2>2, <2>3, <3>1, QueuedKeeps
  <2>4. CASE UNCHANGED toHost /\ closeLost' = closeLost \cup {s}
    <3>1. \A u \in Streams : Kept(u)
      BY <2>1, <2>4 DEF Kept, Numbered, OpenFirst
    <3> QED  BY <2>1, <2>2, <2>4, <3>1, ServerStep DEF hostVars
  <2>5. CASE conn # "up" /\ UNCHANGED <<toHost, closeLost>>
    <3>1. IInv' <=> Shape' /\ Numbered' /\ OpenFirst' /\ ClosedIsNoPeer'
      BY <2>1, <2>5 DEF NoOrphan, FitsLimit
    <3>2. Numbered' /\ ClosedIsNoPeer'
      BY <2>1, <2>5 DEF Numbered, ClosedIsNoPeer, hostVars
    <3>3. OpenFirst'
      <4>1. \A u \in Streams : /\ Unheard(u)' <=> Unheard(u)
                               /\ Mentions(toHost, u)' <=> Mentions(toHost, u)
                               /\ Mentions(fromHost, u)' <=> Mentions(fromHost, u)
        BY <2>1, <2>5 DEF Unheard, Asking, Mentions
      <4>2. \A g \in Contents(toHost) : g.id \in Streams
        BY ContentsOfWire DEF Shape, Wire
      <4>3. \A u \in Streams : caller'[u] \in {"none", "sending"} =>
                ~Mentions(toHost, u)' /\ u \notin closing'
        BY <2>1, <4>1 DEF OpenFirst
      <4>4. \A g \in Contents(toHost)' : g.type = "data" => ~Unheard(g.id)'
        BY <2>5, <4>1, <4>2 DEF OpenFirst
      <4>5. \A u \in Streams : Unheard(u)' =>
                /\ u \notin peers' /\ ~Mentions(fromHost, u)'
                /\ emitted'[u] = 0 /\ rx'[u] = << >> /\ got'[u] = << >>
                /\ opened'[u] # "ok" /\ caller'[u] \notin {"proxying", "draining"}
        BY <2>1, <4>1 DEF OpenFirst, hostVars
      <4> QED  BY <2>5, <4>3, <4>4, <4>5 DEF OpenFirst
    <3> QED  BY <2>2, <3>1, <3>2, <3>3
  <2> QED  BY <2>1, <2>3, <2>4, <2>5
<1> QED  BY <1>1, <1>2, <1>3

-----------------------------------------------------------------------------
(* The Agent Host *)

\* enqueue drops a frame or puts it at the end.
LEMMA EnqueueDoes ==
    ASSUME fromHost \in Seq(Wire), NEW g \in Wire, Enqueue(g)
    PROVE  /\ fromHost' \in Seq(Wire)
           /\ Contents(fromHost)' \subseteq Contents(fromHost) \cup {g}
<1>1. CASE fromHost' = fromHost
  BY <1>1 DEF Contents
<1>2. CASE fromHost' = Append(fromHost, g)
  BY <1>2, QueueAppend DEF Contents
<1> QED  BY <1>1, <1>2 DEF Enqueue

\* What handleMuxFrame does with the frame f of stream s: it may answer with
\* one frame, and a close frame answers only for a stream that is no peer.
LEMMA HandleDoes ==
    ASSUME IInv, HandleMuxFrame
    PROVE  LET f == Head(toHost)
               s == f.id
           IN  /\ s \in Streams /\ fromHost' \in Seq(Wire)
               /\ emitted' \in [Streams -> Nat]
               /\ \A u \in Streams \ {s} : emitted'[u] = emitted[u]
               /\ peers' \subseteq peers \cup {s} /\ (s \in peers' \ peers => f.type = "open")
               /\ f.type = "close" => s \notin peers'
               /\ \A g \in Contents(fromHost)' :
                      g \in Contents(fromHost)
                      \/ (g.id = s /\ (g.type = "close" => s \notin peers'))
<1> USE DEF IInv
<1> DEFINE f == Head(toHost)
           s == f.id
<1>1. f \in Wire /\ s \in Streams /\ f \in Contents(toHost)
  BY QueueTail DEF HandleMuxFrame, Shape, Wire
<1>2. f.type = "open" => s \notin peers
  BY <1>1 DEF OpenFirst, Unheard, Asking
<1>3. \A g \in Wire : Enqueue(g) => /\ fromHost' \in Seq(Wire)
                                    /\ Contents(fromHost)' \subseteq Contents(fromHost) \cup {g}
  BY EnqueueDoes DEF Shape
<1>4. \A k \in {"close", "opened"} : /\ Frame(k, s, 0) \in Wire /\ Frame(k, s, 0).id = s
                                     /\ Frame(k, s, 0).type = k
  BY <1>1 DEF Frame, Wire
<1>5. LET g == Frame("data", s, emitted[s] + 1)
      IN  g \in Wire /\ g.id = s /\ g.type = "data"
  BY <1>1 DEF Frame, Wire, Shape
<1>6. \/ f.type = "open" /\ AddMuxPeer(s)
      \/ f.type = "data" /\ s \notin peers /\ Enqueue(Frame("close", s, 0))
         /\ UNCHANGED <<peers, emitted>>
      \/ f.type = "data" /\ s \in peers /\ Emit(s) /\ UNCHANGED peers
      \/ f.type = "data" /\ s \in peers /\ UNCHANGED <<peers, emitted, fromHost>>
      \/ f.type = "close" /\ peers' = peers \ {s} /\ UNCHANGED <<emitted, fromHost>>
  BY DEF HandleMuxFrame
<1> HIDE DEF f, s
<1>7. CASE f.type = "open" /\ AddMuxPeer(s)
  <2>1. \/ Enqueue(Frame("close", s, 0)) /\ UNCHANGED <<peers, emitted>>
        \/ Enqueue(Frame("opened", s, 0)) /\ peers' = peers \cup {s} /\ UNCHANGED emitted
    BY <1>7 DEF AddMuxPeer
  <2>2. CASE Enqueue(Frame("close", s, 0)) /\ UNCHANGED <<peers, emitted>>
    BY <1>1, <1>2, <1>3, <1>4, <1>7, <2>2 DEF Shape, f, s
  <2>3. CASE Enqueue(Frame("opened", s, 0)) /\ peers' = peers \cup {s} /\ UNCHANGED emitted
    BY <1>1, <1>3, <1>4, <1>7, <2>3 DEF Shape, f, s
  <2> QED  BY <2>1, <2>2, <2>3
<1>8. CASE f.type = "data" /\ s \notin peers /\ Enqueue(Frame("close", s, 0))
           /\ UNCHANGED <<peers, emitted>>
  BY <1>1, <1>3, <1>4, <1>8 DEF Shape, f, s
<1>9. CASE f.type = "data" /\ s \in peers /\ Emit(s) /\ UNCHANGED peers
  <2> DEFINE g == Frame("data", s, emitted[s] + 1)
  <2>1. g \in Wire /\ Enqueue(g)
    BY <1>5, <1>9 DEF Emit
  <2>2. emitted' \in [Streams -> Nat] /\ \A u \in Streams \ {s} : emitted'[u] = emitted[u]
    BY <1>1, <1>9 DEF Emit, Shape
  <2> QED  BY <1>1, <1>3, <1>5, <1>9, <2>1, <2>2 DEF f, s
<1>10. CASE \/ f.type = "data" /\ s \in peers /\ UNCHANGED <<peers, emitted, fromHost>>
            \/ f.type = "close" /\ peers' = peers \ {s} /\ UNCHANGED <<emitted, fromHost>>
  <2>1. Contents(fromHost)' = Contents(fromHost)
    BY <1>10 DEF Contents
  <2> QED  BY <1>1, <1>10, <2>1 DEF Shape, f, s
<1> QED  BY <1>6, <1>7, <1>8, <1>9, <1>10

\* handleMuxFrame: the frames behind f move up, and none of them opens s.
LEMMA HandleKeeps == ASSUME IInv, HandleMuxFrame PROVE IInv'
<1> USE DEF IInv
<1>0. /\ toHost # << >> /\ toHost' = Tail(toHost)
      /\ UNCHANGED <<conn, nextStream, caller, table, done, opened, rx, got, asked, closing,
                     closeLost>>
  BY DEF HandleMuxFrame, serverVars
<1>1. PICK f \in Wire : /\ f = Head(toHost) /\ f = toHost[1] /\ f \in Contents(toHost)
                        /\ Contents(toHost) = Contents(Tail(toHost)) \cup {f}
  BY <1>0, QueueTail DEF Shape
<1>2. PICK s \in Streams : s = f.id
  BY DEF Wire
<1>a. /\ toHost' \in Seq(Wire)
      /\ Len(toHost) \in Nat \ {0} /\ Len(toHost') = Len(toHost) - 1
      /\ \A i \in 1..Len(toHost') : toHost'[i] = toHost[i + 1]
  BY <1>0, QueueTail DEF Shape
<1>b. Contents(toHost) = Contents(toHost)' \cup {f}
  <2>1. Contents(toHost)' = Contents(Tail(toHost))
    BY <1>0 DEF Contents
  <2> QED  BY <1>1, <2>1
<1>3. /\ s \in Streams /\ fromHost' \in Seq(Wire) /\ emitted' \in [Streams -> Nat]
      /\ \A u \in Streams \ {s} : emitted'[u] = emitted[u]
      /\ peers' \subseteq peers \cup {s} /\ (s \in peers' \ peers => f.type = "open")
      /\ f.type = "close" => s \notin peers'
      /\ \A g \in Contents(fromHost)' :
             g \in Contents(fromHost) \/ (g.id = s /\ (g.type = "close" => s \notin peers'))
  BY <1>1, <1>2, HandleDoes
<1>4. /\ f.type = "open" => Asking(s)
      /\ caller[s] \notin {"none", "sending"}
  BY <1>1, <1>2 DEF Asking, OpenFirst, Mentions
<1>5. ~Asking(s)'
  <2> SUFFICES ASSUME NEW g \in Contents(toHost'), g.type = "open", g.id = s PROVE FALSE
    BY DEF Asking
  <2>1. PICK i \in 1..Len(toHost') : toHost'[i] = g
    BY DEF Contents
  <2>2. i + 1 \in 1..Len(toHost) /\ 1 \in 1..((i + 1) - 1) /\ toHost[i + 1] = g
    BY <1>a, <2>1
  <2>3. toHost[1].id # toHost[i + 1].id
    BY <2>2 DEF OpenFirst
  <2> QED  BY <1>1, <1>2, <2>2, <2>3
<1>6. \A u \in Streams : /\ Asking(u)' <=> Asking(u) /\ u # s
                         /\ Unheard(u)' => Unheard(u) /\ u # s
                         /\ Mentions(toHost, u)' => Mentions(toHost, u)
                         /\ u # s /\ Mentions(fromHost, u)' => Mentions(fromHost, u)
  <2>1. \A u \in Streams : /\ Asking(u)' => Asking(u) /\ u # s
                           /\ Mentions(toHost, u)' => Mentions(toHost, u)
                           /\ u # s /\ Mentions(fromHost, u)' => Mentions(fromHost, u)
    BY <1>b, <1>3, <1>5 DEF Asking, Mentions
  <2>2. \A u \in Streams : Asking(u) /\ u # s => Asking(u)'
    BY <1>b, <1>2 DEF Asking
  <2> QED  BY <1>0, <1>4, <2>1, <2>2 DEF Unheard
<1>7. Shape'
  BY <1>0, <1>a, <1>3 DEF Shape, HandleMuxFrame
<1>8. Numbered'
  BY <1>0 DEF Numbered
<1>9. OpenFirst'
  <2>1. ASSUME NEW j \in 1..Len(toHost'), toHost'[j].type = "open", NEW i \in 1..(j - 1)
        PROVE  toHost'[i].id # toHost'[j].id
    <3>1. i \in 1..Len(toHost') /\ j + 1 \in 1..Len(toHost) /\ i + 1 \in 1..((j + 1) - 1)
      BY <1>a
    <3>2. toHost'[i] = toHost[i + 1] /\ toHost'[j] = toHost[j + 1]
      BY <1>a, <3>1
    <3> QED  BY <2>1, <3>1, <3>2 DEF OpenFirst
  <2>2. \A u \in Streams : caller'[u] \in {"none", "sending"} =>
            ~Mentions(toHost, u)' /\ u \notin closing'
    BY <1>0, <1>6 DEF OpenFirst
  <2>3. \A g \in Contents(toHost)' : g.type = "data" => ~Unheard(g.id)'
    <3>1. \A g \in Contents(toHost) : g.id \in Streams
      BY ContentsOfWire DEF Shape, Wire
    <3> QED  BY <1>b, <1>6, <3>1 DEF OpenFirst
  <2>4. \A u \in Streams : Unheard(u)' =>
            /\ u \notin peers' /\ ~Mentions(fromHost, u)'
            /\ emitted'[u] = 0 /\ rx'[u] = << >> /\ got'[u] = << >>
            /\ opened'[u] # "ok" /\ caller'[u] \notin {"proxying", "draining"}
    BY <1>0, <1>3, <1>6 DEF OpenFirst
  <2> QED  BY <2>1, <2>2, <2>3, <2>4 DEF OpenFirst
<1>10. ClosedIsNoPeer'
  <2> SUFFICES ASSUME NEW g \in Contents(fromHost)', g.type = "close", g.id \in peers'
               PROVE  FALSE
    BY DEF ClosedIsNoPeer
  <2>1. g \in Contents(fromHost) /\ g.id \notin peers /\ g.id = s /\ f.type = "open"
    BY <1>3 DEF ClosedIsNoPeer
  <2>2. Mentions(fromHost, s) /\ Unheard(s)
    BY <1>4, <2>1 DEF Mentions, Unheard
  <2> QED  BY <1>3, <2>2 DEF OpenFirst
<1>11. NoOrphan'
  <2> SUFFICES ASSUME conn' = "up", NEW u \in Streams, u \in peers' \/ Asking(u)'
               PROVE  u \in table' \/ Ending(u)'
    BY DEF NoOrphan
  <2>1. u \in peers \/ Asking(u)
    BY <1>3, <1>4, <1>6
  <2>2. u \in table \/ Ending(u)
    BY <1>0, <2>1 DEF NoOrphan
  <2>3. Frame("close", u, 0) # f
    BY <1>2, <1>3, <1>4, <1>6 DEF Frame
  <2> QED  BY <1>0, <1>b, <2>2, <2>3 DEF Ending
<1>12. FitsLimit'
  <2> SUFFICES ASSUME conn' = "up", NEW i \in 1..Len(toHost'), toHost'[i].type = "open"
               PROVE  Cardinality(Admitted(i)' \cup {toHost'[i].id}) <= ServerLimit
    BY DEF FitsLimit
  <2>1. i + 1 \in 1..Len(toHost) /\ toHost'[i] = toHost[i + 1]
    BY <1>a
  <2>2. ASSUME NEW u \in Admitted(i)' PROVE u \in Admitted(i + 1)
    <3>1. u \in table
      BY <1>0 DEF Admitted
    <3>2. CASE u \in peers'
      <4>1. CASE u \in peers
        BY <3>1, <4>1 DEF Admitted
      <4>2. CASE u \notin peers
        <5>1. toHost[1].type = "open" /\ toHost[1].id = u
          BY <1>1, <1>2, <1>3, <3>2, <4>2
        <5>2. 1 \in 1..((i + 1) - 1)
          OBVIOUS
        <5> QED  BY <3>1, <5>1, <5>2 DEF Admitted
      <4> QED  BY <4>1, <4>2
    <3>3. CASE u \notin peers'
      <4>1. PICK j \in 1..(i - 1) : toHost'[j].type = "open" /\ toHost'[j].id = u
        BY <3>3 DEF Admitted
      <4>2. j + 1 \in 1..((i + 1) - 1) /\ toHost'[j] = toHost[j + 1]
        BY <1>a
      <4> QED  BY <3>1, <4>1, <4>2 DEF Admitted
    <3> QED  BY <3>2, <3>3
  <2>3. Admitted(i + 1) \cup {toHost[i + 1].id} \in SUBSET Streams
    BY <2>1, AdmittedStreams
  <2>4. Cardinality(Admitted(i + 1) \cup {toHost[i + 1].id}) <= ServerLimit
    BY <1>0, <2>1 DEF FitsLimit
  <2>5. Cardinality(Admitted(i)' \cup {toHost[i + 1].id})
            <= Cardinality(Admitted(i + 1) \cup {toHost[i + 1].id})
    BY <2>2, <2>3, StreamSets
  <2>6. /\ Cardinality(Admitted(i)' \cup {toHost[i + 1].id}) \in Nat
        /\ Cardinality(Admitted(i + 1) \cup {toHost[i + 1].id}) \in Nat
    BY <2>2, <2>3, StreamSets
  <2>7. Cardinality(Admitted(i)' \cup {toHost[i + 1].id}) <= ServerLimit
    BY <2>4, <2>5, <2>6, MuxAssumption
  <2> QED  BY <2>1, <2>7
<1> QED  BY <1>7, <1>8, <1>9, <1>10, <1>11, <1>12

\* An agent event for a peer: the stream is long heard of.
LEMMA HostEmitsKeeps == ASSUME IInv, NEW s \in Streams, HostEmits(s) PROVE IInv'
<1> USE DEF IInv
<1> DEFINE g == Frame("data", s, emitted[s] + 1)
<1>1. /\ s \in peers /\ Enqueue(g)
      /\ emitted' \in [Streams -> Nat] /\ \A u \in Streams \ {s} : emitted'[u] = emitted[u]
      /\ UNCHANGED <<conn, nextStream, caller, table, done, opened, rx, got, asked, closing,
                     closeLost, peers, toHost>>
  BY DEF HostEmits, Emit, serverVars, Shape
<1>2. g \in Wire /\ g.id = s /\ g.type = "data"
  BY DEF Frame, Wire, Shape
<1> HIDE DEF g
<1>3. fromHost' \in Seq(Wire) /\ Contents(fromHost)' \subseteq Contents(fromHost) \cup {g}
  BY <1>1, <1>2, EnqueueDoes DEF Shape
<1>4. Shape' /\ Numbered'
  BY <1>1, <1>3 DEF Shape, Numbered
<1>5. \A u \in Streams : /\ Asking(u)' <=> Asking(u)
                         /\ Unheard(u)' => Unheard(u) /\ u # s
                         /\ Mentions(toHost, u)' <=> Mentions(toHost, u)
                         /\ u # s /\ Mentions(fromHost, u)' => Mentions(fromHost, u)
                         /\ Ending(u)' <=> Ending(u)
  BY <1>1, <1>2, <1>3 DEF Asking, Unheard, Mentions, Ending, OpenFirst
<1>6. OpenFirst'
  <2>1. \A u \in Streams : caller'[u] \in {"none", "sending"} =>
            ~Mentions(toHost, u)' /\ u \notin closing'
    BY <1>1, <1>5 DEF OpenFirst
  <2>2. \A h \in Contents(toHost)' : h.type = "data" => ~Unheard(h.id)'
    <3>1. \A h \in Contents(toHost) : h.id \in Streams
      BY ContentsOfWire DEF Shape, Wire
    <3> QED  BY <1>1, <1>5, <3>1 DEF OpenFirst
  <2>3. \A u \in Streams : Unheard(u)' =>
            /\ u \notin peers' /\ ~Mentions(fromHost, u)'
            /\ emitted'[u] = 0 /\ rx'[u] = << >> /\ got'[u] = << >>
            /\ opened'[u] # "ok" /\ caller'[u] \notin {"proxying", "draining"}
    BY <1>1, <1>5 DEF OpenFirst
  <2> QED  BY <1>1, <2>1, <2>2, <2>3 DEF OpenFirst
<1>7. ClosedIsNoPeer'
  BY <1>1, <1>2, <1>3 DEF ClosedIsNoPeer
<1>8. NoOrphan'
  BY <1>1, <1>5 DEF NoOrphan
<1>9. FitsLimit'
  BY <1>1 DEF FitsLimit, Admitted
<1> QED  BY <1>4, <1>6, <1>7, <1>8, <1>9

-----------------------------------------------------------------------------
(* The invariant and what follows from it *)

LEMMA NextIInv == IInv /\ [Next]_vars => IInv'
<1> SUFFICES ASSUME IInv, [Next]_vars PROVE IInv'
  OBVIOUS
<1>1. CASE UNCHANGED vars
  <2>1. UNCHANGED <<conn, nextStream, caller, table, done, opened, rx, got, asked, toHost,
                    fromHost, closing, closeLost, peers, emitted>>
    BY <1>1 DEF vars, serverVars, hostVars
  <2> QED
    <3>1. Shape' /\ Numbered'
      BY <2>1 DEF IInv, Shape, Numbered
    <3>2. ClosedIsNoPeer' /\ NoOrphan'
      BY <2>1 DEF IInv, ClosedIsNoPeer, NoOrphan, Ending, Asking, Contents
    <3>3. OpenFirst'
      BY <2>1 DEF IInv, OpenFirst, Unheard, Asking, Mentions, Contents
    <3>4. FitsLimit'
      BY <2>1 DEF IInv, FitsLimit, Admitted
    <3> QED  BY <3>1, <3>2, <3>3, <3>4 DEF IInv
<1>2. ASSUME NEW s \in Streams, Reserve(s) \/ OpenStep(s) \/ ProxyStep(s) PROVE IInv'
  BY <1>2, ReserveKeeps, OpenKeeps, SendKeeps, ProxyKeeps DEF OpenStep, ProxyStep
<1>3. ASSUME NEW s \in Streams, \/ Deliver(s) \/ ClientGone(s) \/ SendClose(s)
                                \/ Forward(s) \/ ForwardFails(s) \/ HostEmits(s)
      PROVE  IInv'
  BY <1>3, ProxyKeeps, SendKeeps, HostEmitsKeeps
<1>4. CASE RouteFrame \/ CloseBegins \/ CloseSweeps \/ HandleMuxFrame \/ HostTeardown
  BY <1>4, RouteKeeps, EndKeeps, HandleKeeps
<1> QED  BY <1>1, <1>2, <1>3, <1>4 DEF Next

LEMMA Invariance == Spec => []IInv
<1>1. Init => IInv
  BY InitIInv
<1> QED  BY <1>1, NextIInv, PTL DEF Spec

\* Every logical peer of the Agent Host belongs to a stream the server still
\* has, or one it is about to end: ahpStream.close and remoteClose leave no
\* peer behind on a connection that is up, however many streams there are.
THEOREM NoPeerIsOrphaned == Spec => []NoOrphanPeer
<1>1. IInv => NoOrphanPeer
  <2> SUFFICES ASSUME IInv, conn = "up", NEW s \in peers PROVE s \in table \/ EndsSoon(s)
    BY DEF NoOrphanPeer
  <2>1. s \in table \/ Ending(s)
    BY DEF IInv, Shape, NoOrphan
  <2> QED  BY <2>1 DEF Ending, EndsSoon, Contents
<1> QED  BY <1>1, Invariance, PTL

\* addMuxPeer never sees a stream number twice, and it turns down a stream that
\* openStream admitted only while the close frame of another peer is under way.
THEOREM LimitsAgree == Spec => []RefusedOnlyForEnding
<1>1. IInv => RefusedOnlyForEnding
  <2> SUFFICES ASSUME IInv, conn = "up", hostUp, toHost # << >>, Head(toHost).type = "open"
               PROVE  /\ Head(toHost).id \notin peers
                      /\ PeerLimitReached => \E s \in peers : EndsSoon(s)
    BY DEF RefusedOnlyForEnding
  <2> DEFINE t == Head(toHost).id
  <2>1. /\ Head(toHost) = toHost[1] /\ 1 \in 1..Len(toHost) /\ t \in Streams
        /\ toHost[1].type = "open" /\ Head(toHost) \in Contents(toHost)
    <3>1. toHost \in Seq(Wire)
      BY DEF IInv, Shape
    <3>2. /\ Head(toHost) \in Wire /\ Head(toHost) = toHost[1] /\ Len(toHost) \in Nat \ {0}
          /\ Contents(toHost) = Contents(Tail(toHost)) \cup {Head(toHost)}
      BY <3>1, QueueTail
    <3> QED  BY <3>2 DEF Wire
  <2>2. t \notin peers
    BY <2>1 DEF IInv, OpenFirst, Unheard, Asking
  <2>3. ASSUME PeerLimitReached, \A s \in peers : ~EndsSoon(s) PROVE FALSE
    <3>1. peers \subseteq table
      BY <2>3 DEF IInv, Shape, NoOrphan, Ending, EndsSoon, Contents
    <3>2. peers \cup {t} \subseteq Admitted(1) \cup {toHost[1].id}
      BY <2>1, <3>1 DEF Admitted
    <3>3. Cardinality(Admitted(1) \cup {toHost[1].id}) <= ServerLimit
      BY <2>1 DEF IInv, FitsLimit
    <3>4. Admitted(1) \cup {toHost[1].id} \in SUBSET Streams
      BY <2>1, AdmittedStreams DEF IInv
    <3>5. Cardinality(peers \cup {t}) <= Cardinality(Admitted(1) \cup {toHost[1].id})
      BY <3>2, <3>4, StreamSets
    <3>6. /\ Cardinality(Admitted(1) \cup {toHost[1].id}) \in Nat
          /\ Cardinality(peers) \in Nat /\ IsFiniteSet(peers)
      BY <3>4, StreamSets DEF IInv, Shape
    <3>7. Cardinality(peers \cup {t}) = Cardinality(peers) + 1
      BY <2>2, <3>6, FS_AddElement
    <3> QED  BY <2>3, <3>3, <3>5, <3>6, <3>7, MuxAssumption DEF PeerLimitReached
  <2> QED  BY <2>2, <2>3
<1> QED  BY <1>1, Invariance, PTL

-----------------------------------------------------------------------------
(* Delivery *)

\* A stream whose messages are not touched: the queue towards the server stays,
\* loses a frame at its head, or gets one at its end, none of them a message of s.
LEMMA UntouchedStream ==
    ASSUME IInv, NEW s \in Streams, Delivered(s), OnTheWay(s),
           rx'[s] = rx[s], got'[s] = got[s], emitted'[s] = emitted[s],
           \/ UNCHANGED fromHost
           \/ /\ fromHost # << >> /\ fromHost' = Tail(fromHost)
              /\ ~(Head(fromHost).type = "data" /\ Head(fromHost).id = s)
           \/ \E g \in Wire : /\ fromHost' = Append(fromHost, g)
                              /\ ~(g.type = "data" /\ g.id = s)
    PROVE  Delivered(s)' /\ OnTheWay(s)'
<1> USE DEF IInv
<1>1. Delivered(s)' /\ Reached(s)' = Reached(s)
  BY DEF Delivered, Reached
<1>2. CASE UNCHANGED fromHost
  BY <1>1, <1>2 DEF OnTheWay, Contents
<1>3. CASE /\ fromHost # << >> /\ fromHost' = Tail(fromHost)
           /\ ~(Head(fromHost).type = "data" /\ Head(fromHost).id = s)
  <2> DEFINE h == Head(fromHost)
  <2>1. /\ Len(fromHost) \in Nat \ {0} /\ Len(fromHost') = Len(fromHost) - 1
        /\ \A i \in 1..Len(fromHost') : fromHost'[i] = fromHost[i + 1]
    BY <1>3, QueueTail DEF Shape
  <2>2. Contents(fromHost) = Contents(fromHost)' \cup {h}
    <3>1. Contents(fromHost)' = Contents(Tail(fromHost))
      BY <1>3 DEF Contents
    <3> QED  BY <1>3, <3>1, QueueTail DEF Shape
  <2>3. ASSUME NEW j \in 1..Len(fromHost'), NEW i \in 1..(j - 1),
               fromHost'[i].type = "data", fromHost'[j].type = "data",
               fromHost'[i].id = s, fromHost'[j].id = s
        PROVE  fromHost'[i].n < fromHost'[j].n
    <3>1. /\ i \in 1..Len(fromHost') /\ j + 1 \in 1..Len(fromHost)
          /\ i + 1 \in 1..((j + 1) - 1)
      BY <2>1
    <3>2. fromHost'[i] = fromHost[i + 1] /\ fromHost'[j] = fromHost[j + 1]
      BY <2>1, <3>1
    <3> QED  BY <2>3, <3>1, <3>2 DEF OnTheWay
  <2>4. \A n \in (Reached(s)' + 1)..emitted'[s] : Frame("data", s, n) \in Contents(fromHost)'
    <3>1. \A n \in Nat : Frame("data", s, n) # h
      BY <1>3 DEF Frame
    <3>2. \A n \in (Reached(s) + 1)..emitted[s] : n \in Nat
      BY LenProperties DEF Reached, Shape
    <3> QED  BY <1>1, <2>2, <3>1, <3>2 DEF OnTheWay
  <2> QED  BY <1>1, <2>2, <2>3, <2>4 DEF OnTheWay
<1>4. ASSUME NEW g \in Wire, fromHost' = Append(fromHost, g), ~(g.type = "data" /\ g.id = s)
      PROVE  OnTheWay(s)'
  <2>1. /\ Len(fromHost) \in Nat /\ Len(fromHost') = Len(fromHost) + 1
        /\ \A i \in 1..Len(fromHost) : fromHost'[i] = fromHost[i]
        /\ fromHost'[Len(fromHost) + 1] = g
    BY <1>4, QueueAppend, LenProperties DEF Shape
  <2>2. Contents(fromHost)' = Contents(fromHost) \cup {g}
    <3>1. Contents(fromHost)' = Contents(Append(fromHost, g))
      BY <1>4 DEF Contents
    <3> QED  BY <3>1, QueueAppend DEF Shape
  <2>3. ASSUME NEW j \in 1..Len(fromHost'), NEW i \in 1..(j - 1),
               fromHost'[i].type = "data", fromHost'[j].type = "data",
               fromHost'[i].id = s, fromHost'[j].id = s
        PROVE  fromHost'[i].n < fromHost'[j].n
    <3>1. j # Len(fromHost) + 1
      BY <1>4, <2>1, <2>3
    <3>2. j \in 1..Len(fromHost) /\ i \in 1..Len(fromHost)
      BY <2>1, <3>1
    <3> QED  BY <2>1, <2>3, <3>2 DEF OnTheWay
  <2> QED  BY <1>1, <1>4, <2>2, <2>3 DEF OnTheWay
<1> QED  BY <1>1, <1>2, <1>3, <1>4

\* The peer of s emits its next message and the queue has room for it.
LEMMA EmittedStream ==
    ASSUME IInv, NEW s \in Streams, Delivered(s), OnTheWay(s),
           rx'[s] = rx[s], got'[s] = got[s], emitted'[s] = emitted[s] + 1,
           fromHost' = Append(fromHost, Frame("data", s, emitted[s] + 1))
    PROVE  Delivered(s)' /\ OnTheWay(s)'
<1> USE DEF IInv
<1> DEFINE g == Frame("data", s, emitted[s] + 1)
<1>0. emitted[s] \in Nat /\ Reached(s) \in Nat /\ g \in Wire
  BY LenProperties DEF Reached, Shape, Frame, Wire
<1>1. Delivered(s)' /\ Reached(s)' = Reached(s)
  BY DEF Delivered, Reached
<1>2. /\ Len(fromHost) \in Nat /\ Len(fromHost') = Len(fromHost) + 1
      /\ \A i \in 1..Len(fromHost) : fromHost'[i] = fromHost[i]
      /\ fromHost'[Len(fromHost) + 1] = g
  BY <1>0, QueueAppend, LenProperties DEF Shape
<1>3. Contents(fromHost)' = Contents(fromHost) \cup {g}
  <2>1. Contents(fromHost)' = Contents(Append(fromHost, g))
    BY DEF Contents
  <2> QED  BY <1>0, <2>1, QueueAppend DEF Shape
<1>4. \A f \in Contents(fromHost) : f.n \in Nat
  BY ContentsOfWire DEF Shape, Wire
<1>5. ASSUME NEW f \in Contents(fromHost)', f.type = "data", f.id = s
      PROVE  Reached(s)' < f.n /\ f.n <= emitted'[s]
  <2>1. CASE f \in Contents(fromHost)
    BY <1>0, <1>1, <1>4, <1>5, <2>1 DEF OnTheWay
  <2>2. CASE f = g
    BY <1>0, <1>1, <2>2 DEF OnTheWay, Frame
  <2> QED  BY <1>3, <2>1, <2>2
<1>6. ASSUME NEW j \in 1..Len(fromHost'), NEW i \in 1..(j - 1),
             fromHost'[i].type = "data", fromHost'[j].type = "data",
             fromHost'[i].id = s, fromHost'[j].id = s
      PROVE  fromHost'[i].n < fromHost'[j].n
  <2>1. i \in 1..Len(fromHost) /\ fromHost'[i] = fromHost[i]
    BY <1>2
  <2>2. CASE j \in 1..Len(fromHost)
    BY <1>2, <1>6, <2>1, <2>2 DEF OnTheWay
  <2>3. CASE j = Len(fromHost) + 1
    <3>1. fromHost[i] \in Contents(fromHost)
      BY <2>1 DEF Contents
    <3>2. fromHost[i].n <= emitted[s] /\ fromHost[i].n \in Nat
      BY <1>4, <1>6, <2>1, <3>1 DEF OnTheWay
    <3> QED  BY <1>0, <1>2, <2>1, <2>3, <3>2 DEF Frame
  <2> QED  BY <1>2, <2>2, <2>3
<1>7. \A n \in (Reached(s)' + 1)..emitted'[s] : Frame("data", s, n) \in Contents(fromHost)'
  <2>1. \A n \in (Reached(s) + 1)..(emitted[s] + 1) :
            n \in (Reached(s) + 1)..emitted[s] \/ n = emitted[s] + 1
    BY <1>0
  <2> QED  BY <1>1, <1>3, <2>1 DEF OnTheWay
<1> QED  BY <1>0, <1>1, <1>5, <1>6, <1>7 DEF OnTheWay

\* The next message goes to the end of a stream's own queue q, behind the
\* messages g that its client has received.
LEMMA NextMessage ==
    ASSUME NEW g \in Seq(Nat), NEW q \in Seq(Nat), \A i \in 1..Len(q) : q[i] = Len(g) + i
    PROVE  LET q2 == Append(q, Len(g) + Len(q) + 1)
           IN  /\ Len(g) + Len(q2) = Len(g) + Len(q) + 1
               /\ \A i \in 1..Len(q2) : q2[i] = Len(g) + i
<1> DEFINE n == Len(g) + Len(q) + 1
           q2 == Append(q, n)
<1>1. Len(g) \in Nat /\ Len(q) \in Nat /\ n \in Nat
  BY LenProperties
<1>2. /\ Len(q2) = Len(q) + 1 /\ q2[Len(q) + 1] = n
      /\ \A i \in 1..Len(q) : q2[i] = q[i]
  BY <1>1, AppendProperties
<1> HIDE DEF q2
<1>3. Len(g) + Len(q2) = n
  BY <1>1, <1>2
<1>4. ASSUME NEW i \in 1..Len(q2) PROVE q2[i] = Len(g) + i
  <2>1. CASE i = Len(q) + 1
    BY <1>1, <1>2, <2>1
  <2>2. CASE i \in 1..Len(q)
    BY <1>1, <1>2, <2>2
  <2> QED  BY <1>1, <1>2, <2>1, <2>2
<1> QED  BY <1>3, <1>4 DEF q2

\* The message at the head of q is handed to the client.
LEMMA HandedMessage ==
    ASSUME NEW g \in Seq(Nat), NEW q \in Seq(Nat), q # << >>,
           \A i \in 1..Len(g) : g[i] = i, \A i \in 1..Len(q) : q[i] = Len(g) + i
    PROVE  LET g2 == Append(g, Head(q))
               q2 == Tail(q)
           IN  /\ Len(g2) + Len(q2) = Len(g) + Len(q)
               /\ \A i \in 1..Len(g2) : g2[i] = i
               /\ \A i \in 1..Len(q2) : q2[i] = Len(g2) + i
<1> DEFINE g2 == Append(g, Head(q))
           q2 == Tail(q)
<1>1. Len(g) \in Nat /\ Len(q) \in Nat \ {0}
  BY LenProperties, EmptySeq
<1>2. /\ Len(q2) = Len(q) - 1 /\ Head(q) = q[1] /\ Head(q) \in Nat
      /\ \A i \in 1..Len(q2) : q2[i] = q[i + 1]
  BY HeadTailProperties
<1>3. /\ Len(g2) = Len(g) + 1 /\ g2[Len(g) + 1] = Head(q)
      /\ \A i \in 1..Len(g) : g2[i] = g[i]
  BY <1>2, AppendProperties
<1> HIDE DEF g2, q2
<1>4. Head(q) = Len(g) + 1
  BY <1>1, <1>2
<1>5. Len(g2) + Len(q2) = Len(g) + Len(q)
  BY <1>1, <1>2, <1>3
<1>6. ASSUME NEW i \in 1..Len(g2) PROVE g2[i] = i
  <2>1. i \in 1..Len(g) \/ i = Len(g) + 1
    BY <1>1, <1>3
  <2> QED  BY <1>3, <1>4, <2>1
<1>7. ASSUME NEW i \in 1..Len(q2) PROVE q2[i] = Len(g2) + i
  <2>1. i + 1 \in 1..Len(q) /\ q2[i] = q[i + 1]
    BY <1>1, <1>2
  <2>2. q[i + 1] = Len(g) + (i + 1)
    BY <2>1
  <2> QED  BY <1>1, <1>3, <2>1, <2>2
<1> QED  BY <1>5, <1>6, <1>7 DEF g2, q2

\* routeFrame: the message at the head of the queue is the next of its stream.
LEMMA RoutedStream ==
    ASSUME IInv, NEW s \in Streams, Delivered(s), OnTheWay(s), fromHost # << >>,
           Head(fromHost).type = "data", Head(fromHost).id = s,
           fromHost' = Tail(fromHost), rx'[s] = Append(rx[s], Head(fromHost).n),
           got'[s] = got[s], emitted'[s] = emitted[s]
    PROVE  Delivered(s)' /\ OnTheWay(s)'
<1>1. PICK h \in Wire : /\ h = Head(fromHost) /\ h = fromHost[1]
                        /\ Contents(fromHost) = Contents(Tail(fromHost)) \cup {h}
  BY QueueTail DEF IInv, Shape
<1>2. /\ Len(fromHost) \in Nat \ {0} /\ Len(fromHost') = Len(fromHost) - 1
      /\ \A i \in 1..Len(fromHost') : fromHost'[i] = fromHost[i + 1]
      /\ h.type = "data" /\ h.id = s /\ h.n \in Nat
  BY <1>1, QueueTail DEF IInv, Shape, Wire
<1>3. Contents(fromHost) = Contents(fromHost)' \cup {h}
  <2>1. Contents(fromHost)' = Contents(Tail(fromHost))
    BY DEF Contents
  <2> QED  BY <1>1, <2>1
<1>4. PICK r \in Nat, e \in Nat : r = Reached(s) /\ e = emitted[s]
  BY LenProperties DEF IInv, Shape, Reached
<1>5. \A j \in 2..Len(fromHost) : fromHost[j].type = "data" /\ fromHost[j].id = s
                                    => h.n < fromHost[j].n
  <2> SUFFICES ASSUME NEW j \in 2..Len(fromHost), fromHost[j].type = "data",
                      fromHost[j].id = s
               PROVE  h.n < fromHost[j].n
    OBVIOUS
  <2>1. j \in 1..Len(fromHost) /\ 1 \in 1..(j - 1)
    BY <1>2
  <2> QED  BY <1>1, <1>2, <2>1 DEF OnTheWay
<1>6. h.n = r + 1
  <2>1. r < h.n /\ h.n <= e
    BY <1>2, <1>3, <1>4 DEF OnTheWay
  <2>2. r + 1 \in (r + 1)..e
    BY <1>2, <2>1
  <2>3. PICK k \in 1..Len(fromHost) : fromHost[k] = Frame("data", s, r + 1)
    BY <1>4, <2>2 DEF OnTheWay, Contents
  <2>4. fromHost[k].type = "data" /\ fromHost[k].id = s /\ fromHost[k].n = r + 1
    BY <2>3 DEF Frame
  <2>5. CASE k = 1
    BY <1>1, <2>4, <2>5
  <2>6. CASE k \in 2..Len(fromHost)
    <3>1. h.n < r + 1
      BY <1>5, <2>4, <2>6
    <3> QED  BY <1>2, <2>1, <3>1
  <2> QED  BY <1>2, <2>5, <2>6
<1>7. Delivered(s)' /\ Reached(s)' = r + 1
  <2>1. PICK g \in Seq(Nat), q \in Seq(Nat) : g = got[s] /\ q = rx[s]
    BY DEF IInv, Shape
  <2>2. \A i \in 1..Len(q) : q[i] = Len(g) + i
    BY <2>1 DEF Delivered
  <2>3. r = Len(g) + Len(q) /\ got'[s] = g /\ rx'[s] = Append(q, Len(g) + Len(q) + 1)
    BY <1>1, <1>4, <1>6, <2>1 DEF Reached
  <2>4. PICK q2 : q2 = rx'[s] /\ q2 = Append(q, Len(g) + Len(q) + 1)
    BY <2>3
  <2>5. Len(g) + Len(q2) = Len(g) + Len(q) + 1 /\ \A i \in 1..Len(q2) : q2[i] = Len(g) + i
    <3> DEFINE a == Append(q, Len(g) + Len(q) + 1)
    <3>1. /\ Len(g) + Len(a) = Len(g) + Len(q) + 1
          /\ \A i \in 1..Len(a) : a[i] = Len(g) + i
      BY <2>2, NextMessage, Zenon
    <3> QED  BY <2>4, <3>1
  <2>6. Delivered(s)'
    BY <2>1, <2>3, <2>4, <2>5 DEF Delivered
  <2>7. Reached(s)' = Len(g) + Len(q2)
    BY <2>3, <2>4 DEF Reached
  <2> QED  BY <2>3, <2>5, <2>6, <2>7
<1>8. Reached(s)' = h.n /\ Reached(s)' <= emitted'[s]
  <2>1. h.n <= e
    BY <1>2, <1>3, <1>4 DEF OnTheWay
  <2> QED  BY <1>4, <1>6, <1>7, <2>1
<1>9. ASSUME NEW f \in Contents(fromHost)', f.type = "data", f.id = s
      PROVE  Reached(s)' < f.n /\ f.n <= emitted'[s]
  <2>1. PICK i \in 1..Len(fromHost') : f = fromHost'[i]
    BY DEF Contents
  <2>2. i + 1 \in 2..Len(fromHost) /\ f = fromHost[i + 1]
    BY <1>2, <2>1
  <2>3. h.n < f.n
    BY <1>5, <1>9, <2>2
  <2> QED  BY <1>3, <1>8, <1>9, <2>3 DEF OnTheWay
<1>10. ASSUME NEW j \in 1..Len(fromHost'), NEW i \in 1..(j - 1),
              fromHost'[i].type = "data", fromHost'[j].type = "data",
              fromHost'[i].id = s, fromHost'[j].id = s
       PROVE  fromHost'[i].n < fromHost'[j].n
  <2>1. /\ i \in 1..Len(fromHost') /\ j + 1 \in 1..Len(fromHost)
        /\ i + 1 \in 1..((j + 1) - 1)
    BY <1>2
  <2>2. fromHost'[i] = fromHost[i + 1] /\ fromHost'[j] = fromHost[j + 1]
    BY <1>2, <2>1
  <2> QED  BY <1>10, <2>1, <2>2 DEF OnTheWay
<1>11. \A n \in (Reached(s)' + 1)..emitted'[s] : Frame("data", s, n) \in Contents(fromHost)'
  <2>1. ASSUME NEW n \in (r + 2)..e PROVE Frame("data", s, n) \in Contents(fromHost)'
    <3>1. n \in (r + 1)..e /\ n # h.n
      BY <1>6
    <3>2. Frame("data", s, n) \in Contents(fromHost) /\ Frame("data", s, n) # h
      BY <1>4, <3>1 DEF OnTheWay, Frame
    <3> QED  BY <1>3, <3>2
  <2>2. (r + 1) + 1 = r + 2
    OBVIOUS
  <2> QED  BY <1>4, <1>7, <2>1, <2>2
<1> QED  BY <1>7, <1>8, <1>9, <1>10, <1>11 DEF OnTheWay

\* proxyAHP hands a queued message to the client.
LEMMA HandedStream ==
    ASSUME IInv, NEW s \in Streams, Delivered(s), s \in table => OnTheWay(s), rx[s] # << >>,
           got'[s] = Append(got[s], Head(rx[s])), rx'[s] = Tail(rx[s]),
           UNCHANGED <<table, emitted, fromHost>>
    PROVE  Delivered(s)' /\ (s \in table' => OnTheWay(s)')
<1>1. PICK g \in Seq(Nat), q \in Seq(Nat) : g = got[s] /\ q = rx[s]
  BY DEF IInv, Shape
<1>2. /\ \A i \in 1..Len(g) : g[i] = i
      /\ \A i \in 1..Len(q) : q[i] = Len(g) + i
  BY <1>1 DEF Delivered
<1>3. PICK g2 \in Seq(Nat), q2 \in Seq(Nat) :
          /\ g2 = got'[s] /\ q2 = rx'[s] /\ g2 = Append(g, Head(q)) /\ q2 = Tail(q)
  BY <1>1, HeadTailProperties, AppendProperties
<1>4. /\ Len(g2) + Len(q2) = Len(g) + Len(q)
      /\ \A i \in 1..Len(g2) : g2[i] = i
      /\ \A i \in 1..Len(q2) : q2[i] = Len(g2) + i
  <2>1. q # << >>
    BY <1>1
  <2>2. /\ Len(Append(g, Head(q))) + Len(Tail(q)) = Len(g) + Len(q)
        /\ \A i \in 1..Len(Append(g, Head(q))) : Append(g, Head(q))[i] = i
        /\ \A i \in 1..Len(Tail(q)) : Tail(q)[i] = Len(Append(g, Head(q))) + i
    BY <1>2, <2>1, HandedMessage, Zenon
  <2> QED  BY <1>3, <2>2
<1>5. Delivered(s)'
  BY <1>3, <1>4 DEF Delivered
<1>6. Reached(s)' = Reached(s)
  BY <1>1, <1>3, <1>4 DEF Reached
<1> QED  BY <1>5, <1>6 DEF OnTheWay, Contents

\* A step that keeps the order: no other message is dropped, because the host's
\* own queue has room.
LEMMA InOrderKept ==
    IInv /\ InOrder /\ [Next]_vars /\ Len(fromHost) < OutQueue => InOrder'
<1> SUFFICES ASSUME IInv, InOrder, [Next]_vars, Len(fromHost) < OutQueue,
                    NEW u \in Streams
             PROVE  Delivered(u)' /\ (u \in table' => OnTheWay(u)')
  BY DEF InOrder
<1>0. Delivered(u) /\ (u \in table => OnTheWay(u))
  BY DEF InOrder
<1>1. ASSUME UNCHANGED <<got, rx, emitted, fromHost>>, table' \subseteq table
      PROVE  Delivered(u)' /\ (u \in table' => OnTheWay(u)')
  BY <1>0, <1>1 DEF Delivered, OnTheWay, Reached, Contents
<1>2. CASE UNCHANGED vars
  BY <1>1, <1>2 DEF vars, serverVars, hostVars
<1>3. ASSUME NEW s \in Streams, Reserve(s)
      PROVE  Delivered(u)' /\ (u \in table' => OnTheWay(u)')
  <2>1. UNCHANGED <<got, rx, emitted, fromHost>> /\ table' = table \cup {s}
    BY <1>3 DEF Reserve, hostVars
  <2>2. Delivered(u)' /\ (u \in table => OnTheWay(u)')
    BY <1>0, <2>1 DEF Delivered, OnTheWay, Reached, Contents
  <2>3. CASE u = s
    <3>1. Unheard(s)
      <4>1. s = nextStream + 1 /\ nextStream \in Nat
        BY <1>3, MuxAssumption DEF Reserve, IInv, Shape
      <4> QED  BY <4>1 DEF IInv, Numbered, Unheard, Streams
    <3>2. ~Mentions(fromHost, s) /\ emitted[s] = 0 /\ rx[s] = << >> /\ got[s] = << >>
      BY <3>1 DEF IInv, OpenFirst
    <3>3. Reached(s) = 0
      BY <3>2 DEF Reached
    <3>4. \A i \in 1..Len(fromHost) : fromHost[i].id # s
      BY <3>2 DEF Mentions, Contents
    <3>5. Len(fromHost) \in Nat
      BY LenProperties DEF IInv, Shape
    <3>6. OnTheWay(s)
      <4>1. \A f \in Contents(fromHost) : f.id # s
        BY <3>2 DEF Mentions
      <4>2. \A j \in 1..Len(fromHost) : fromHost[j].id # s
        BY <3>4
      <4>3. (Reached(s) + 1)..emitted[s] = {}
        BY <3>2, <3>3
      <4>4. Reached(s) <= emitted[s]
        BY <3>2, <3>3
      <4> QED  BY <4>1, <4>2, <4>3, <4>4 DEF OnTheWay
    <3> QED  BY <2>1, <2>2, <2>3, <3>6 DEF OnTheWay, Reached, Contents
  <2> QED  BY <2>1, <2>2, <2>3
<1>4. ASSUME NEW s \in Streams, Deliver(s)
      PROVE  Delivered(u)' /\ (u \in table' => OnTheWay(u)')
  <2>1. /\ UNCHANGED <<table, emitted, fromHost>> /\ rx[s] # << >>
        /\ got'[s] = Append(got[s], Head(rx[s])) /\ rx'[s] = Tail(rx[s])
        /\ u # s => got'[u] = got[u] /\ rx'[u] = rx[u]
    BY <1>4 DEF Deliver, hostVars, IInv, Shape
  <2>2. CASE u = s
    BY <1>0, <2>1, <2>2, HandedStream
  <2>3. CASE u # s
    BY <1>0, <2>1, <2>3 DEF Delivered, OnTheWay, Reached, Contents
  <2> QED  BY <2>2, <2>3
<1>5. ASSUME NEW s \in Streams,
             \/ OpenStep(s) \/ ProxyStep(s) \/ ClientGone(s) \/ SendClose(s) \/ Forward(s)
             \/ ForwardFails(s) \/ CloseBegins \/ CloseSweeps \/ HostTeardown
      PROVE  Delivered(u)' /\ (u \in table' => OnTheWay(u)')
  <2>1. UNCHANGED <<got, rx, emitted, fromHost>>
    BY <1>5 DEF OpenStep, SendOpen, SendOpenFails, Opened, OpenRefused, OpenTimeout,
                OpenHostDown, ProxyStep, ProxyEnds, ForwarderEnds, ClientGone, SendClose,
                Forward, ForwardFails, CloseBegins, CloseSweeps, HostTeardown, hostVars,
                serverVars
  <2>2. table' \subseteq table
    BY <1>5 DEF OpenStep, SendOpen, SendOpenFails, Opened, OpenRefused, OpenTimeout,
                OpenHostDown, ProxyStep, ProxyEnds, ForwarderEnds, ClientGone, SendClose,
                Forward, ForwardFails, CloseBegins, CloseSweeps, HostTeardown, serverVars,
                CloseStream, RemoteClose
  <2> QED  BY <1>1, <2>1, <2>2
<1>6. ASSUME NEW s \in Streams, HostEmits(s) \/ (Emit(s) /\ UNCHANGED <<rx, got, table>>)
      PROVE  Delivered(u)' /\ (u \in table' => OnTheWay(u)')
  <2> DEFINE g == Frame("data", s, emitted[s] + 1)
  <2>1. /\ UNCHANGED <<rx, got, table>> /\ fromHost' = Append(fromHost, g)
        /\ emitted'[s] = emitted[s] + 1 /\ (u # s => emitted'[u] = emitted[u])
    BY <1>6 DEF HostEmits, Emit, Enqueue, serverVars, IInv, Shape
  <2>2. Delivered(u)'
    BY <1>0, <2>1 DEF Delivered
  <2>3. CASE u \in table /\ u = s
    BY <1>0, <2>1, <2>3, EmittedStream
  <2>4. CASE u \in table /\ u # s
    <3>1. g \in Wire /\ g.id # u
      BY <2>4 DEF Frame, Wire, IInv, Shape
    <3> QED  BY <1>0, <2>1, <2>4, <3>1, UntouchedStream
  <2> QED  BY <2>1, <2>2, <2>3, <2>4
<1>7. CASE HandleMuxFrame
  <2> DEFINE s == Head(toHost).id
  <2>1. UNCHANGED <<rx, got, table>> /\ s \in Streams
    BY <1>7, QueueTail DEF HandleMuxFrame, serverVars, IInv, Shape, Wire
  <2>2. \/ Emit(s)
        \/ UNCHANGED <<emitted, fromHost>>
        \/ UNCHANGED emitted /\ \E k \in {"close", "opened"} : Enqueue(Frame(k, s, 0))
    BY <1>7 DEF HandleMuxFrame, AddMuxPeer
  <2> HIDE DEF s
  <2>3. CASE UNCHANGED emitted /\ \E k \in {"close", "opened"} : Enqueue(Frame(k, s, 0))
    <3>1. \E g \in Wire : fromHost' = Append(fromHost, g) /\ g.type # "data"
      BY <2>1, <2>3 DEF Enqueue, Frame, Wire
    <3>2. Delivered(u)'
      BY <1>0, <2>1 DEF Delivered
    <3> QED  BY <1>0, <2>1, <2>3, <3>1, <3>2, UntouchedStream
  <2> QED  BY <1>1, <1>6, <2>1, <2>2, <2>3
<1>8. CASE RouteFrame
  <2>1. PICK h \in Wire : h = Head(fromHost)
    BY <1>8, QueueTail DEF RouteFrame, IInv, Shape
  <2>2. /\ fromHost # << >> /\ fromHost' = Tail(fromHost) /\ UNCHANGED <<got, emitted>>
        /\ h.id \in Streams
    BY <1>8, <2>1 DEF RouteFrame, hostVars, Wire
  <2>3. \/ UNCHANGED rx /\ table' \subseteq table /\ (h.type = "data" => h.id \notin table')
        \/ /\ h.type = "data" /\ UNCHANGED table /\ h.id \in table
           /\ rx' = [rx EXCEPT ![h.id] = Append(@, h.n)]
    BY <1>8, <2>1 DEF RouteFrame, RouteOpened, RouteData, RemoteClose, CloseStream, IInv,
                      Numbered
  <2>4. CASE UNCHANGED rx /\ table' \subseteq table /\ (h.type = "data" => h.id \notin table')
    <3>1. Delivered(u)'
      BY <1>0, <2>2, <2>4 DEF Delivered
    <3> QED  BY <1>0, <2>1, <2>2, <2>4, <3>1, UntouchedStream
  <2>5. CASE /\ h.type = "data" /\ UNCHANGED table /\ h.id \in table
             /\ rx' = [rx EXCEPT ![h.id] = Append(@, h.n)]
    <3>1. rx'[h.id] = Append(rx[h.id], h.n) /\ (u # h.id => rx'[u] = rx[u])
      BY <2>2, <2>5 DEF IInv, Shape
    <3>2. CASE u \in table /\ u = h.id
      BY <1>0, <2>1, <2>2, <2>5, <3>1, <3>2, RoutedStream
    <3>3. CASE u \in table /\ u # h.id
      BY <1>0, <2>1, <2>2, <2>5, <3>1, <3>3, UntouchedStream
    <3>4. CASE u \notin table
      BY <1>0, <2>2, <2>5, <3>1, <3>4 DEF Delivered
    <3> QED  BY <3>2, <3>3, <3>4
  <2> QED  BY <2>3, <2>4, <2>5
<1> QED  BY <1>2, <1>3, <1>4, <1>5, <1>6, <1>7, <1>8 DEF Next

\* The messages a client receives are those its peer emitted, from the first on,
\* in order and without a gap, whatever closes the stream in between (routeFrame,
\* ahpStream.close), as long as the Agent Host's own outgoing queue never fills
\* up: enqueue drops what does not fit and tells nobody (host.go).
THEOREM DeliveryInOrder ==
    Spec /\ [](Len(fromHost) < OutQueue) => []ReliableDelivery
<1>1. Init => IInv /\ InOrder
  BY InitIInv
<1>2. IInv /\ InOrder /\ Len(fromHost) < OutQueue /\ [Next]_vars => (IInv /\ InOrder)'
  BY NextIInv, InOrderKept
<1>3. InOrder => ReliableDelivery
  BY DEF InOrder, Delivered, ReliableDelivery
<1> QED  BY <1>1, <1>2, <1>3, PTL DEF Spec

=============================================================================
