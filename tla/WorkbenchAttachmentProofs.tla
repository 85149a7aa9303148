---------------------- MODULE WorkbenchAttachmentProofs ----------------------
(***************************************************************************)
(* For any workspaces, sessions, commands, connections and faults:         *)
(*                                                                         *)
(* - at most one connection is open, the one in use (OneClient, from       *)
(*   ConnInv: the connection in use is always the newest);                 *)
(* - the type invariant, and that a prompt is put on the open connection   *)
(*   to the workspace of its session (AttachmentTypes, PromptsGoHome, from *)
(*   WInv: tasks and the requests they wait for belong together);          *)
(* - no listing replaces a newer one, and nobody waits in vain             *)
(*   (NoOlderFiles, NoWaitInVain, from AInv: the loads of a workspace).    *)
(*                                                                         *)
(* The steps are those of the user, of a task that goes on, of a socket,   *)
(* and answers; each part of the invariant has a lemma for each of them.   *)
(***************************************************************************)
EXTENDS WorkbenchAttachment, SequenceTheorems, TLAPS

(* The connections are numbered up to generation, each with its phase.     *)
Numbered ==
    /\ generation \in Nat
    /\ DOMAIN conn = Conns
    /\ \A c \in Conns : "at" \in DOMAIN conn[c]

(* The connection in use is the newest.                                    *)
UsesNewest == current \in {0, generation}

ConnInv == Numbered /\ UsesNewest /\ AtMostOneClient

\* No connection changes its phase.
PhasesKept ==
    /\ UNCHANGED <<generation, current>>
    /\ DOMAIN conn' = DOMAIN conn
    /\ \A c \in Conns : "at" \in DOMAIN conn'[c] /\ conn'[c].at = conn[c].at

LEMMA InitConn == Init => ConnInv
BY DEF Init, ConnInv, Numbered, UsesNewest, AtMostOneClient, Conns

LEMMA KeptConn == ConnInv /\ PhasesKept => ConnInv'
BY DEF ConnInv, Numbered, UsesNewest, AtMostOneClient, Conns, PhasesKept

LEMMA SameConn == ConnInv /\ UNCHANGED wires => ConnInv'
BY DEF ConnInv, Numbered, UsesNewest, AtMostOneClient, Conns, wires

(* Putting requests on a connection, and taking one off, is no change of   *)
(* its phase (AHPClient.request and receive).                              *)
LEMMA RequestKept ==
    ASSUME ConnInv, NEW c, NEW i, NEW asks, Request(c, i, asks),
           UNCHANGED <<generation, current>>
    PROVE  PhasesKept
BY DEF ConnInv, Numbered, Conns, Request, PhasesKept

LEMMA AnsweredKept ==
    ASSUME ConnInv, NEW c, NEW more, Answered(c, more),
           UNCHANGED <<generation, current>>
    PROVE  PhasesKept
BY DEF ConnInv, Numbered, Conns, Answered, PhasesKept

LEMMA ConnectConn == ASSUME ConnInv, NEW i, Connect(i) PROVE ConnInv'
<1> USE DEF ConnInv, Numbered, UsesNewest, AtMostOneClient, Conns
<1>1. /\ generation' = generation + 1 /\ current' = 0
      /\ DOMAIN conn' = 1..generation'
      BY DEF Connect
<1>2. conn'[generation'].at = "connecting" /\ "at" \in DOMAIN conn'[generation']
  <2>1. generation' \in 1..generation'
        BY <1>1
  <2>2. conn'[generation'] = [ws |-> tasks[i].ws, at |-> "connecting",
                              chats |-> {}, pending |-> <<>>]
        BY <2>1 DEF Connect
  <2> QED
      BY <2>2
<1>3. ASSUME NEW c \in Conns
      PROVE  "at" \in DOMAIN conn'[c] /\ conn'[c].at # "open"
  <2>1. c \in 1..generation' /\ c # generation'
        BY <1>1, <1>3
  <2>2. CASE c = current
        BY <2>1, <2>2, <1>1 DEF Connect
  <2>3. CASE c # current
        BY <2>1, <2>3, <1>1 DEF Connect
  <2> QED
      BY <2>2, <2>3
<1> QED
    BY <1>1, <1>2, <1>3

LEMMA ConnectedConn == ASSUME ConnInv, NEW c, Connected(c) PROVE ConnInv'
<1> USE DEF ConnInv, Numbered, UsesNewest, AtMostOneClient, Conns
<1>1. c \in Conns /\ conn[c].at = "connecting" /\ generation' = generation
      BY DEF Connected
<1>2. CASE c = generation
  <2>1. conn' = [conn EXCEPT ![c].at = "open"] /\ current' = c
        BY <1>2 DEF Connected
  <2>2. current # generation
        BY <1>1, <1>2
  <2> QED
      BY <1>1, <1>2, <2>1, <2>2
<1>3. CASE c # generation
  <2>1. conn' = [conn EXCEPT ![c].at = "closing"] /\ current' = current
        BY <1>3 DEF Connected
  <2> QED
      BY <1>1, <1>3, <2>1
<1> QED
    BY <1>2, <1>3

LEMMA ConnectFailsConn == ASSUME ConnInv, NEW c, ConnectFails(c) PROVE ConnInv'
BY DEF ConnectFails, ConnInv, Numbered, UsesNewest, AtMostOneClient, Conns

LEMMA SocketClosedConn == ASSUME ConnInv, NEW c, SocketClosed(c) PROVE ConnInv'
<1>1. /\ c \in Conns /\ generation' = generation
      /\ conn' = [conn EXCEPT ![c].at = "closed", ![c].pending = <<>>, ![c].chats = {}]
      /\ current' = IF c = current THEN 0 ELSE current
      BY DEF SocketClosed
<1> QED
    BY <1>1 DEF ConnInv, Numbered, UsesNewest, AtMostOneClient, Conns

(* What the user does, and what a task does once it is attached.           *)
LEMMA UserConn == ConnInv /\ User => ConnInv'
<1> SUFFICES ASSUME ConnInv, User PROVE ConnInv'
    OBVIOUS
<1>1. CASE Refresh
      BY <1>1, RequestKept, KeptConn DEF Refresh
<1>2. CASE UNCHANGED wires
      BY <1>2, SameConn
<1>3. CASE ~Refresh
      BY <1>3, <1>2 DEF User, Open, Submit, Pick, NewSession, Type, Send
<1> QED
    BY <1>1, <1>3

LEMMA GoOnConn == ASSUME ConnInv, NEW i, GoOn(i) PROVE ConnInv'
<1>1. CASE Reuse(i)
      BY <1>1, SameConn DEF Reuse
<1>2. CASE Connect(i)
      BY <1>2, ConnectConn
<1>3. CASE Select(i)
      BY <1>3, RequestKept, KeptConn DEF Select
<1>4. CASE Show(i)
  <2>1. CASE UNCHANGED conn
        BY <1>4, <2>1, SameConn DEF Show, wires
  <2>2. CASE Request(tasks[i].on, i, <<"session">>)
        BY <1>4, <2>2, RequestKept, KeptConn DEF Show
  <2> QED
      BY <1>4, <2>1, <2>2 DEF Show
<1>5. CASE Compose(i)
  <2>1. CASE UNCHANGED conn
        BY <1>5, <2>1, SameConn DEF Compose, wires
  <2>2. CASE Request(tasks[i].on, i, <<"session">>)
        BY <1>5, <2>2, RequestKept, KeptConn DEF Compose
  <2> QED
      BY <1>5, <2>1, <2>2 DEF Compose
<1>6. CASE Create(i)
      BY <1>6, RequestKept, KeptConn DEF Create
<1> QED
    BY <1>1, <1>2, <1>3, <1>4, <1>5, <1>6 DEF GoOn

LEMMA AnswerConn == ASSUME ConnInv, NEW c, Answer(c) PROVE ConnInv'
<1>1. CASE AnswerSession(c)
  <2> PhasesKept
      BY <1>1 DEF AnswerSession, ConnInv, Numbered, Conns, PhasesKept
  <2> QED
      BY KeptConn
<1>2. CASE AnswerChat(c)
  <2>1. /\ UNCHANGED <<generation, current>>
        /\ Answered(c, <<>>) \/ Answered(c, <<"changeset">>)
        BY <1>2 DEF AnswerChat
  <2> QED
      BY <2>1, AnsweredKept, KeptConn
<1>3. CASE AnswerChangeset(c)
      BY <1>3, AnsweredKept, KeptConn DEF AnswerChangeset
<1>4. CASE AnswerFiles(c)
      BY <1>4, AnsweredKept, KeptConn DEF AnswerFiles
<1>5. CASE AnswerTerminals(c)
      BY <1>5, AnsweredKept, KeptConn DEF AnswerTerminals
<1>6. CASE AnswerCreate(c)
      BY <1>6, AnsweredKept, KeptConn DEF AnswerCreate
<1>7. CASE Refused(c)
  <2>1. UNCHANGED <<generation, current>>
        BY <1>7 DEF Refused
  <2>2. CASE Answered(c, <<>>)
        BY <2>1, <2>2, AnsweredKept, KeptConn
  <2>3. CASE ~Answered(c, <<>>)
    <3>1. PICK pending : conn' = [conn EXCEPT ![c].pending = pending]
          BY <1>7, <2>3 DEF Refused
    <3>2. PhasesKept
          BY <2>1, <3>1 DEF ConnInv, Numbered, Conns, PhasesKept
    <3> QED
        BY <3>2, KeptConn
  <2> QED
      BY <2>2, <2>3
<1> QED
    BY <1>1, <1>2, <1>3, <1>4, <1>5, <1>6, <1>7 DEF Answer

LEMMA NextConn == ConnInv /\ [Next]_vars => ConnInv'
<1> SUFFICES ASSUME ConnInv, [Next]_vars PROVE ConnInv'
    OBVIOUS
<1>1. CASE User
      BY <1>1, UserConn
<1>2. CASE \E i \in Slots : GoOn(i)
      BY <1>2, GoOnConn
<1>3. CASE \E c \in 1..MaxConns : Socket(c)
      BY <1>3, ConnectedConn, ConnectFailsConn, SocketClosedConn DEF Socket
<1>4. CASE \E c \in 1..MaxConns : Answer(c)
      BY <1>4, AnswerConn
<1>5. CASE \/ \E s \in Sessions : TurnEnds(s)
           \/ \E w \in Workspaces : TreeChanges(w)
           \/ UNCHANGED vars
      BY <1>5, SameConn DEF TurnEnds, TreeChanges, vars
<1> QED
    BY <1>1, <1>2, <1>3, <1>4, <1>5 DEF Next

LEMMA ConnInvariant == Spec => []ConnInv
<1>1. Init => ConnInv
      BY InitConn
<1>2. ConnInv /\ [Next]_vars => ConnInv'
      BY NextConn
<1> QED
    BY <1>1, <1>2, PTL DEF Spec

(* WorkspaceAttachmentService, for any number of commands, connections and *)
(* failures: the connection that is open is the one in use, and no other.  *)
THEOREM OneClient == Spec => []AtMostOneClient
<1>1. ConnInv => AtMostOneClient
      BY DEF ConnInv
<1> QED
    BY <1>1, ConnInvariant, PTL

----------------------------------------------------------------------------
(* The tasks and the requests they wait for. *)

Kinds == {"none", "open", "show", "pick", "send", "submit", "refresh"}

TaskSet == [kind : Kinds, ws : Workspaces \cup {None}, s : Sessions \cup {None},
            at : {"idle", "attach", "connecting", "attached", "waiting"},
            on : Nat, waits : SUBSET Strands, load : Nat, listing : Nat, text : Nat]

ConnSet == [ws : Workspaces, at : {"connecting", "open", "closing", "closed"},
            chats : SUBSET Sessions, pending : Seq(Requests)]

WiresShape == conn \in [Conns -> ConnSet] /\ tasks \in [Slots -> TaskSet]

LoadsShape ==
    /\ loads \in [Workspaces -> Nat] /\ files \in [Workspaces -> Nat]
    /\ tree \in [Workspaces -> Nat]
    /\ state \in [Workspaces -> {"idle", "loading", "ready", "error"}]

DraftsShape ==
    draft \in [Sessions -> Nat] /\ untitled \in [Workspaces -> Nat] /\ edits \in Nat

ScreenShape ==
    /\ selected \in Workspaces \cup {None} /\ active \in known \cup {None}
    /\ known \subseteq Sessions /\ working \subseteq known

Shape == WiresShape /\ LoadsShape /\ DraftsShape /\ ScreenShape

(* The strand of a task that a request is part of.                         *)
StrandOf(kind, ask) ==
    IF ask \in {"files", "terminals"} THEN ask
    ELSE IF kind = "open" THEN "changes" ELSE "chat"

(* What the commands ask for.                                              *)
Suits(kind, ask) ==
    /\ ask \in {"files", "terminals"} => kind \in {"open", "pick", "refresh"}
    /\ ask \in {"session", "chat"} => kind \in {"open", "show", "send", "submit"}
    /\ ask = "changeset" => kind = "open"
    /\ ask = "create" => kind = "submit"

(* A task under way has the session and the workspace it is about, and     *)
(* from the time it has a connection this leads to the workspace.  What    *)
(* the task does next is done at once, while the connection is in use.     *)
Going(t) ==
    /\ t.at # "idle" => t.kind # "none" /\ t.ws \in Workspaces
    /\ t.kind \in {"open", "show", "send", "submit"} => t.s \in Sessions /\ Home[t.s] = t.ws
    /\ t.kind \in {"open", "show", "send"} => t.s \in known
    /\ t.at # "waiting" => t.waits = {} /\ t.load = 0
    /\ t.at \in {"connecting", "attached", "waiting"} => t.on \in Conns /\ conn[t.on].ws = t.ws
    /\ t.at = "attached" => t.on = current
    /\ t.at = "connecting" => conn[t.on].at = "connecting"

TasksGo == \A i \in Slots : Going(tasks[i])

(* Tasks that go on together, after a connection has been lost, are about  *)
(* one workspace: none takes the connection away from another.             *)
OneWorkspace == \A i, j \in Ready : tasks[i].ws = tasks[j].ws

(* A request belongs to a strand of its task that is waited for.  The chat *)
(* of a session is asked for when its channels have been learnt.           *)
Asked(c, r) ==
    /\ r.task # 0 =>
           /\ tasks[r.task].at = "waiting" /\ tasks[r.task].on = c /\ tasks[r.task].s = r.s
           /\ StrandOf(tasks[r.task].kind, r.ask) \in tasks[r.task].waits
           /\ Suits(tasks[r.task].kind, r.ask)
           /\ tasks[r.task].kind = "submit" /\ r.ask # "create" => r.s \in known
    /\ r.ask = "create" => r.task # 0
    /\ r.ask \in {"session", "chat", "changeset", "create"} => r.s \in Sessions
    /\ conn[c].at = "open" /\ r.ask = "chat" => r.s \in conn[c].chats

RequestsAsked == \A c \in Conns : \A k \in DOMAIN conn[c].pending : Asked(c, conn[c].pending[k])

(* No two requests of a task belong to the same strand.                    *)
Apart(p) ==
    \A j, k \in DOMAIN p : j # k /\ p[j].task = p[k].task /\ p[j].task # 0
        => StrandOf(tasks[p[j].task].kind, p[j].ask) # StrandOf(tasks[p[j].task].kind, p[k].ask)

AskedOnce == \A c \in Conns : Apart(conn[c].pending)

(* Every strand that is waited for has its request.                        *)
Answerable(i) ==
    tasks[i].at = "waiting" =>
        /\ tasks[i].waits # {}
        /\ \A x \in tasks[i].waits : \E k \in DOMAIN conn[tasks[i].on].pending :
               /\ conn[tasks[i].on].pending[k].task = i
               /\ StrandOf(tasks[i].kind, conn[tasks[i].on].pending[k].ask) = x

WaitersAnswerable == \A i \in Slots : Answerable(i)

(* Nothing is asked for before the connection is there.                    *)
NothingAsked == \A c \in Conns : conn[c].at = "connecting" => conn[c].pending = <<>>

Linked == RequestsAsked /\ AskedOnce /\ WaitersAnswerable

TInv == TasksGo /\ OneWorkspace /\ NothingAsked /\ Linked

WInv == ConnInv /\ Shape /\ TInv

----------------------------------------------------------------------------

\* Requests that a task puts on a connection, and requests that take the
\* place of another.
Put(i, asks) == [k \in DOMAIN asks |-> [task |-> i, s |-> tasks[i].s, ask |-> asks[k]]]

Again(r, more) == [k \in DOMAIN more |-> [r EXCEPT !.ask = more[k]]]

LEMMA PutRequests ==
    ASSUME Shape, NEW i \in Slots, NEW asks \in Seq(Asks)
    PROVE  Put(i, asks) \in Seq(Requests) /\ DOMAIN Put(i, asks) = DOMAIN asks
<1>1. DOMAIN asks = 1..Len(asks) /\ Len(asks) \in Nat /\ \A k \in 1..Len(asks) : asks[k] \in Asks
  BY ElementOfSeq, LenProperties
<1>2. i \in 0..MaxTasks /\ tasks[i].s \in Sessions \cup {None}
  BY AttachmentAssumption DEF Shape, WiresShape, TaskSet, Slots
<1>3. \A k \in 1..Len(asks) : [task |-> i, s |-> tasks[i].s, ask |-> asks[k]] \in Requests
  BY <1>1, <1>2 DEF Requests
<1> QED  BY <1>1, <1>3, IsASeq DEF Put

LEMMA AgainRequests ==
    ASSUME NEW r \in Requests, NEW more \in Seq(Asks)
    PROVE  Again(r, more) \in Seq(Requests) /\ DOMAIN Again(r, more) = DOMAIN more
<1>1. DOMAIN more = 1..Len(more) /\ Len(more) \in Nat /\ \A k \in 1..Len(more) : more[k] \in Asks
  BY ElementOfSeq, LenProperties
<1>2. \A k \in 1..Len(more) : [r EXCEPT !.ask = more[k]] \in Requests
  BY <1>1 DEF Requests
<1> QED  BY <1>1, <1>2, IsASeq DEF Again

(* The values of the variables stay what they are: first of the wires and  *)
(* the tasks, action by action.                                            *)
LEMMA TailRequests ==
    ASSUME NEW p \in Seq(Requests), p # <<>>
    PROVE  Tail(p) \in Seq(Requests) /\ Head(p) \in Requests
  BY HeadTailProperties

\* The three forms that an answered request leaves its connection in.
LEMMA AnsweredForms ==
    ASSUME Shape, NEW c \in Conns, conn[c].pending # <<>>
    PROVE  /\ Answered(c, <<>>) => conn' = [conn EXCEPT ![c].pending = Tail(conn[c].pending)]
           /\ \A x \in Asks : Answered(c, <<x>>) =>
                 conn' = [conn EXCEPT ![c].pending =
                            Append(Tail(conn[c].pending), [Head(conn[c].pending) EXCEPT !.ask = x])]
<1> DEFINE p == conn[c].pending
<1>1. p \in Seq(Requests) /\ Tail(p) \in Seq(Requests) /\ Head(p) \in Requests
  BY TailRequests DEF Shape, WiresShape, ConnSet
<1>2. ASSUME NEW more PROVE Answered(c, more) =>
                 conn' = [conn EXCEPT ![c].pending = Tail(p) \o Again(Head(p), more)]
  BY DEF Answered, Again, Shape, WiresShape, ConnSet
<1>3. Again(Head(p), <<>>) = <<>>
  BY DEF Again
<1>4. ASSUME NEW x \in Asks
      PROVE  Again(Head(p), <<x>>) = <<[Head(p) EXCEPT !.ask = x]>>
  BY DEF Again
<1>5. Tail(p) \o <<>> = Tail(p)
  BY <1>1, ConcatEmptySeq
<1>6. ASSUME NEW x \in Asks
      PROVE  Tail(p) \o <<[Head(p) EXCEPT !.ask = x]>> = Append(Tail(p), [Head(p) EXCEPT !.ask = x])
  <2>1. [Head(p) EXCEPT !.ask = x] \in Requests
    BY <1>1, <1>6 DEF Requests
  <2> QED  BY <1>1, <2>1, AppendIsConcat
<1> HIDE DEF p
<1>7. Answered(c, <<>>) => conn' = [conn EXCEPT ![c].pending = Tail(p)]
  BY <1>2, <1>3, <1>5
<1>8. ASSUME NEW x \in Asks
      PROVE  Answered(c, <<x>>) =>
                 conn' = [conn EXCEPT ![c].pending = Append(Tail(p), [Head(p) EXCEPT !.ask = x])]
  BY <1>2, <1>4, <1>6
<1> QED  BY <1>7, <1>8 DEF p

LEMMA PendingShape ==
    ASSUME Shape, NEW c \in Conns, NEW q \in Seq(Requests),
           conn' = [conn EXCEPT ![c].pending = q], UNCHANGED generation
    PROVE  conn' \in [Conns -> ConnSet]'
  BY DEF Shape, WiresShape, ConnSet, Conns

LEMMA RequestShape ==
    ASSUME Shape, NEW c \in Conns, NEW i \in Slots, NEW asks \in Seq(Asks),
           Request(c, i, asks), UNCHANGED generation
    PROVE  /\ conn' \in [Conns -> ConnSet]'
           /\ conn' = [conn EXCEPT ![c].pending = @ \o Put(i, asks)]
<1>1. conn' = [conn EXCEPT ![c].pending = @ \o Put(i, asks)]
  BY DEF Request, Put
<1>2. Put(i, asks) \in Seq(Requests) /\ conn[c].pending \in Seq(Requests)
  BY PutRequests DEF Shape, WiresShape, ConnSet
<1>3. conn[c].pending \o Put(i, asks) \in Seq(Requests)
  BY <1>2, ConcatProperties
<1>4. conn' = [conn EXCEPT ![c].pending = conn[c].pending \o Put(i, asks)]
  BY <1>1
<1> HIDE DEF Put
<1> QED  BY <1>1, <1>3, <1>4, PendingShape

LEMMA AnsweredShape ==
    ASSUME Shape, NEW c \in Conns, conn[c].pending # <<>>, UNCHANGED generation,
           Answered(c, <<>>) \/ \E x \in Asks : Answered(c, <<x>>)
    PROVE  conn' \in [Conns -> ConnSet]'
<1> DEFINE p == conn[c].pending
<1>1. p \in Seq(Requests) /\ Tail(p) \in Seq(Requests) /\ Head(p) \in Requests
  BY TailRequests DEF Shape, WiresShape, ConnSet
<1>2. CASE Answered(c, <<>>)
  BY <1>1, <1>2, AnsweredForms, PendingShape
<1>3. ASSUME NEW x \in Asks, Answered(c, <<x>>) PROVE conn' \in [Conns -> ConnSet]'
  <2>1. [Head(p) EXCEPT !.ask = x] \in Requests
    BY <1>1, <1>3 DEF Requests
  <2>2. Append(Tail(p), [Head(p) EXCEPT !.ask = x]) \in Seq(Requests)
    BY <1>1, <2>1, AppendProperties
  <2> QED  BY <1>3, <2>2, AnsweredForms, PendingShape
<1> QED  BY <1>2, <1>3

\* A task in the state it begins with.
LEMMA IdleTask ==
    /\ Idle \in TaskSet /\ Idle.at = "idle" /\ Idle.kind = "none"
    /\ Idle.waits = {} /\ Idle.load = 0 /\ Idle.s = None
  BY DEF Idle, TaskSet, Kinds

LEMMA NewTask ==
    ASSUME NEW k \in Kinds, NEW w \in Workspaces \cup {None}, NEW s \in Sessions \cup {None}
    PROVE  /\ Task(k, w, s) \in TaskSet /\ Task(k, w, s).kind = k /\ Task(k, w, s).ws = w
           /\ Task(k, w, s).s = s /\ Task(k, w, s).at = "attach"
           /\ Task(k, w, s).waits = {} /\ Task(k, w, s).load = 0
  BY DEF Task, Idle, TaskSet, Kinds

\* A command begins in a slot that is free.
LEMMA BeginShape ==
    ASSUME Shape, NEW task \in TaskSet, Begin(task)
    PROVE  tasks' \in [Slots -> TaskSet]
  BY DEF Begin, NextFree, Free, Shape, WiresShape

LEMMA UserWires == ASSUME WInv, User PROVE WiresShape'
<1> USE DEF WiresShape
<1>k. generation' = generation
  BY DEF User, Open, Submit, Pick, NewSession, Type, Send, Refresh, wires
<1>1. ASSUME NEW s \in Sessions, Open(s) PROVE WiresShape'
  <2>1. Task("open", Home[s], s) \in TaskSet
    BY NewTask, AttachmentAssumption DEF Kinds
  <2> QED  BY <1>1, <2>1, BeginShape DEF Open, WInv, Shape, Conns, wires
<1>2. ASSUME NEW s \in Sessions, Submit(s) PROVE WiresShape'
  <2>1. Task("submit", selected, s) \in TaskSet /\ untitled[selected] \in Nat
    BY <1>2, NewTask DEF Submit, Kinds, WInv, Shape, ScreenShape, DraftsShape
  <2>2. [Task("submit", selected, s) EXCEPT !.text = untitled[selected]] \in TaskSet
    BY <2>1 DEF TaskSet
  <2> QED  BY <1>2, <2>2, BeginShape DEF Submit, WInv, Shape, Conns, wires
<1>3. ASSUME NEW w \in Workspaces, Pick(w) PROVE WiresShape'
  <2>1. Task("pick", w, None) \in TaskSet
    BY NewTask DEF Kinds
  <2> QED  BY <1>3, <2>1, BeginShape DEF Pick, WInv, Shape, Conns, wires
<1>4. CASE NewSession \/ Type
  BY <1>4 DEF NewSession, Type, WInv, Shape, Conns, wires
<1>5. CASE Send
  <2>1. Task("send", Home[active], active) \in TaskSet
    BY <1>5, NewTask, AttachmentAssumption DEF Send, Kinds, WInv, Shape, ScreenShape
  <2> QED  BY <1>5, <2>1, BeginShape DEF Send, WInv, Shape, Conns, wires
<1>6. CASE Refresh
  <2> DEFINE w == conn[current].ws
             t == [Idle EXCEPT !.kind = "refresh", !.ws = w, !.at = "waiting",
                               !.on = current, !.waits = {"files"}, !.load = loads[w] + 1]
  <2>1. PICK i \in NextFree : tasks' = [tasks EXCEPT ![i] = t] /\ Request(current, i, <<"files">>)
    BY <1>6 DEF Refresh
  <2>2. current \in Conns /\ current \in Nat /\ i \in Slots
    BY <1>6 DEF Refresh, NextFree, Free, WInv, ConnInv, Numbered, UsesNewest, Conns
  <2>3. w \in Workspaces /\ loads[w] \in Nat
    BY <2>2 DEF WInv, Shape, WiresShape, ConnSet, LoadsShape
  <2>l. loads[w] + 1 \in Nat
    BY <2>3
  <2>4. t \in TaskSet
    <3> HIDE DEF w
    <3> QED  BY <2>2, <2>3, <2>l DEF Idle, TaskSet, Kinds, Strands
  <2>5. <<"files">> \in Seq(Asks)
    BY DEF Asks
  <2> HIDE DEF w, t
  <2>6. conn' \in [Conns -> ConnSet]'
    BY <1>k, <2>1, <2>2, <2>5, RequestShape DEF WInv
  <2> QED  BY <2>1, <2>2, <2>4, <2>6 DEF WInv, Shape
<1> QED  BY <1>1, <1>2, <1>3, <1>4, <1>5, <1>6 DEF User

LEMMA TaskFields ==
    ASSUME WInv, NEW i \in Slots
    PROVE  /\ tasks[i] \in TaskSet /\ Going(tasks[i])
           /\ tasks[i].at \in {"connecting", "attached", "waiting"} => tasks[i].on \in Conns
  BY DEF WInv, Shape, WiresShape, TInv, TasksGo, Going

LEMMA GoOnWires == ASSUME WInv, NEW i \in Slots, GoOn(i) PROVE WiresShape'
<1> USE DEF WiresShape
<1>t. tasks[i] \in TaskSet /\ Going(tasks[i]) /\ generation \in Nat /\ current \in Nat
  BY TaskFields DEF WInv, ConnInv, Numbered, UsesNewest
<1>1. CASE Reuse(i)
  BY <1>1, <1>t DEF Reuse, TaskSet, WInv, Shape, Conns, wires
<1>2. CASE Connect(i)
  <2>1. generation' = generation + 1 /\ tasks[i].ws \in Workspaces
    BY <1>2, <1>t DEF Connect, Going
  <2>2. [ws |-> tasks[i].ws, at |-> "connecting", chats |-> {}, pending |-> <<>>] \in ConnSet
    BY <2>1, EmptySeq DEF ConnSet
  <2>3. \A c \in 1..generation' : c # generation' => c \in Conns
    BY <2>1, <1>t DEF Conns
  <2>4. \A c \in Conns : conn[c] \in ConnSet
                         /\ [conn[c] EXCEPT !.at = "closing", !.chats = {}] \in ConnSet
    BY DEF WInv, Shape, ConnSet
  <2>5. conn' \in [1..generation' -> ConnSet]
    BY <1>2, <2>2, <2>3, <2>4 DEF Connect
  <2>6. tasks' \in [Slots -> TaskSet]
    <3>1. tasks' = [tasks EXCEPT ![i] = [@ EXCEPT !.at = "connecting", !.on = generation']]
      BY <1>2 DEF Connect
    <3>2. generation' \in Nat
      BY <1>t, <2>1
    <3>3. [tasks[i] EXCEPT !.at = "connecting", !.on = generation'] \in TaskSet
      BY <1>t, <3>2 DEF TaskSet
    <3> QED  BY <3>1, <3>3 DEF WInv, Shape
  <2> QED  BY <2>5, <2>6 DEF Conns
<1>3. CASE Select(i)
  <2> DEFINE t == tasks[i]
             changes == IF t.kind = "pick" THEN <<>>
                        ELSE IF Subscribed(t.on, t.s) THEN <<"changeset">> ELSE <<"session">>
             terminals == IF t.ws \in WithTerminals THEN <<"terminals">> ELSE <<>>
             asks == changes \o <<"files">> \o terminals
             waits == {"files"} \cup (IF t.kind = "open" THEN {"changes"} ELSE {})
                                \cup Range(terminals)
  <2>1. BeginLoad(i, waits) /\ Request(t.on, i, asks) /\ generation' = generation
    BY <1>3 DEF Select
  <2>2. t.on \in Conns /\ t.ws \in Workspaces /\ loads[t.ws] \in Nat
    BY <1>3, <1>t DEF Select, Holds, Going, WInv, Shape, LoadsShape
  <2>3. asks \in Seq(Asks)
    <3>1. changes \in Seq(Asks) /\ <<"files">> \in Seq(Asks) /\ terminals \in Seq(Asks)
      <4>1. \A x \in Asks : <<x>> \in Seq(Asks)
        OBVIOUS
      <4>2. <<>> \in Seq(Asks) /\ {"changeset", "session", "files", "terminals"} \subseteq Asks
        BY EmptySeq DEF Asks
      <4> QED  BY <4>1, <4>2
    <3> HIDE DEF changes, terminals
    <3> QED  BY <3>1, ConcatProperties
  <2>4. waits \subseteq Strands
    BY DEF Strands, Range
  <2> HIDE DEF asks, waits
  <2>5. conn' \in [Conns -> ConnSet]'
    BY <2>1, <2>2, <2>3, RequestShape DEF WInv
  <2>6. tasks' \in [Slots -> TaskSet]
    <3>1. loads'[t.ws] \in Nat
      BY <2>1, <2>2 DEF BeginLoad, WInv, Shape, LoadsShape
    <3>2. PICK n \in Nat : tasks' = [tasks EXCEPT ![i].at = "waiting", ![i].waits = waits,
                                                  ![i].load = n]
      BY <2>1, <3>1 DEF BeginLoad
    <3>3. [t EXCEPT !.at = "waiting", !.waits = waits, !.load = n] \in TaskSet
      BY <1>t, <2>4 DEF TaskSet
    <3> QED  BY <3>2, <3>3 DEF WInv, Shape
  <2> QED  BY <2>5, <2>6
<1>s. <<"session">> \in Seq(Asks) /\ <<"create">> \in Seq(Asks)
  BY DEF Asks
<1>w. \A n \in Nat : [tasks[i] EXCEPT !.at = "waiting", !.waits = {"chat"}, !.text = n] \in TaskSet
                     /\ [tasks[i] EXCEPT !.at = "waiting", !.waits = {"chat"}] \in TaskSet
  BY <1>t DEF TaskSet, Strands
<1>4. CASE Show(i)
  <2>1. CASE UNCHANGED conn /\ tasks' = [tasks EXCEPT ![i] = Idle]
    BY <1>4, <2>1, IdleTask DEF Show, WInv, Shape, Conns
  <2>2. CASE /\ tasks' = [tasks EXCEPT ![i].at = "waiting", ![i].waits = {"chat"}]
             /\ Request(tasks[i].on, i, <<"session">>)
    <3>1. conn' \in [Conns -> ConnSet]' 
      BY <1>4, <1>t, <1>s, <2>2, RequestShape DEF Show, Holds, Going, WInv
    <3> QED  BY <1>t, <1>w, <2>2, <3>1 DEF WInv, Shape
  <2> QED  BY <1>4, <2>1, <2>2 DEF Show
<1>5. CASE Compose(i)
  <2>1. CASE UNCHANGED conn /\ tasks' = [tasks EXCEPT ![i] = Idle]
    BY <1>5, <2>1, IdleTask DEF Compose, WInv, Shape, Conns
  <2>2. CASE /\ tasks' = [tasks EXCEPT ![i].at = "waiting", ![i].waits = {"chat"},
                                       ![i].text = draft[tasks[i].s]]
             /\ Request(tasks[i].on, i, <<"session">>)
    <3>1. conn' \in [Conns -> ConnSet]' 
      BY <1>5, <1>t, <1>s, <2>2, RequestShape DEF Compose, Holds, Going, WInv
    <3>2. draft[tasks[i].s] \in Nat
      BY <1>5, <1>t DEF Compose, Holds, Going, WInv, Shape, DraftsShape
    <3> QED  BY <1>t, <1>w, <2>2, <3>1, <3>2 DEF WInv, Shape
  <2> QED  BY <1>5, <2>1, <2>2 DEF Compose
<1>6. CASE Create(i)
  <2>1. conn' \in [Conns -> ConnSet]' 
    BY <1>6, <1>t, <1>s, RequestShape DEF Create, Holds, Going, WInv
  <2> QED  BY <1>6, <1>w, <2>1 DEF Create, WInv, Shape
<1> QED  BY <1>1, <1>2, <1>3, <1>4, <1>5, <1>6 DEF GoOn

LEMMA EndShape == ASSUME Shape, NEW ended, End(ended) PROVE tasks' \in [Slots -> TaskSet]
  BY IdleTask DEF End, Shape, WiresShape

LEMMA AfterShape ==
    ASSUME Shape, NEW i \in Slots, NEW t \in TaskSet, After(i, t)
    PROVE  tasks' \in [Slots -> TaskSet]
<1>1. Task("show", t.ws, t.s) \in TaskSet
  BY NewTask DEF TaskSet, Kinds
<1> QED  BY <1>1, IdleTask DEF After, Shape, WiresShape

\* The oldest request of a connection, and what is left without it.
LEMMA OldestRequest ==
    ASSUME WInv, NEW c \in Conns, conn[c].pending # <<>>
    PROVE  /\ conn[c] \in ConnSet /\ conn[c].pending \in Seq(Requests)
           /\ Head(conn[c].pending) \in Requests /\ Tail(conn[c].pending) \in Seq(Requests)
           /\ Asker(c) \in 0..MaxTasks /\ (Asker(c) # 0 => Asker(c) \in Slots)
<1>1. /\ conn[c] \in ConnSet /\ conn[c].pending \in Seq(Requests)
      /\ Head(conn[c].pending) \in Requests /\ Tail(conn[c].pending) \in Seq(Requests)
  BY TailRequests DEF WInv, Shape, WiresShape, ConnSet
<1>2. Asker(c) \in 0..MaxTasks
  BY <1>1 DEF Asker, Requests
<1> QED  BY <1>1, <1>2, AttachmentAssumption DEF Slots

LEMMA SocketWires == ASSUME WInv, NEW c, Socket(c) PROVE WiresShape'
<1> USE DEF WiresShape
<1>1. c \in Conns /\ generation' = generation /\ conn[c] \in ConnSet
  BY DEF Socket, Connected, ConnectFails, SocketClosed, WInv, Shape
<1>2. \A x \in {"open", "closing", "closed"} : [conn[c] EXCEPT !.at = x] \in ConnSet
  BY <1>1 DEF ConnSet
<1>3. CASE Connected(c)
  <2>1. PICK x \in {"open", "closing"} : conn' = [conn EXCEPT ![c].at = x]
    BY <1>3 DEF Connected
  <2>2. conn' \in [Conns -> ConnSet]
    BY <1>1, <1>2, <2>1 DEF WInv, Shape
  <2>3. tasks' \in [Slots -> TaskSet]
    <3>1. CASE c = generation
      <4>1. \A i \in Slots : [tasks[i] EXCEPT !.at = "attached"] \in TaskSet
        BY DEF WInv, Shape, TaskSet
      <4> QED  BY <1>3, <3>1, <4>1 DEF Connected, WInv, Shape
    <3>2. CASE c # generation
      BY <1>3, <3>2, EndShape DEF Connected, WInv
    <3> QED  BY <3>1, <3>2
  <2> QED  BY <1>1, <2>2, <2>3 DEF Conns
<1>4. CASE ConnectFails(c)
  <2>1. conn' \in [Conns -> ConnSet]
    BY <1>1, <1>2, <1>4 DEF ConnectFails, WInv, Shape
  <2> QED  BY <1>1, <1>4, <2>1, EndShape DEF ConnectFails, WInv, Conns
<1>5. CASE SocketClosed(c)
  <2>1. [conn[c] EXCEPT !.at = "closed", !.pending = <<>>, !.chats = {}] \in ConnSet
    BY <1>1, EmptySeq DEF ConnSet
  <2>2. conn' \in [Conns -> ConnSet]
    BY <1>1, <1>5, <2>1 DEF SocketClosed, WInv, Shape
  <2>3. ASSUME NEW i \in Slots PROVE Rejected(i) \in TaskSet
    <3>1. tasks[i].ws \in Workspaces \cup {None} /\ tasks[i].s \in Sessions \cup {None}
      BY DEF WInv, Shape, TaskSet
    <3>2. "show" \in Kinds
      BY DEF Kinds
    <3> QED  BY <3>1, <3>2, IdleTask, NewTask DEF Rejected
  <2>4. PICK asking \in SUBSET Slots :
            tasks' = [i \in Slots |-> IF i \in asking THEN Rejected(i) ELSE tasks[i]]
    BY <1>5 DEF SocketClosed
  <2>5. tasks' \in [Slots -> TaskSet]
    BY <2>3, <2>4 DEF WInv, Shape
  <2> QED  BY <1>1, <2>2, <2>5 DEF Conns
<1> QED  BY <1>3, <1>4, <1>5 DEF Socket

LEMMA AnswerWires == ASSUME WInv, NEW c, Answer(c) PROVE WiresShape'
<1> USE DEF WiresShape
<1> DEFINE p == conn[c].pending
           i == Asker(c)
           t == tasks[i]
<1>1. c \in Conns /\ p # <<>> /\ UNCHANGED generation
  BY DEF Answer, AnswerSession, AnswerChat, AnswerChangeset, AnswerFiles, AnswerTerminals,
         AnswerCreate, Refused, First
<1>2. /\ conn[c] \in ConnSet /\ p \in Seq(Requests) /\ Head(p) \in Requests
      /\ Tail(p) \in Seq(Requests) /\ i \in 0..MaxTasks /\ (i # 0 => i \in Slots)
  BY <1>1, OldestRequest
<1>3. i # 0 => t \in TaskSet
  BY <1>2 DEF WInv, Shape
<1>4. {"session", "changeset"} \subseteq Asks
  BY DEF Asks
<1>5. CASE AnswerSession(c)
  <2> DEFINE e == [Head(p) EXCEPT !.ask = "chat"]
  <2>1. e \in Requests
    BY <1>2 DEF Requests, Asks
  <2>2. Append(Tail(p), e) \in Seq(Requests)
    BY <1>2, <2>1, AppendProperties
  <2>3. Head(p).s \in Sessions
    <3>1. 1 \in DOMAIN p /\ p[1] = Head(p)
      BY <1>1, <1>2, EmptySeq, LenProperties
    <3> QED  BY <1>1, <1>5, <3>1 DEF AnswerSession, First, WInv, TInv, Linked, RequestsAsked, Asked
  <2>4. conn' = [conn EXCEPT ![c].pending = Append(Tail(p), e),
                             ![c].chats = conn[c].chats \cup {Head(p).s}]
    BY <1>5 DEF AnswerSession
  <2> HIDE DEF p, e
  <2>5. [conn[c] EXCEPT !.pending = Append(Tail(p), e),
                        !.chats = conn[c].chats \cup {Head(p).s}] \in ConnSet
    BY <1>2, <2>2, <2>3 DEF ConnSet
  <2>6. conn' \in [Conns -> ConnSet]
    BY <1>1, <2>4, <2>5 DEF WInv, Shape
  <2> QED  BY <1>1, <1>5, <2>6 DEF AnswerSession, Conns, WInv, Shape
<1>6. CASE AnswerChat(c)
  <2>1. conn' \in [Conns -> ConnSet]'
    BY <1>1, <1>4, <1>6, AnsweredShape DEF AnswerChat, WInv
  <2>2. tasks' \in [Slots -> TaskSet]
    <3>1. CASE tasks' = tasks \/ tasks' = [tasks EXCEPT ![i] = Idle]
      BY <3>1, IdleTask DEF WInv, Shape
    <3>2. CASE End({i})
      BY <3>2, EndShape DEF WInv
    <3> QED  BY <1>6, <3>1, <3>2 DEF AnswerChat
  <2> QED  BY <2>1, <2>2
<1>7. \A x : i # 0 => [t EXCEPT !.waits = @ \ {x}] \in TaskSet
  BY <1>3 DEF TaskSet
<1>8. CASE AnswerChangeset(c) \/ AnswerTerminals(c)
  <2>1. conn' \in [Conns -> ConnSet]'
    BY <1>1, <1>8, AnsweredShape DEF AnswerChangeset, AnswerTerminals, WInv
  <2>2. tasks' \in [Slots -> TaskSet]
    BY <1>2, <1>7, <1>8, AfterShape DEF AnswerChangeset, AnswerTerminals, WInv, Shape
  <2> QED  BY <2>1, <2>2
<1>9. CASE AnswerFiles(c)
  <2>1. conn' \in [Conns -> ConnSet]'
    BY <1>1, <1>9, AnsweredShape DEF AnswerFiles, WInv
  <2>2. tree[conn[c].ws] \in Nat
    BY <1>2 DEF ConnSet, WInv, Shape, LoadsShape
  <2>3. i # 0 => [t EXCEPT !.waits = @ \ {"files"}, !.listing = tree[conn[c].ws]] \in TaskSet
    BY <1>3, <2>2 DEF TaskSet
  <2>4. tasks' \in [Slots -> TaskSet]
    BY <1>2, <1>9, <2>3, AfterShape DEF AnswerFiles, WInv, Shape
  <2> QED  BY <2>1, <2>4
<1>10. CASE AnswerCreate(c)
  <2>1. conn' \in [Conns -> ConnSet]'
    BY <1>1, <1>4, <1>10, AnsweredShape DEF AnswerCreate, WInv
  <2> QED  BY <1>10, <2>1 DEF AnswerCreate, WInv, Shape
<1>11. CASE Refused(c)
  <2>1. CASE Answered(c, <<>>) /\ UNCHANGED tasks
    <3>1. conn' \in [Conns -> ConnSet]'
      BY <1>1, <2>1, AnsweredShape DEF WInv
    <3> QED  BY <2>1, <3>1 DEF WInv, Shape
  <2>2. CASE i # 0 /\ Answered(c, <<>>) /\ After(i, [t EXCEPT !.waits = @ \ {"terminals"}])
    <3>1. conn' \in [Conns -> ConnSet]'
      BY <1>1, <2>2, AnsweredShape DEF WInv
    <3>2. tasks' \in [Slots -> TaskSet]
      BY <1>2, <1>7, <2>2, AfterShape DEF WInv
    <3> QED  BY <3>1, <3>2
  <2>3. CASE /\ conn' = [conn EXCEPT ![c].pending = [k \in DOMAIN Tail(p) |->
                            IF Tail(p)[k].task = i THEN [Tail(p)[k] EXCEPT !.task = 0] ELSE Tail(p)[k]]]
             /\ End({i})
    <3> DEFINE Orphan(k) == IF Tail(p)[k].task = i THEN [Tail(p)[k] EXCEPT !.task = 0]
                            ELSE Tail(p)[k]
               q == [k \in DOMAIN Tail(p) |-> Orphan(k)]
    <3>1. DOMAIN Tail(p) = 1..Len(Tail(p)) /\ Len(Tail(p)) \in Nat
          /\ \A k \in 1..Len(Tail(p)) : Tail(p)[k] \in Requests
      BY <1>2, ElementOfSeq, LenProperties
    <3>2. \A r \in Requests : [r EXCEPT !.task = 0] \in Requests
      BY AttachmentAssumption DEF Requests
    <3>3. \A k \in 1..Len(Tail(p)) : Orphan(k) \in Requests
      BY <3>1, <3>2
    <3>4. q \in Seq(Requests)
      <4> HIDE DEF Orphan
      <4> QED  BY <3>1, <3>3, IsASeq
    <3>5. conn' = [conn EXCEPT ![c].pending = q]
      BY <2>3
    <3> HIDE DEF q
    <3> QED  BY <1>1, <2>3, <3>4, <3>5, PendingShape, EndShape DEF WInv
  <2> QED  BY <1>11, <2>1, <2>2, <2>3 DEF Refused
<1> QED  BY <1>5, <1>6, <1>8, <1>9, <1>10, <1>11 DEF Answer

LEMMA NextWires == ASSUME WInv, [Next]_vars PROVE WiresShape'
<1>1. CASE \/ \E s \in Sessions : TurnEnds(s)
           \/ \E w \in Workspaces : TreeChanges(w)
           \/ UNCHANGED vars
  BY <1>1 DEF TurnEnds, TreeChanges, vars, wires, WInv, Shape, WiresShape, Conns
<1> QED  BY <1>1, UserWires, GoOnWires, SocketWires, AnswerWires DEF Next

\* What is said of the loads and listings.
LEMMA NextLoads == ASSUME WInv, [Next]_vars PROVE LoadsShape'
<1> USE DEF LoadsShape
<1>n. LoadsShape
  BY DEF WInv, Shape
<1>l. UNCHANGED loading /\ UNCHANGED tree => LoadsShape'
  BY <1>n DEF loading
<1>f. ASSUME NEW failed, LoadsFail(failed), UNCHANGED tree PROVE LoadsShape'
  BY <1>n, <1>f DEF LoadsFail
<1>a. ASSUME NEW i, NEW t \in TaskSet, After(i, t), UNCHANGED tree PROVE LoadsShape'
  BY <1>n, <1>a DEF After, TaskSet
<1>g. ASSUME NEW w, loads' = [loads EXCEPT ![w] = @ + 1],
             state' = [state EXCEPT ![w] = "loading"], UNCHANGED <<files, tree>>
      PROVE  LoadsShape'
  <2>1. ASSUME NEW v \in Workspaces PROVE loads'[v] \in Nat
    <3>1. loads[v] \in Nat /\ loads[v] + 1 \in Nat
      BY <1>n, <2>1
    <3>2. loads'[v] \in {loads[v], loads[v] + 1}
      BY <1>n, <1>g, <2>1
    <3> QED  BY <3>1, <3>2
  <2>2. loads' \in [Workspaces -> Nat]
    BY <1>n, <1>g, <2>1
  <2>3. state' \in [Workspaces -> {"idle", "loading", "ready", "error"}]
    BY <1>n, <1>g
  <2> QED  BY <1>n, <1>g, <2>2, <2>3
<1>1. CASE User
  <2>1. CASE Refresh
    <3>1. UNCHANGED <<files, tree>>
          /\ loads' = [loads EXCEPT ![conn[current].ws] = @ + 1]
          /\ state' = [state EXCEPT ![conn[current].ws] = "loading"]
      BY <2>1 DEF Refresh
    <3> QED  BY <1>g, <3>1
  <2>2. CASE ~Refresh
    BY <1>1, <2>2, <1>l DEF User, Open, Submit, Pick, NewSession, Type, Send
  <2> QED  BY <2>1, <2>2
<1>2. ASSUME NEW i \in Slots, GoOn(i) PROVE LoadsShape'
  <2>1. CASE Select(i)
    <3>1. UNCHANGED <<files, tree>>
          /\ loads' = [loads EXCEPT ![tasks[i].ws] = @ + 1]
          /\ state' = [state EXCEPT ![tasks[i].ws] = "loading"]
      BY <2>1 DEF Select, BeginLoad
    <3> QED  BY <1>g, <3>1
  <2>2. CASE ~Select(i)
    BY <1>2, <2>2, <1>l DEF GoOn, Reuse, Connect, Show, Compose, Create
  <2> QED  BY <2>1, <2>2
<1>3. ASSUME NEW c, Socket(c) PROVE LoadsShape'
  <2>1. CASE SocketClosed(c)
    <3>1. UNCHANGED tree /\ \E failed : LoadsFail(failed)
      BY <2>1 DEF SocketClosed
    <3> QED  BY <3>1, <1>f
  <2>2. CASE ~SocketClosed(c)
    BY <1>3, <2>2, <1>l DEF Socket, Connected, ConnectFails
  <2> QED  BY <2>1, <2>2
<1>4. ASSUME NEW c, Answer(c) PROVE LoadsShape'
  <2> DEFINE i == Asker(c)
             t == tasks[i]
  <2>1. /\ c \in Conns /\ conn[c].pending # <<>> /\ UNCHANGED tree
    BY <1>4 DEF Answer, AnswerSession, AnswerChat, AnswerChangeset, AnswerFiles, AnswerTerminals,
                AnswerCreate, Refused, First
  <2>2. i # 0 => t \in TaskSet
    BY <2>1, OldestRequest DEF WInv, Shape, WiresShape
  <2>3. \A x : i # 0 => [t EXCEPT !.waits = @ \ {x}] \in TaskSet
    BY <2>2 DEF TaskSet
  <2>4. tree[conn[c].ws] \in Nat
    BY <2>1, <1>n, OldestRequest DEF ConnSet
  <2>5. i # 0 => [t EXCEPT !.waits = @ \ {"files"}, !.listing = tree[conn[c].ws]] \in TaskSet
    BY <2>2, <2>4 DEF TaskSet
  <2>6. CASE AnswerSession(c) \/ AnswerChat(c) \/ AnswerCreate(c)
    BY <2>1, <2>6, <1>l DEF AnswerSession, AnswerChat, AnswerCreate
  <2>7. CASE AnswerChangeset(c) \/ AnswerTerminals(c) \/ AnswerFiles(c)
    BY <2>1, <2>3, <2>5, <2>7, <1>l, <1>a DEF AnswerChangeset, AnswerTerminals, AnswerFiles
  <2>8. CASE Refused(c)
    <3>1. \/ UNCHANGED loading
          \/ i # 0 /\ After(i, [t EXCEPT !.waits = @ \ {"terminals"}])
          \/ \E failed : LoadsFail(failed)
      BY <2>8 DEF Refused
    <3> QED  BY <2>1, <2>3, <3>1, <1>l, <1>a, <1>f
  <2> QED  BY <1>4, <2>6, <2>7, <2>8 DEF Answer
<1>5. CASE \E w \in Workspaces : TreeChanges(w)
  BY <1>5, <1>n DEF TreeChanges, loading
<1>6. CASE (\E s \in Sessions : TurnEnds(s)) \/ UNCHANGED vars
  BY <1>6, <1>l DEF TurnEnds, vars
<1> QED  BY <1>1, <1>2, <1>3, <1>4, <1>5, <1>6 DEF Next

\* The text of a prompt is taken from its draft, or from the submission.
LEMMA NextDrafts == ASSUME WInv, [Next]_vars PROVE DraftsShape'
<1> USE DEF DraftsShape
<1>n. DraftsShape
  BY DEF WInv, Shape
<1>l. UNCHANGED <<draft, untitled, edits>> => DraftsShape'
  BY <1>n
<1>1. CASE User
  <2>1. CASE Type
    BY <2>1, <1>n DEF Type
  <2>2. CASE ~Type
    BY <1>1, <2>2, <1>l DEF User, Open, Submit, Pick, NewSession, Refresh, Send, Begin, drafts, count
  <2> QED  BY <2>1, <2>2
<1>2. ASSUME NEW i \in Slots, GoOn(i) PROVE DraftsShape'
  <2>1. CASE Compose(i)
    <3>1. UNCHANGED <<untitled, edits>>
          /\ (UNCHANGED draft \/ draft' = [draft EXCEPT ![tasks[i].s] = 0])
      BY <2>1 DEF Compose, Prompt, count
    <3> QED  BY <3>1, <1>n
  <2>2. CASE ~Compose(i)
    BY <1>2, <2>2, <1>l DEF GoOn, Reuse, Connect, Select, Show, Create, drafts, count
  <2> QED  BY <2>1, <2>2
<1>3. ASSUME NEW c, Socket(c) PROVE DraftsShape'
  BY <1>3, <1>l DEF Socket, Connected, ConnectFails, SocketClosed, Fault, count
<1>4. ASSUME NEW c, AnswerChat(c) PROVE DraftsShape'
  BY <1>4, <1>n DEF AnswerChat, Prompt, drafts, count
<1>5. ASSUME NEW c, Answer(c), ~AnswerChat(c) PROVE DraftsShape'
  BY <1>5, <1>l DEF Answer, AnswerSession, AnswerChangeset, AnswerFiles, AnswerTerminals,
                    AnswerCreate, Refused, Fault, drafts, count
<1>6. CASE \/ \E w \in Workspaces : TreeChanges(w)
           \/ \E s \in Sessions : TurnEnds(s)
           \/ UNCHANGED vars
  BY <1>6, <1>l DEF TreeChanges, TurnEnds, vars, drafts, count
<1> QED  BY <1>1, <1>2, <1>3, <1>4, <1>5, <1>6 DEF Next

\* A session becomes the active one, or gets a turn, when it exists: that of
\* a submission is known once the host has created it.
LEMMA NextScreen == ASSUME WInv, [Next]_vars PROVE ScreenShape'
<1> USE DEF ScreenShape
<1>n. ScreenShape
  BY DEF WInv, Shape
<1>l. UNCHANGED <<screen, known, working>> => ScreenShape'
  BY <1>n DEF screen
<1>1. CASE User
  BY <1>1, <1>n DEF User, Open, Submit, Pick, NewSession, Type, Send, Refresh, screen, drafts
<1>2. ASSUME NEW i \in Slots, GoOn(i) PROVE ScreenShape'
  <2>1. Going(tasks[i])
    BY TaskFields
  <2>2. CASE Reuse(i) \/ Connect(i) \/ Create(i)
    BY <2>2, <1>l DEF Reuse, Connect, Create, drafts
  <2>3. CASE Select(i)
    BY <1>n, <2>1, <2>3 DEF Select, Holds, Going, drafts
  <2>4. CASE Show(i)
    BY <1>n, <2>1, <2>4 DEF Show, Holds, Going, drafts
  <2>5. CASE Compose(i)
    <3>1. tasks[i].s \in known
      BY <2>1, <2>5 DEF Compose, Holds, Going
    <3>2. UNCHANGED <<screen, known>> /\ working' \in {working, working \cup {tasks[i].s}}
      BY <2>5 DEF Compose, Prompt
    <3> QED  BY <1>n, <3>1, <3>2 DEF screen
  <2> QED  BY <1>2, <2>2, <2>3, <2>4, <2>5 DEF GoOn
<1>3. ASSUME NEW c, Socket(c) PROVE ScreenShape'
  BY <1>3, <1>l DEF Socket, Connected, ConnectFails, SocketClosed
<1>4. ASSUME NEW c, Answer(c) PROVE ScreenShape'
  <2> DEFINE p == conn[c].pending
             i == Asker(c)
  <2>1. c \in Conns /\ p # <<>> /\ p \in Seq(Requests)
    BY <1>4, OldestRequest DEF Answer, AnswerSession, AnswerChat, AnswerChangeset, AnswerFiles,
       AnswerTerminals, AnswerCreate, Refused, First
  <2>2. 1 \in DOMAIN p /\ p[1] = Head(p)
    BY <2>1, EmptySeq, LenProperties
  <2>3. Asked(c, Head(p))
    BY <2>1, <2>2 DEF WInv, TInv, Linked, RequestsAsked
  <2>4. CASE AnswerChat(c)
    <3>1. \/ UNCHANGED <<screen, known, working>>
          \/ /\ i # 0 /\ tasks[i].kind \in {"show", "send", "submit"} /\ UNCHANGED <<selected, known>>
             /\ active' \in {active, tasks[i].s} /\ working' \subseteq working \cup {tasks[i].s}
      BY <2>4 DEF AnswerChat, Prompt, screen, drafts
    <3>2. ASSUME i # 0, tasks[i].kind \in {"show", "send", "submit"} PROVE tasks[i].s \in known
      <4>1. Going(tasks[i])
        BY <2>1, <3>2, OldestRequest, TaskFields
      <4>2. Head(p).ask = "chat"
        BY <2>4 DEF AnswerChat, First
      <4> QED  BY <2>3, <3>2, <4>1, <4>2 DEF Asked, Going, Asker
    <3> QED  BY <1>n, <1>l, <3>1, <3>2
  <2>5. CASE AnswerCreate(c)
    <3>1. UNCHANGED <<screen, working>> /\ known' = known \cup {tasks[i].s} /\ Head(p).ask = "create"
      BY <2>5 DEF AnswerCreate, First, drafts
    <3>2. tasks[i].s \in Sessions
      BY <2>3, <3>1 DEF Asked, Asker
    <3> QED  BY <1>n, <3>1, <3>2 DEF screen
  <2>6. CASE ~AnswerChat(c) /\ ~AnswerCreate(c)
    BY <1>4, <1>l, <2>6 DEF Answer, AnswerSession, AnswerChangeset, AnswerFiles, AnswerTerminals,
       Refused, drafts
  <2> QED  BY <2>4, <2>5, <2>6
<1>5. CASE \/ \E w \in Workspaces : TreeChanges(w)
           \/ \E s \in Sessions : TurnEnds(s)
           \/ UNCHANGED vars
  BY <1>5, <1>n DEF TreeChanges, TurnEnds, vars, screen, drafts
<1> QED  BY <1>1, <1>2, <1>3, <1>4, <1>5 DEF Next

LEMMA NextShape == ASSUME WInv, [Next]_vars PROVE Shape'
  BY NextWires, NextLoads, NextDrafts, NextScreen DEF Shape

----------------------------------------------------------------------------
(* Requests and tasks stay linked, whatever happens to either.             *)

\* A request of a task is one of a slot, which waits for it.
LEMMA RequestOf ==
    ASSUME WInv, NEW c \in Conns, NEW k \in DOMAIN conn[c].pending
    PROVE  /\ conn[c].pending[k] \in Requests /\ Asked(c, conn[c].pending[k])
           /\ conn[c].pending[k].task # 0 =>
                 /\ conn[c].pending[k].task \in Slots
                 /\ tasks[conn[c].pending[k].task].at = "waiting"
                 /\ tasks[conn[c].pending[k].task].on = c
<1> DEFINE r == conn[c].pending[k]
<1>1. conn[c].pending \in Seq(Requests)
  BY DEF WInv, Shape, WiresShape, ConnSet
<1>2. r \in Requests
  BY <1>1, ElementOfSeq, LenProperties
<1>3. Asked(c, r)
  BY DEF WInv, TInv, Linked, RequestsAsked
<1>4. r.task # 0 => r.task \in Slots
  BY <1>2, AttachmentAssumption DEF Requests, Slots
<1> QED  BY <1>2, <1>3, <1>4 DEF Asked

\* Tasks go on, begin or end, and connections open and close; the requests
\* of a task that is not waiting any more are gone with their connection.
LEMMA TasksChange ==
    ASSUME WInv, Conns \subseteq Conns', known \subseteq known',
           \A c \in Conns' : \/ conn'[c].pending = <<>>
                             \/ /\ c \in Conns /\ conn'[c].pending = conn[c].pending
                                /\ conn'[c].at = "open" =>
                                      conn[c].at = "open" /\ conn[c].chats \subseteq conn'[c].chats,
           \A i \in Slots : tasks'[i] # tasks[i] =>
                               /\ tasks'[i].at # "waiting"
                               /\ tasks[i].at = "waiting" => conn'[tasks[i].on].pending = <<>>,
           \A i \in Slots : tasks'[i].at = "waiting" =>
                               conn'[tasks[i].on].pending = conn[tasks[i].on].pending
    PROVE  Linked'
<1>1. ASSUME NEW c \in Conns', NEW k \in DOMAIN conn'[c].pending
      PROVE  /\ c \in Conns /\ k \in DOMAIN conn[c].pending
             /\ conn'[c].pending[k] = conn[c].pending[k]
             /\ conn'[c].at = "open" =>
                   conn[c].at = "open" /\ conn[c].chats \subseteq conn'[c].chats
             /\ conn[c].pending[k].task # 0 =>
                   tasks'[conn[c].pending[k].task] = tasks[conn[c].pending[k].task]
  <2>1. /\ c \in Conns /\ conn'[c].pending = conn[c].pending /\ conn'[c].pending # <<>>
        /\ conn'[c].at = "open" =>
              conn[c].at = "open" /\ conn[c].chats \subseteq conn'[c].chats
    BY <1>1
  <2>2. k \in DOMAIN conn[c].pending
    BY <1>1, <2>1
  <2> QED  BY <2>1, <2>2, RequestOf
<1>2. RequestsAsked'
  <2>1. ASSUME NEW c \in Conns', NEW k \in DOMAIN conn'[c].pending
        PROVE  Asked(c, conn[c].pending[k])'
    <3>1. PICK r : r = conn[c].pending[k] /\ r = conn'[c].pending[k]
      BY <1>1
    <3>2. Asked(c, r)
      BY <1>1, <3>1, RequestOf
    <3> QED  BY <1>1, <3>1, <3>2 DEF Asked, StrandOf, Suits
  <2> QED  BY <2>1 DEF RequestsAsked
<1>3. AskedOnce'
  <2>1. ASSUME NEW c \in Conns', NEW j \in DOMAIN conn'[c].pending,
               NEW k \in DOMAIN conn'[c].pending, j # k,
               conn'[c].pending[j].task = conn'[c].pending[k].task, conn'[c].pending[j].task # 0
        PROVE  StrandOf(tasks'[conn'[c].pending[j].task].kind, conn'[c].pending[j].ask)
                 # StrandOf(tasks'[conn'[c].pending[j].task].kind, conn'[c].pending[k].ask)
    BY <1>1, <2>1 DEF WInv, TInv, Linked, AskedOnce, Apart
  <2> QED  BY <2>1 DEF AskedOnce, Apart, StrandOf
<1>4. WaitersAnswerable'
  <2>1. ASSUME NEW i \in Slots, tasks'[i].at = "waiting" PROVE Answerable(i)'
    <3>1. tasks'[i] = tasks[i] /\ conn'[tasks[i].on].pending = conn[tasks[i].on].pending
      BY <2>1
    <3>2. Answerable(i)
      BY DEF WInv, TInv, Linked, WaitersAnswerable
    <3> QED  BY <2>1, <3>1, <3>2 DEF Answerable, StrandOf
  <2> QED  BY <2>1 DEF WaitersAnswerable, Answerable
<1> QED  BY <1>2, <1>3, <1>4 DEF Linked

\* One connection and one of its tasks change.  i is 0 when no task does.
Only(c, i, q) ==
    /\ UNCHANGED generation /\ known \subseteq known'
    /\ \A d \in Conns : d # c => conn'[d] = conn[d]
    /\ conn'[c].pending = q
    /\ \A j \in Slots : j # i => tasks'[j] = tasks[j]
    /\ i \in Slots => /\ tasks[i].at = "waiting" => tasks[i].on = c
                      /\ tasks'[i].at = "waiting" => tasks'[i].on = c

LEMMA OneChanges ==
    ASSUME WInv, NEW c \in Conns, NEW i, NEW q, Only(c, i, q),
           \A k \in DOMAIN q : Asked(c, q[k])',
           Apart(q)',
           \A j \in Slots : tasks'[j].at = "waiting" /\ tasks'[j].on = c => Answerable(j)'
    PROVE  Linked'
<1> USE DEF Only
<1>1. \A d \in Conns : d # c => \A k \in DOMAIN conn[d].pending :
         conn[d].pending[k].task # 0 =>
            tasks'[conn[d].pending[k].task] = tasks[conn[d].pending[k].task]
  BY RequestOf
<1>2. RequestsAsked'
  <2>1. ASSUME NEW d \in Conns, NEW k \in DOMAIN conn'[d].pending
        PROVE  Asked(d, conn[d].pending[k])'
    <3>1. CASE d = c
      BY <2>1, <3>1
    <3>2. CASE d # c
      <4>1. PICK r : r = conn[d].pending[k] /\ r = conn'[d].pending[k]
        BY <3>2
      <4>2. conn'[d] = conn[d] /\ k \in DOMAIN conn[d].pending
        BY <2>1, <3>2
      <4>3. Asked(d, r) /\ (r.task # 0 => tasks'[r.task] = tasks[r.task])
        BY <1>1, <3>2, <4>1, <4>2, RequestOf
      <4> QED  BY <4>1, <4>2, <4>3 DEF Asked, StrandOf, Suits
    <3> QED  BY <3>1, <3>2
  <2> QED  BY <2>1 DEF RequestsAsked, Conns
<1>3. AskedOnce'
  <2>1. ASSUME NEW d \in Conns, d # c PROVE Apart(conn[d].pending)'
    <3>1. PICK u : u = conn[d].pending /\ u = conn'[d].pending
      BY <2>1
    <3>2. Apart(u)
      BY <3>1 DEF WInv, TInv, Linked, AskedOnce
    <3>3. \A k \in DOMAIN u : u[k].task # 0 => tasks'[u[k].task] = tasks[u[k].task]
      BY <1>1, <2>1, <3>1
    <3>4. Apart(u)'
      BY <3>2, <3>3 DEF Apart, StrandOf
    <3> QED  BY <3>1, <3>4
  <2>2. Apart(conn[c].pending)'
    BY DEF Apart, StrandOf
  <2> QED  BY <2>1, <2>2 DEF AskedOnce, Conns
<1>4. WaitersAnswerable'
  <2>1. ASSUME NEW j \in Slots, tasks'[j].at = "waiting", tasks'[j].on # c PROVE Answerable(j)'
    <3>1. tasks'[j] = tasks[j]
      BY <2>1
    <3>2. tasks[j].on \in Conns /\ conn'[tasks[j].on] = conn[tasks[j].on]
      BY <2>1, <3>1, TaskFields
    <3>3. Answerable(j)
      BY DEF WInv, TInv, Linked, WaitersAnswerable
    <3> QED  BY <2>1, <3>1, <3>2, <3>3 DEF Answerable, StrandOf
  <2> QED  BY <2>1 DEF WaitersAnswerable, Answerable
<1> QED  BY <1>2, <1>3, <1>4 DEF Linked

\* q is p with the requests of task i, about s, after it.
Grown(p, q, i, s, asks) ==
    /\ \A k \in DOMAIN q :
          \/ k \in DOMAIN p /\ q[k] = p[k]
          \/ \E n \in DOMAIN asks : k = Len(p) + n /\ q[k] = [task |-> i, s |-> s, ask |-> asks[n]]
    /\ \A k \in DOMAIN p : k \in DOMAIN q /\ q[k] = p[k]
    /\ \A n \in DOMAIN asks :
          Len(p) + n \in DOMAIN q /\ q[Len(p) + n] = [task |-> i, s |-> s, ask |-> asks[n]]

\* What task t asks for is what it waits for.
WellAsked(t, asks) ==
    /\ \A k \in DOMAIN asks :
          /\ StrandOf(t.kind, asks[k]) \in t.waits /\ Suits(t.kind, asks[k])
          /\ asks[k] # "chat" /\ (t.kind = "submit" => asks[k] = "create")
          /\ asks[k] \in {"session", "changeset", "create"} => t.s \in Sessions
    /\ \A j, k \in DOMAIN asks : j # k => StrandOf(t.kind, asks[j]) # StrandOf(t.kind, asks[k])
    /\ \A x \in t.waits : \E k \in DOMAIN asks : StrandOf(t.kind, asks[k]) = x

LEMMA ConcatAt ==
    ASSUME NEW S, NEW p \in Seq(S), NEW a \in Seq(S), NEW m, m = Len(p), NEW n, n = Len(a),
           NEW q, q = p \o a
    PROVE  /\ m \in Nat /\ n \in Nat /\ DOMAIN p = 1..m /\ DOMAIN a = 1..n /\ DOMAIN q = 1..(m + n)
           /\ \A k \in 1..(m + n) : q[k] = IF k <= m THEN p[k] ELSE a[k - m]
<1>1. q \in Seq(S) /\ Len(q) = Len(p) + Len(a)
  BY ConcatProperties
<1>2. \A k \in 1..(Len(p) + Len(a)) : q[k] = IF k <= Len(p) THEN p[k] ELSE a[k - Len(p)]
  BY ConcatProperties
<1> QED  BY <1>1, <1>2, LenProperties

LEMMA PutAfter ==
    ASSUME Shape, NEW i \in Slots, NEW asks \in Seq(Asks), NEW p \in Seq(Requests), NEW q,
           q = p \o Put(i, asks)
    PROVE  Grown(p, q, i, tasks[i].s, asks)
<1>1. PICK a : a = Put(i, asks)
  OBVIOUS
<1>2. a \in Seq(Requests) /\ DOMAIN a = DOMAIN asks /\ q = p \o a
  BY <1>1, PutRequests
<1>3. \A n \in DOMAIN asks : a[n] = [task |-> i, s |-> tasks[i].s, ask |-> asks[n]]
  BY <1>1 DEF Put
<1>6. PICK m, n : m = Len(p) /\ n = Len(a)
  OBVIOUS
<1>7. /\ m \in Nat /\ n \in Nat /\ DOMAIN p = 1..m /\ DOMAIN a = 1..n
      /\ DOMAIN q = 1..(m + n)
      /\ \A k \in 1..(m + n) : q[k] = IF k <= m THEN p[k] ELSE a[k - m]
  BY <1>2, <1>6, ConcatAt
<1>8. ASSUME NEW k \in 1..(m + n)
      PROVE  \/ k \in 1..m /\ q[k] = p[k]
             \/ \E x \in 1..n : k = m + x /\ q[k] = a[x]
  <2>1. CASE k <= m
    BY <1>7, <2>1
  <2>2. CASE ~(k <= m)
    <3>1. k - m \in 1..n /\ k = m + (k - m) /\ q[k] = a[k - m]
      BY <1>7, <2>2
    <3> QED  BY <3>1
  <2> QED  BY <2>1, <2>2
<1>9. \A k \in 1..m : k \in 1..(m + n) /\ q[k] = p[k]
  BY <1>7
<1>10. ASSUME NEW x \in 1..n PROVE m + x \in 1..(m + n) /\ q[m + x] = a[x]
  <2>1. m + x \in 1..(m + n) /\ ~(m + x <= m) /\ (m + x) - m = x
    BY <1>7
  <2> QED  BY <1>7, <2>1
<1>11. DOMAIN asks = 1..n
  BY <1>2, <1>7
<1>12. ASSUME NEW k \in DOMAIN q
       PROVE  \/ k \in DOMAIN p /\ q[k] = p[k]
              \/ \E x \in DOMAIN asks :
                    k = m + x /\ q[k] = [task |-> i, s |-> tasks[i].s, ask |-> asks[x]]
  BY <1>3, <1>7, <1>8, <1>11
<1>13. \A k \in DOMAIN p : k \in DOMAIN q /\ q[k] = p[k]
  BY <1>7, <1>9
<1>14. ASSUME NEW x \in DOMAIN asks
       PROVE  /\ m + x \in DOMAIN q
              /\ q[m + x] = [task |-> i, s |-> tasks[i].s, ask |-> asks[x]]
  BY <1>3, <1>7, <1>10, <1>11
<1> QED  BY <1>6, <1>12, <1>13, <1>14 DEF Grown

\* The same connection, of the requests it had.
SameRequests(p, i) ==
    \A k \in DOMAIN p : p[k].task # i /\ (p[k].task # 0 => tasks'[p[k].task] = tasks[p[k].task])

LEMMA AskedStill ==
    ASSUME NEW c, NEW r, Asked(c, r), r.task # 0 => tasks'[r.task] = tasks[r.task],
           conn'[c].at = "open" => conn[c].at = "open" /\ conn[c].chats \subseteq conn'[c].chats,
           known \subseteq known'
    PROVE  Asked(c, r)'
  BY DEF Asked, StrandOf, Suits

\* A task that does not wait yet asks for one or more things on a connection.
LEMMA TaskAsks ==
    ASSUME WInv, NEW i \in Slots, NEW c \in Conns, NEW asks \in Seq(Asks), NEW t, NEW q,
           \A d \in Conns : d # c => conn'[d] = conn[d],
           Grown(conn[c].pending, q, i, t.s, asks), conn'[c].pending = q,
           conn'[c].at = conn[c].at, conn'[c].chats = conn[c].chats,
           tasks'[i] = t, \A j \in Slots : j # i => tasks'[j] = tasks[j],
           UNCHANGED <<generation, known>>,
           tasks[i].at # "waiting", t.at = "waiting", t.on = c, t.waits # {},
           WellAsked(t, asks)
    PROVE  Linked'
<1>1. PICK p \in Seq(Requests) : p = conn[c].pending
  BY DEF WInv, Shape, WiresShape, ConnSet
<1>2. Grown(p, q, i, t.s, asks)
  BY <1>1
<1>3. i # 0
  BY DEF Slots
<1>4. SameRequests(p, i) /\ \A k \in DOMAIN p : Asked(c, p[k])
  <2>1. ASSUME NEW k \in DOMAIN p
        PROVE  /\ Asked(c, p[k]) /\ p[k].task # i
               /\ p[k].task # 0 => tasks'[p[k].task] = tasks[p[k].task]
    <3>1. /\ Asked(c, p[k])
          /\ p[k].task # 0 => p[k].task \in Slots /\ tasks[p[k].task].at = "waiting"
      BY <1>1, <2>1, RequestOf
    <3> QED  BY <1>3, <3>1
  <2> QED  BY <2>1 DEF SameRequests
<1>5. ASSUME NEW k \in DOMAIN q PROVE Asked(c, q[k])'
  <2>1. CASE k \in DOMAIN p /\ q[k] = p[k]
    <3>1. PICK r : r = p[k] /\ r = q[k]
      BY <2>1
    <3>2. Asked(c, r) /\ (r.task # 0 => tasks'[r.task] = tasks[r.task])
      BY <1>4, <2>1, <3>1 DEF SameRequests
    <3>3. Asked(c, r)'
      BY <3>2, AskedStill
    <3> QED  BY <3>1, <3>3
  <2>2. ASSUME NEW n \in DOMAIN asks, q[k] = [task |-> i, s |-> t.s, ask |-> asks[n]]
        PROVE  Asked(c, q[k])'
    <3>1. PICK r : r = q[k]
      OBVIOUS
    <3>2. r.task = i /\ r.s = t.s /\ r.ask = asks[n]
      BY <2>2, <3>1
    <3>3. /\ StrandOf(t.kind, r.ask) \in t.waits /\ Suits(t.kind, r.ask)
          /\ r.ask # "chat" /\ (t.kind = "submit" => r.ask = "create")
          /\ r.ask \in {"session", "changeset", "create"} => r.s \in Sessions
      BY <3>2 DEF WellAsked
    <3>4. Asked(c, r)'
      BY <1>3, <3>2, <3>3 DEF Asked, StrandOf, Suits
    <3> QED  BY <3>1, <3>4
  <2> QED  BY <1>2, <2>1, <2>2 DEF Grown
<1>6. Apart(q)'
  <2>s. SUFFICES ASSUME NEW j \in DOMAIN q, NEW k \in DOMAIN q, j # k,
                      q[j].task = q[k].task, q[j].task # 0
               PROVE  StrandOf(tasks'[q[j].task].kind, q[j].ask)
                        # StrandOf(tasks'[q[j].task].kind, q[k].ask)
    BY DEF Apart, StrandOf
  <2>0. /\ Apart(p)
        /\ \/ k \in DOMAIN p /\ q[k] = p[k]
           \/ \E n \in DOMAIN asks :
                 k = Len(p) + n /\ q[k] = [task |-> i, s |-> t.s, ask |-> asks[n]]
        /\ \/ j \in DOMAIN p /\ q[j] = p[j]
           \/ \E n \in DOMAIN asks :
                 j = Len(p) + n /\ q[j] = [task |-> i, s |-> t.s, ask |-> asks[n]]
    BY <1>1, <1>2 DEF Grown, WInv, TInv, Linked, AskedOnce
  <2>1. CASE j \in DOMAIN p /\ q[j] = p[j] /\ k \in DOMAIN p /\ q[k] = p[k]
    <3>1. tasks'[p[j].task] = tasks[p[j].task]
      BY <1>4, <2>s, <2>1 DEF SameRequests
    <3> QED  BY <2>s, <2>0, <2>1, <3>1 DEF Apart
  <2>2. CASE /\ \E n \in DOMAIN asks : j = Len(p) + n /\ q[j] = [task |-> i, s |-> t.s, ask |-> asks[n]]
             /\ \E n \in DOMAIN asks : k = Len(p) + n /\ q[k] = [task |-> i, s |-> t.s, ask |-> asks[n]]
    <3>1. PICK m \in DOMAIN asks : j = Len(p) + m /\ q[j] = [task |-> i, s |-> t.s, ask |-> asks[m]]
      BY <2>2
    <3>2. PICK n \in DOMAIN asks : k = Len(p) + n /\ q[k] = [task |-> i, s |-> t.s, ask |-> asks[n]]
      BY <2>2
    <3>3. m # n
      BY <2>s, <3>1, <3>2
    <3>4. q[j].task = i /\ q[j].ask = asks[m] /\ q[k].ask = asks[n]
      BY <3>1, <3>2
    <3>5. StrandOf(t.kind, asks[m]) # StrandOf(t.kind, asks[n])
      BY <3>3 DEF WellAsked
    <3> QED  BY <3>4, <3>5
  <2>3. \A n : [task |-> i, s |-> t.s, ask |-> asks[n]].task = i
    OBVIOUS
  <2>4. \A k_1 \in DOMAIN p : p[k_1].task # i
    BY <1>4 DEF SameRequests
  <2> QED  BY <2>s, <2>0, <2>1, <2>2, <2>3, <2>4
<1>7. ASSUME NEW j \in Slots, tasks'[j].at = "waiting", tasks'[j].on = c PROVE Answerable(j)'
  <2>1. CASE j # i
    <3>1. tasks'[j] = tasks[j]
      BY <2>1
    <3>2. Answerable(j)
      BY DEF WInv, TInv, Linked, WaitersAnswerable
    <3>3. \A k \in DOMAIN p : k \in DOMAIN q /\ q[k] = p[k]
      BY <1>2 DEF Grown
    <3> QED  BY <1>1, <1>7, <3>1, <3>2, <3>3 DEF Answerable, StrandOf
  <2>2. CASE j = i
    <3>1. ASSUME NEW x \in t.waits
          PROVE  \E k \in DOMAIN q : q[k].task = i /\ StrandOf(t.kind, q[k].ask) = x
      <4>1. PICK n \in DOMAIN asks : StrandOf(t.kind, asks[n]) = x
        BY <3>1 DEF WellAsked
      <4>2. Len(p) + n \in DOMAIN q /\ q[Len(p) + n] = [task |-> i, s |-> t.s, ask |-> asks[n]]
        BY <1>2 DEF Grown
      <4>3. q[Len(p) + n].task = i /\ q[Len(p) + n].ask = asks[n]
        BY <4>2
      <4> QED  BY <4>1, <4>2, <4>3
    <3> QED  BY <2>2, <3>1 DEF Answerable, StrandOf
  <2> QED  BY <2>1, <2>2
<1>8. Only(c, i, q)
  BY DEF Only
<1> QED  BY <1>5, <1>6, <1>7, <1>8, OneChanges

\* Request k of q was, or has taken the place of, request g[k] of p.
Moves(p, q, g) ==
    /\ g \in [DOMAIN q -> DOMAIN p] /\ \A j, k \in DOMAIN q : j # k => g[j] # g[k]
    /\ \A k \in DOMAIN q : q[k].task # 0 =>
          /\ q[k].task = p[g[k]].task
          /\ StrandOf(tasks'[q[k].task].kind, q[k].ask)
               = StrandOf(tasks[q[k].task].kind, p[g[k]].ask)

\* Requests that are left, or have taken the place of others, are apart.
LEMMA ApartMoved ==
    ASSUME NEW p, NEW q, NEW g, Apart(p), Moves(p, q, g)
    PROVE  Apart(q)'
<1> USE DEF Moves
<1> SUFFICES ASSUME NEW j \in DOMAIN q, NEW k \in DOMAIN q, j # k,
                    q[j].task = q[k].task, q[j].task # 0
             PROVE  StrandOf(tasks'[q[j].task].kind, q[j].ask)
                      # StrandOf(tasks'[q[j].task].kind, q[k].ask)
  BY DEF Apart, StrandOf
<1>1. PICK a \in DOMAIN p, b \in DOMAIN p : a = g[j] /\ b = g[k] /\ a # b
  OBVIOUS
<1>2. p[a].task = q[j].task /\ p[b].task = q[j].task
  BY <1>1
<1>3. StrandOf(tasks[q[j].task].kind, p[a].ask) # StrandOf(tasks[q[j].task].kind, p[b].ask)
  BY <1>1, <1>2 DEF Apart
<1> QED  BY <1>1, <1>3

\* Every strand that t, task j, waits for has a request in u.
Covered(j, t, u) ==
    \A x \in t.waits : \E k \in DOMAIN u : u[k].task = j /\ StrandOf(t.kind, u[k].ask) = x

LEMMA AnswerableBy ==
    ASSUME NEW j, NEW t, NEW u, tasks'[j] = t, conn'[t.on].pending = u, t.waits # {},
           Covered(j, t, u)
    PROVE  Answerable(j)'
  BY DEF Answerable, StrandOf, Covered

\* u is p without its first request.
Shifted(p, u) ==
    /\ 1 \in DOMAIN p /\ p[1] = Head(p)
    /\ \A k \in DOMAIN u : k \in Nat /\ k + 1 \in DOMAIN p /\ k + 1 # 1 /\ u[k] = p[k + 1]
    /\ \A k \in DOMAIN p : k # 1 => \E n \in DOMAIN u : k = n + 1 /\ u[n] = p[k]

LEMMA TailShifted ==
    ASSUME NEW S, NEW p \in Seq(S), p # <<>>, NEW u, u = Tail(p)
    PROVE  Shifted(p, u) /\ u \in Seq(S)
<1>1. PICK m : m = Len(p)
  OBVIOUS
<1>2. PICK n : n = Len(u)
  OBVIOUS
<1>3. u \in Seq(S) /\ n = m - 1 /\ \A k \in 1..n : u[k] = p[k + 1]
  BY <1>1, <1>2, HeadTailProperties
<1>4. m \in Nat \ {0} /\ DOMAIN p = 1..m /\ DOMAIN u = 1..n
  BY <1>1, <1>2, <1>3, EmptySeq, LenProperties
<1>5. 1 \in DOMAIN p /\ p[1] = Head(p)
  BY <1>4
<1>6. \A k \in 1..n : k \in Nat /\ k + 1 \in 1..m /\ k + 1 # 1
  BY <1>3, <1>4
<1>7. ASSUME NEW k \in 1..m, k # 1 PROVE \E x \in 1..n : k = x + 1 /\ u[x] = p[k]
  <2>1. k - 1 \in 1..n /\ k = (k - 1) + 1
    BY <1>3, <1>4, <1>7
  <2> QED  BY <1>3, <2>1
<1> QED  BY <1>3, <1>4, <1>5, <1>6, <1>7 DEF Shifted

\* Task t becomes n when strand x is through.
OneLess(t, n, x) ==
    \/ /\ n.at = "waiting" /\ n.kind = t.kind /\ n.on = t.on /\ n.s = t.s
       /\ n.waits = t.waits \ {x} /\ n.waits # {}
    \/ n.at # "waiting" /\ t.waits \ {x} = {}

\* The oldest request of a connection is answered, and its task goes on.
LEMMA RequestAnswered ==
    ASSUME WInv, NEW c \in Conns, NEW p, p = conn[c].pending, p # <<>>,
           NEW q, q = Tail(p), conn'[c].pending = q, \A d \in Conns : d # c => conn'[d] = conn[d],
           conn'[c].at = conn[c].at, conn'[c].chats = conn[c].chats,
           NEW i, i = Asker(c), \A j \in Slots : j # i => tasks'[j] = tasks[j],
           i # 0 => OneLess(tasks[i], tasks'[i], StrandOf(tasks[i].kind, Head(p).ask)),
           UNCHANGED <<generation, known>>
    PROVE  Linked'
<1>1. p \in Seq(Requests) /\ (i # 0 => i \in Slots) /\ p[1].task = i
  BY OldestRequest, TailShifted DEF Asker, Shifted
<1>2. Shifted(p, q) /\ q \in Seq(Requests)
  BY <1>1, TailShifted
<1>3. Apart(p) /\ \A k \in DOMAIN p :
         /\ Asked(c, p[k])
         /\ p[k].task # 0 => p[k].task \in Slots /\ tasks[p[k].task].at = "waiting"
                             /\ tasks[p[k].task].on = c
  BY RequestOf DEF WInv, TInv, Linked, AskedOnce
<1>4. ASSUME NEW k \in DOMAIN q, q[k].task # 0
      PROVE  /\ tasks'[q[k].task].at = "waiting" /\ tasks'[q[k].task].on = c
             /\ tasks'[q[k].task].kind = tasks[q[k].task].kind
             /\ tasks'[q[k].task].s = tasks[q[k].task].s
             /\ StrandOf(tasks[q[k].task].kind, q[k].ask) \in tasks'[q[k].task].waits
  <2>1. k + 1 \in DOMAIN p /\ k + 1 # 1 /\ q[k] = p[k + 1] /\ 1 \in DOMAIN p /\ p[1] = Head(p)
    BY <1>2 DEF Shifted
  <2>2. PICK m \in DOMAIN p : m # 1 /\ q[k] = p[m]
    BY <2>1
  <2>3. /\ Asked(c, q[k]) /\ q[k].task \in Slots
        /\ tasks[q[k].task].at = "waiting" /\ tasks[q[k].task].on = c
    BY <1>3, <1>4, <2>2
  <2>4. StrandOf(tasks[q[k].task].kind, q[k].ask) \in tasks[q[k].task].waits
    BY <1>4, <2>3 DEF Asked
  <2>5. CASE q[k].task # i
    BY <2>3, <2>4, <2>5
  <2>6. CASE q[k].task = i
    <3>1. StrandOf(tasks[i].kind, q[k].ask) # StrandOf(tasks[i].kind, Head(p).ask)
      BY <1>1, <1>3, <1>4, <2>1, <2>2, <2>6 DEF Apart
    <3> QED  BY <1>4, <2>3, <2>4, <2>6, <3>1 DEF OneLess
  <2> QED  BY <2>5, <2>6
<1>5. ASSUME NEW k \in DOMAIN q PROVE Asked(c, q[k])'
  <2>1. PICK r : r = q[k]
    OBVIOUS
  <2>2. Asked(c, r)
    BY <1>2, <1>3, <2>1 DEF Shifted
  <2>3. Asked(c, r)'
    BY <1>4, <2>1, <2>2 DEF Asked, StrandOf, Suits
  <2> QED  BY <2>1, <2>3
<1>6. Apart(q)'
  <2> DEFINE g == [k \in DOMAIN q |-> k + 1]
  <2>1. g \in [DOMAIN q -> DOMAIN p] /\ \A j, k \in DOMAIN q : j # k => g[j] # g[k]
    BY <1>2 DEF Shifted
  <2>2. ASSUME NEW k \in DOMAIN q, q[k].task # 0
        PROVE  /\ q[k].task = p[g[k]].task
               /\ StrandOf(tasks'[q[k].task].kind, q[k].ask)
                    = StrandOf(tasks[q[k].task].kind, p[g[k]].ask)
    BY <1>2, <1>4, <2>2 DEF Shifted
  <2>3. Moves(p, q, g)
    <3> HIDE DEF g
    <3> QED  BY <2>1, <2>2 DEF Moves
  <2> QED  BY <1>3, <2>3, ApartMoved
<1>7. ASSUME NEW j \in Slots, tasks'[j].at = "waiting", tasks'[j].on = c PROVE Answerable(j)'
  <2>1. Answerable(j)
    BY DEF WInv, TInv, Linked, WaitersAnswerable
  <2>2. \A k \in DOMAIN p : k # 1 => \E n \in DOMAIN q : q[n] = p[k]
    BY <1>2 DEF Shifted
  <2>3. CASE j # i
    <3>1. tasks'[j] = tasks[j]
      BY <2>3
    <3>2. ASSUME NEW x \in tasks[j].waits
          PROVE  \E k \in DOMAIN q : q[k].task = j /\ StrandOf(tasks[j].kind, q[k].ask) = x
      <4>1. PICK k \in DOMAIN p : p[k].task = j /\ StrandOf(tasks[j].kind, p[k].ask) = x
        BY <1>7, <2>1, <3>1 DEF Answerable
      <4>2. k # 1
        BY <1>1, <2>3, <4>1
      <4> QED  BY <2>2, <4>1, <4>2
    <3>3. tasks[j].waits # {}
      BY <1>7, <2>1, <3>1 DEF Answerable
    <3>4. PICK t : t = tasks[j]
      OBVIOUS
    <3>5. Covered(j, t, q)
      BY <3>2, <3>4 DEF Covered
    <3>6. tasks'[j] = t /\ conn'[t.on].pending = q /\ t.waits # {}
      BY <1>7, <3>1, <3>3, <3>4
    <3> QED  BY <3>5, <3>6, AnswerableBy
  <2>4. CASE j = i
    <3>0. i # 0 /\ i \in Slots
      BY <1>1, <2>4 DEF Slots
    <3>1. /\ tasks'[i].kind = tasks[i].kind /\ tasks'[i].on = tasks[i].on /\ tasks'[i].waits # {}
          /\ tasks'[i].waits = tasks[i].waits \ {StrandOf(tasks[i].kind, Head(p).ask)}
      BY <1>7, <2>4, <3>0 DEF OneLess
    <3>2. ASSUME NEW x \in tasks'[i].waits
          PROVE  \E k \in DOMAIN q : q[k].task = i /\ StrandOf(tasks[i].kind, q[k].ask) = x
      <4>0. x \in tasks[i].waits /\ x # StrandOf(tasks[i].kind, Head(p).ask)
        BY <3>1, <3>2
      <4>t. tasks[i].at = "waiting" /\ tasks[i].on = c
        BY <1>1, <1>2, <1>3, <3>0 DEF Shifted
      <4>1. PICK k \in DOMAIN p : p[k].task = i /\ StrandOf(tasks[i].kind, p[k].ask) = x
        BY <2>1, <2>4, <4>0, <4>t DEF Answerable
      <4>2. k # 1
        BY <1>2, <4>0, <4>1 DEF Shifted
      <4> QED  BY <2>2, <4>1, <4>2
    <3>4. PICK t : t = tasks'[i]
      OBVIOUS
    <3>5. Covered(j, t, q)
      BY <2>4, <3>1, <3>2, <3>4 DEF Covered
    <3>6. tasks'[j] = t /\ conn'[t.on].pending = q /\ t.waits # {}
      BY <1>7, <2>4, <3>1, <3>4
    <3> QED  BY <3>5, <3>6, AnswerableBy
  <2> QED  BY <2>3, <2>4
<1>8. i \in Slots => /\ tasks[i].at = "waiting" => tasks[i].on = c
                     /\ tasks'[i].at = "waiting" => tasks'[i].on = c
  <2>1. i \in Slots => i # 0 /\ tasks[i].on = c
    BY <1>1, <1>2, <1>3 DEF Shifted, Slots
  <2> QED  BY <2>1 DEF OneLess
<1>9. Only(c, i, q)
  BY <1>8 DEF Only
<1> QED  BY <1>5, <1>6, <1>7, <1>9, OneChanges

\* q is p with e, in place of the first request, at the end.
Turned(p, q, e) ==
    /\ 1 \in DOMAIN p /\ p[1] = Head(p)
    /\ \E m \in Nat :
          /\ \A k \in DOMAIN q :
                k \in Nat /\ IF k = m THEN q[k] = e
                             ELSE k + 1 \in DOMAIN p /\ k + 1 # 1 /\ q[k] = p[k + 1]
          /\ m \in DOMAIN q
    /\ \A k \in DOMAIN p : k # 1 => \E n \in DOMAIN q : q[n] = p[k]

LEMMA AppendTurned ==
    ASSUME NEW S, NEW p \in Seq(S), p # <<>>, NEW e \in S, NEW q, q = Append(Tail(p), e)
    PROVE  Turned(p, q, e) /\ q \in Seq(S)
<1>1. PICK u : u = Tail(p)
  OBVIOUS
<1>2. Shifted(p, u) /\ u \in Seq(S)
  BY <1>1, TailShifted
<1>3. PICK n : n = Len(u)
  OBVIOUS
<1>4. n \in Nat /\ DOMAIN u = 1..n
  BY <1>2, <1>3, LenProperties
<1>5. /\ q \in Seq(S) /\ DOMAIN q = 1..(n + 1) /\ q[n + 1] = e
      /\ \A k \in 1..n : q[k] = u[k]
  <2>1. q \in Seq(S) /\ Len(q) = n + 1 /\ q[n + 1] = e /\ \A k \in 1..n : q[k] = u[k]
    BY <1>1, <1>2, <1>3, AppendProperties
  <2> QED  BY <2>1, LenProperties
<1>6. \A k \in DOMAIN q : k \in Nat /\ (k # n + 1 => k \in DOMAIN u /\ q[k] = u[k])
  BY <1>4, <1>5
<1>7. \A k \in DOMAIN q : k \in Nat /\ IF k = n + 1 THEN q[k] = e
                                       ELSE k + 1 \in DOMAIN p /\ k + 1 # 1 /\ q[k] = p[k + 1]
  BY <1>2, <1>5, <1>6 DEF Shifted
<1>8. \A k \in DOMAIN p : k # 1 => \E x \in DOMAIN q : q[x] = p[k]
  <2>1. ASSUME NEW k \in DOMAIN p, k # 1 PROVE \E x \in DOMAIN q : q[x] = p[k]
    <3>1. PICK x \in DOMAIN u : u[x] = p[k]
      BY <1>2, <2>1 DEF Shifted
    <3>2. x \in DOMAIN q /\ q[x] = u[x]
      BY <1>4, <1>5, <3>1
    <3> QED  BY <3>1, <3>2
  <2> QED  BY <2>1
<1>9. n + 1 \in Nat /\ n + 1 \in DOMAIN q
  BY <1>4, <1>5
<1> QED  BY <1>2, <1>5, <1>7, <1>8, <1>9 DEF Turned, Shifted

\* The oldest request is answered, and its task asks on for the same strand.
LEMMA RequestFollowed ==
    ASSUME WInv, NEW c \in Conns, NEW p, p = conn[c].pending, p # <<>>,
           NEW e \in Requests, e.task = Head(p).task, Asked(c, e)',
           e.task # 0 => StrandOf(tasks[e.task].kind, e.ask)
                           = StrandOf(tasks[e.task].kind, Head(p).ask),
           NEW q, q = Append(Tail(p), e), conn'[c].pending = q,
           \A d \in Conns : d # c => conn'[d] = conn[d],
           conn'[c].at = conn[c].at, conn[c].chats \subseteq conn'[c].chats,
           UNCHANGED <<generation, tasks>>, known \subseteq known'
    PROVE  Linked'
<1>1. p \in Seq(Requests)
  BY OldestRequest
<1>2. Turned(p, q, e) /\ q \in Seq(Requests)
  BY <1>1, AppendTurned
<1>3. Apart(p) /\ \A k \in DOMAIN p : Asked(c, p[k])
  BY DEF WInv, TInv, Linked, AskedOnce, RequestsAsked
<1>4. PICK m \in Nat :
         /\ \A k \in DOMAIN q :
               k \in Nat /\ IF k = m THEN q[k] = e
                            ELSE k + 1 \in DOMAIN p /\ k + 1 # 1 /\ q[k] = p[k + 1]
         /\ m \in DOMAIN q
  BY <1>2 DEF Turned
<1>5. ASSUME NEW k \in DOMAIN q PROVE Asked(c, q[k])'
  <2>1. PICK r : r = q[k]
    OBVIOUS
  <2>2. CASE k = m
    <3>1. r = e
      BY <1>4, <2>1, <2>2
    <3> QED  BY <2>1, <3>1
  <2>3. CASE k # m
    <3>1. Asked(c, r)
      BY <1>3, <1>4, <2>1, <2>3
    <3>2. Asked(c, r)'
      BY <3>1, AskedStill
    <3> QED  BY <2>1, <3>2
  <2> QED  BY <2>2, <2>3
<1>6. Apart(q)'
  <2> DEFINE g == [k \in DOMAIN q |-> IF k = m THEN 1 ELSE k + 1]
  <2>1. g \in [DOMAIN q -> DOMAIN p]
    BY <1>2, <1>4 DEF Turned
  <2>2. \A j, k \in DOMAIN q : j # k => g[j] # g[k]
    BY <1>4
  <2>3. ASSUME NEW k \in DOMAIN q, q[k].task # 0
        PROVE  /\ q[k].task = p[g[k]].task
               /\ StrandOf(tasks'[q[k].task].kind, q[k].ask)
                    = StrandOf(tasks[q[k].task].kind, p[g[k]].ask)
    <3>1. CASE k = m
      <4>1. q[k] = e /\ g[k] = 1 /\ p[1] = Head(p)
        BY <1>2, <1>4, <3>1 DEF Turned
      <4> QED  BY <2>3, <4>1
    <3>2. CASE k # m
      <4>1. g[k] = k + 1 /\ q[k] = p[k + 1]
        BY <1>4, <3>2
      <4> QED  BY <4>1
    <3> QED  BY <3>1, <3>2
  <2>4. Moves(p, q, g)
    <3> HIDE DEF g
    <3> QED  BY <2>1, <2>2, <2>3 DEF Moves
  <2> QED  BY <1>3, <2>4, ApartMoved
<1>7. ASSUME NEW j \in Slots, tasks'[j].at = "waiting", tasks'[j].on = c PROVE Answerable(j)'
  <2>1. PICK t : t = tasks[j]
    OBVIOUS
  <2>2. Answerable(j) /\ t.at = "waiting" /\ t.on = c
    BY <1>7, <2>1 DEF WInv, TInv, Linked, WaitersAnswerable
  <2>3. ASSUME NEW x \in t.waits
        PROVE  \E k \in DOMAIN q : q[k].task = j /\ StrandOf(t.kind, q[k].ask) = x
    <3>1. PICK k \in DOMAIN p : p[k].task = j /\ StrandOf(t.kind, p[k].ask) = x
      BY <2>1, <2>2, <2>3 DEF Answerable
    <3>2. CASE k # 1
      BY <1>2, <3>1, <3>2 DEF Turned
    <3>3. CASE k = 1
      <4>1. j # 0
        BY DEF Slots
      <4>2. q[m] = e /\ m \in DOMAIN q /\ p[1] = Head(p)
        BY <1>2, <1>4 DEF Turned
      <4>3. e.task = j /\ StrandOf(t.kind, e.ask) = x
        BY <2>1, <3>1, <3>3, <4>1, <4>2
      <4> QED  BY <4>2, <4>3
    <3> QED  BY <3>2, <3>3
  <2>4. Covered(j, t, q)
    BY <2>3 DEF Covered
  <2>5. tasks'[j] = t /\ conn'[t.on].pending = q /\ t.waits # {}
    BY <2>1, <2>2 DEF Answerable
  <2> QED  BY <2>4, <2>5, AnswerableBy
<1>8. Only(c, 0, q)
  BY DEF Only, Slots
<1> QED  BY <1>5, <1>6, <1>7, <1>8, OneChanges

\* The oldest request is refused, and what its task still asks for there is
\* asked for by nobody.
Orphaned(p, i) ==
    [k \in DOMAIN Tail(p) |-> IF Tail(p)[k].task = i
                              THEN [Tail(p)[k] EXCEPT !.task = 0] ELSE Tail(p)[k]]

LEMMA RequestsOrphaned ==
    ASSUME WInv, NEW c \in Conns, NEW p, p = conn[c].pending, p # <<>>,
           NEW i \in Slots, i = Asker(c), Head(p).ask # "terminals",
           NEW q, q = Orphaned(p, i),
           conn'[c].pending = q, \A d \in Conns : d # c => conn'[d] = conn[d],
           conn'[c].at = conn[c].at, conn'[c].chats = conn[c].chats,
           tasks'[i] = Idle, \A j \in Slots : j # i => tasks'[j] = tasks[j],
           UNCHANGED <<generation, known>>
    PROVE  Linked'
<1>1. p \in Seq(Requests) /\ p[1].task = i /\ i # 0 /\ p[1] = Head(p) /\ 1 \in DOMAIN p
  BY OldestRequest, TailShifted DEF Asker, Shifted, Slots
<1>2. PICK u : u = Tail(p)
  OBVIOUS
<1>3. Shifted(p, u) /\ u \in Seq(Requests)
  BY <1>1, <1>2, TailShifted
<1>4. DOMAIN q = DOMAIN u
      /\ \A k \in DOMAIN u : q[k] = IF u[k].task = i THEN [u[k] EXCEPT !.task = 0] ELSE u[k]
  BY <1>2 DEF Orphaned
<1>5. Apart(p) /\ \A k \in DOMAIN p :
         /\ p[k] \in Requests /\ Asked(c, p[k])
         /\ p[k].task # 0 => tasks[p[k].task].at = "waiting" /\ tasks[p[k].task].on = c
                             /\ p[k].task \in Slots
  BY RequestOf DEF WInv, TInv, Linked, AskedOnce
<1>6. ASSUME NEW k \in DOMAIN u, u[k].task = i
      PROVE  u[k].ask # "create" /\ q[k].task = 0 /\ q[k].ask = u[k].ask /\ q[k].s = u[k].s
  <2>1. k + 1 \in DOMAIN p /\ k + 1 # 1 /\ u[k] = p[k + 1] /\ p[k + 1].task = p[1].task
    BY <1>1, <1>3, <1>6 DEF Shifted
  <2>2. StrandOf(tasks[i].kind, Head(p).ask) # StrandOf(tasks[i].kind, u[k].ask)
    BY <1>1, <1>5, <2>1 DEF Apart
  <2>3. Suits(tasks[i].kind, Head(p).ask) /\ Suits(tasks[i].kind, u[k].ask)
    BY <1>1, <1>5, <1>6, <2>1 DEF Asked
  <2>4. u[k] \in Requests
    BY <1>5, <2>1
  <2>5. u[k].ask # "create"
    BY <2>2, <2>3 DEF Suits, StrandOf
  <2>6. q[k] = [u[k] EXCEPT !.task = 0]
    BY <1>4, <1>6
  <2> QED  BY <2>4, <2>5, <2>6 DEF Requests
<1>7. ASSUME NEW k \in DOMAIN u, u[k].task # i
      PROVE  q[k] = u[k] /\ (u[k].task # 0 => tasks'[u[k].task] = tasks[u[k].task]
                                              /\ u[k].task \in Slots)
  <2>1. k + 1 \in DOMAIN p /\ u[k] = p[k + 1]
    BY <1>3 DEF Shifted
  <2> QED  BY <1>4, <1>5, <1>7, <2>1
<1>8. ASSUME NEW k \in DOMAIN q PROVE Asked(c, q[k])'
  <2>0. k \in DOMAIN u
    BY <1>4
  <2>1. PICK r : r = u[k]
    OBVIOUS
  <2>2. Asked(c, r)
    BY <1>3, <1>5, <2>0, <2>1 DEF Shifted
  <2>3. PICK e : e = q[k]
    OBVIOUS
  <2>4. CASE r.task = i
    <3>1. e.task = 0 /\ e.ask # "create" /\ e.ask = r.ask /\ e.s = r.s
      BY <1>6, <2>0, <2>1, <2>3, <2>4
    <3>2. Asked(c, e)'
      BY <2>2, <3>1 DEF Asked
    <3> QED  BY <2>3, <3>2
  <2>5. CASE r.task # i
    <3>1. e = r /\ (r.task # 0 => tasks'[r.task] = tasks[r.task])
      BY <1>7, <2>0, <2>1, <2>3, <2>5
    <3>2. Asked(c, r)'
      BY <2>2, <3>1, AskedStill
    <3> QED  BY <2>3, <3>1, <3>2
  <2> QED  BY <2>4, <2>5
<1>9. Apart(q)'
  <2> DEFINE g == [k \in DOMAIN q |-> k + 1]
  <2>1. g \in [DOMAIN q -> DOMAIN p] /\ \A j, k \in DOMAIN q : j # k => g[j] # g[k]
    BY <1>3, <1>4 DEF Shifted
  <2>2. ASSUME NEW k \in DOMAIN q, q[k].task # 0
        PROVE  /\ q[k].task = p[g[k]].task
               /\ StrandOf(tasks'[q[k].task].kind, q[k].ask)
                    = StrandOf(tasks[q[k].task].kind, p[g[k]].ask)
    <3>1. k \in DOMAIN u /\ u[k] = p[k + 1] /\ g[k] = k + 1
      BY <1>3, <1>4 DEF Shifted
    <3>2. u[k].task # i
      BY <1>6, <2>2, <3>1
    <3>3. q[k] = u[k] /\ tasks'[u[k].task] = tasks[u[k].task]
      BY <1>7, <2>2, <3>1, <3>2
    <3> QED  BY <3>1, <3>3
  <2>3. Moves(p, q, g)
    <3> HIDE DEF g
    <3> QED  BY <2>1, <2>2 DEF Moves
  <2> QED  BY <1>5, <2>3, ApartMoved
<1>10. ASSUME NEW j \in Slots, tasks'[j].at = "waiting", tasks'[j].on = c PROVE Answerable(j)'
  <2>1. PICK t : t = tasks[j]
    OBVIOUS
  <2>2. j # i
    BY <1>10, IdleTask
  <2>3. Answerable(j) /\ t.at = "waiting" /\ t.on = c /\ tasks'[j] = t
    BY <1>10, <2>1, <2>2 DEF WInv, TInv, Linked, WaitersAnswerable
  <2>4. ASSUME NEW x \in t.waits
        PROVE  \E k \in DOMAIN q : q[k].task = j /\ StrandOf(t.kind, q[k].ask) = x
    <3>1. PICK k \in DOMAIN p : p[k].task = j /\ StrandOf(t.kind, p[k].ask) = x
      BY <2>1, <2>3, <2>4 DEF Answerable
    <3>2. k # 1
      BY <1>1, <2>2, <3>1
    <3>3. PICK n \in DOMAIN u : u[n] = p[k]
      BY <1>3, <3>2 DEF Shifted
    <3>4. n \in DOMAIN q /\ q[n] = u[n]
      BY <1>4, <1>7, <2>2, <3>1, <3>3
    <3> QED  BY <3>1, <3>3, <3>4
  <2>5. Covered(j, t, q)
    BY <2>4 DEF Covered
  <2>6. conn'[t.on].pending = q /\ t.waits # {}
    BY <2>1, <2>3 DEF Answerable
  <2> QED  BY <2>3, <2>5, <2>6, AnswerableBy
<1>11. Only(c, i, q)
  <2>1. tasks[i].on = c
    BY <1>1, <1>5
  <2> QED  BY <2>1, IdleTask DEF Only
<1> QED  BY <1>8, <1>9, <1>10, <1>11, OneChanges

----------------------------------------------------------------------------
(* The rest of the invariant, and the actions one by one.                  *)

\* Connections keep their phases and task i changes, or none: i is 0 then.
Kept(i) ==
    /\ UNCHANGED <<generation, current>> /\ known \subseteq known'
    /\ \A c \in Conns :
          /\ conn'[c].ws = conn[c].ws /\ conn'[c].at = conn[c].at
          /\ conn[c].at = "connecting" => conn'[c].pending = conn[c].pending
    /\ \A j \in Slots : j # i => tasks'[j] = tasks[j]

\* A task that changes goes on before the next event only if it did before,
\* or if all had settled.
InTurn(i, t) ==
    t.at \in {"attach", "attached"} => Settled \/ (i \in Ready /\ t.ws = tasks[i].ws)

Steady == TasksGo /\ OneWorkspace /\ NothingAsked

LEMMA OneGoesOn ==
    ASSUME WInv, NEW i, NEW t, Kept(i),
           i \in Slots => tasks'[i] = t /\ Going(t)' /\ InTurn(i, t)
    PROVE  Steady'
<1>1. ASSUME NEW j \in Slots PROVE Going(tasks[j])'
  <2>1. CASE j = i
    BY <2>1 DEF Going
  <2>2. CASE j # i
    <3>1. PICK u : u = tasks[j]
      OBVIOUS
    <3>2. Going(u)
      BY <3>1 DEF WInv, TInv, TasksGo
    <3>3. Going(u)'
      BY <3>2 DEF Kept, Going, Conns
    <3> QED  BY <2>2, <3>1, <3>3 DEF Kept, Going
  <2> QED  BY <2>1, <2>2
<1>2. OneWorkspace'
  <2>1. \A j, k \in Ready : tasks[j].ws = tasks[k].ws
    BY DEF WInv, TInv, OneWorkspace
  <2>2. ASSUME NEW j \in Slots, tasks'[j].at \in {"attach", "attached"},
               NEW k \in Slots, tasks'[k].at \in {"attach", "attached"}
        PROVE  tasks'[j].ws = tasks'[k].ws
    BY <2>1, <2>2 DEF Kept, InTurn, Settled, Ready
  <2> QED  BY <2>2 DEF OneWorkspace, Ready
<1>3. NothingAsked'
  BY DEF WInv, TInv, NothingAsked, Kept, Conns
<1> QED  BY <1>1, <1>2, <1>3 DEF Steady, TasksGo

\* Nothing of this changes.
LEMMA SameTInv == ASSUME WInv, UNCHANGED <<wires, tasks, known>> PROVE TInv'
<1>1. Steady'
  <2>1. Kept(0) /\ 0 \notin Slots
    BY DEF Kept, wires, Slots
  <2> QED  BY <2>1, OneGoesOn
<1>2. Linked'
  BY TasksChange DEF wires, Conns
<1> QED  BY <1>1, <1>2 DEF TInv, Steady

\* A command begins.
LEMMA BeginTInv ==
    ASSUME WInv, NEW t \in TaskSet, Begin(t), UNCHANGED <<wires, known>>, t.at = "attach", Going(t)
    PROVE  TInv'
<1>1. PICK i \in Slots : tasks[i] = Idle /\ tasks' = [tasks EXCEPT ![i] = t]
  BY DEF Begin, NextFree, Free
<1>2. tasks'[i] = t /\ \A j \in Slots : j # i => tasks'[j] = tasks[j]
  BY <1>1 DEF WInv, Shape, WiresShape
<1>3. Linked'
  BY <1>1, <1>2, IdleTask, TasksChange DEF wires, Conns
<1>4. Steady'
  <2>1. Kept(i)
    BY <1>2 DEF Kept, wires
  <2>2. Going(t)'
    BY DEF wires, Going, Conns
  <2>3. InTurn(i, t)
    BY DEF InTurn, Begin
  <2> QED  BY <1>2, <2>1, <2>2, <2>3, OneGoesOn
<1> QED  BY <1>3, <1>4 DEF TInv, Steady

\* The open connection can be asked.
LEMMA CurrentOpen ==
    ASSUME WInv, current # 0
    PROVE  current \in Conns /\ conn[current].at = "open" /\ conn[current].ws \in Workspaces
<1>1. current \in Conns
  BY DEF WInv, ConnInv, Numbered, UsesNewest, Conns
<1> QED  BY <1>1 DEF WInv, ConnInv, AtMostOneClient, Shape, WiresShape, ConnSet

\* A task that had a turn asks for things on the connection in use.
LEMMA AskTInv ==
    ASSUME WInv, NEW i \in Slots, tasks[i].at # "waiting", current # 0,
           NEW asks \in Seq(Asks), Request(current, i, asks),
           NEW t, tasks'[i] = t, \A j \in Slots : j # i => tasks'[j] = tasks[j],
           t.s = tasks[i].s, t.at = "waiting", t.on = current, t.waits # {}, t.kind # "none",
           t.ws = conn[current].ws,
           t.kind \in {"open", "show", "send", "submit"} => t.s \in Sessions /\ Home[t.s] = t.ws,
           t.kind \in {"open", "show", "send"} => t.s \in known,
           WellAsked(t, asks), UNCHANGED <<generation, current, known>>
    PROVE  TInv'
<1>1. PICK c \in Conns : c = current /\ conn[c].at = "open" /\ conn[c].ws \in Workspaces
  BY CurrentOpen
<1>2. conn' = [conn EXCEPT ![c].pending = @ \o Put(i, asks)]
  BY <1>1 DEF Request, Put
<1>3. PICK q : q = conn[c].pending \o Put(i, asks)
  OBVIOUS
<1>4. conn[c].pending \in Seq(Requests)
  BY DEF WInv, Shape, WiresShape, ConnSet
<1>5. Grown(conn[c].pending, q, i, t.s, asks)
  BY <1>3, <1>4, PutAfter DEF WInv
<1>6. /\ \A d \in Conns : d # c => conn'[d] = conn[d]
      /\ conn'[c].pending = q /\ conn'[c].at = conn[c].at /\ conn'[c].chats = conn[c].chats
      /\ conn'[c].ws = conn[c].ws
  <2> HIDE DEF Put
  <2> QED  BY <1>2, <1>3 DEF WInv, Shape, WiresShape, ConnSet
<1>7. Linked'
  BY <1>1, <1>5, <1>6, TaskAsks
<1>8. Steady'
  <2>1. Kept(i)
    BY <1>1, <1>6 DEF Kept
  <2>2. Going(t)'
    BY <1>1, <1>6 DEF Going, Conns
  <2>3. InTurn(i, t)
    BY DEF InTurn
  <2> QED  BY <2>1, <2>2, <2>3, OneGoesOn
<1> QED  BY <1>7, <1>8 DEF TInv, Steady

LEMMA UserTInv == ASSUME WInv, User PROVE TInv'
<1>0. Shape /\ AttachmentAssumption
  BY AttachmentAssumption DEF WInv
<1>1. ASSUME NEW s \in Sessions, Open(s) PROVE TInv'
  <2>1. PICK t : t = Task("open", Home[s], s)
    OBVIOUS
  <2>2. /\ t \in TaskSet /\ t.kind = "open" /\ t.ws = Home[s] /\ t.s = s /\ t.at = "attach"
        /\ t.waits = {} /\ t.load = 0 /\ Home[s] \in Workspaces
    BY <1>0, <2>1, NewTask DEF Kinds
  <2>3. Going(t)
    BY <1>1, <2>2 DEF Going, Open
  <2>4. Begin(t) /\ UNCHANGED <<wires, known>>
    BY <1>1, <2>1 DEF Open
  <2> QED  BY <2>2, <2>3, <2>4, BeginTInv
<1>2. ASSUME NEW s \in Sessions, Submit(s) PROVE TInv'
  <2>1. PICK t, u : /\ u = Task("submit", selected, s)
                    /\ t = [u EXCEPT !.text = untitled[selected]]
    OBVIOUS
  <2>2. selected \in Workspaces /\ untitled[selected] \in Nat /\ Home[s] = selected
    BY <1>0, <1>2 DEF Submit, Shape, ScreenShape, DraftsShape
  <2>3. /\ u \in TaskSet /\ u.kind = "submit" /\ u.ws = selected /\ u.s = s /\ u.at = "attach"
        /\ u.waits = {} /\ u.load = 0
    BY <2>1, <2>2, NewTask DEF Kinds
  <2>4. /\ t \in TaskSet /\ t.kind = "submit" /\ t.ws = selected /\ t.s = s /\ t.at = "attach"
        /\ t.waits = {} /\ t.load = 0
    BY <2>1, <2>2, <2>3 DEF TaskSet
  <2>5. Going(t)
    BY <2>2, <2>4 DEF Going
  <2>6. Begin(t) /\ UNCHANGED <<wires, known>>
    BY <1>2, <2>1 DEF Submit
  <2> QED  BY <2>4, <2>5, <2>6, BeginTInv
<1>3. ASSUME NEW w \in Workspaces, Pick(w) PROVE TInv'
  <2>1. PICK t : t = Task("pick", w, None)
    OBVIOUS
  <2>2. /\ t \in TaskSet /\ t.kind = "pick" /\ t.ws = w /\ t.at = "attach"
        /\ t.waits = {} /\ t.load = 0
    BY <2>1, NewTask DEF Kinds
  <2>3. Going(t)
    BY <2>2 DEF Going
  <2>4. Begin(t) /\ UNCHANGED <<wires, known>>
    BY <1>3, <2>1 DEF Pick
  <2> QED  BY <2>2, <2>3, <2>4, BeginTInv
<1>4. CASE NewSession \/ Type
  BY <1>4, SameTInv DEF NewSession, Type
<1>5. CASE Send
  <2>1. PICK t : t = Task("send", Home[active], active)
    OBVIOUS
  <2>2. active \in Sessions /\ active \in known /\ Home[active] \in Workspaces
    BY <1>0, <1>5 DEF Send, Shape, ScreenShape
  <2>3. /\ t \in TaskSet /\ t.kind = "send" /\ t.ws = Home[active] /\ t.s = active
        /\ t.at = "attach" /\ t.waits = {} /\ t.load = 0
    BY <2>1, <2>2, NewTask DEF Kinds
  <2>4. Going(t)
    BY <2>2, <2>3 DEF Going
  <2>5. Begin(t) /\ UNCHANGED <<wires, known>>
    BY <1>5, <2>1 DEF Send
  <2> QED  BY <2>3, <2>4, <2>5, BeginTInv
<1>6. CASE Refresh
  <2>1. PICK w : w = conn[current].ws
    OBVIOUS
  <2>2. PICK t : t = [Idle EXCEPT !.kind = "refresh", !.ws = w, !.at = "waiting",
                                  !.on = current, !.waits = {"files"}, !.load = loads[w] + 1]
    OBVIOUS
  <2>3. PICK i \in Slots : /\ tasks[i] = Idle /\ tasks' = [tasks EXCEPT ![i] = t]
                           /\ Request(current, i, <<"files">>)
    BY <1>6, <2>1, <2>2 DEF Refresh, NextFree, Free
  <2>4. tasks'[i] = t /\ \A j \in Slots : j # i => tasks'[j] = tasks[j]
    BY <2>3, <1>0 DEF Shape, WiresShape
  <2>5. PICK asks : asks = <<"files">>
    OBVIOUS
  <2>6. asks \in Seq(Asks) /\ DOMAIN asks = {1} /\ asks[1] = "files"
    BY <2>5 DEF Asks
  <2>7. /\ t.s = None /\ t.at = "waiting" /\ t.on = current /\ t.waits = {"files"}
        /\ t.kind = "refresh" /\ t.ws = w
    BY <2>2 DEF Idle
  <2>8. WellAsked(t, asks)
    BY <2>6, <2>7 DEF WellAsked, StrandOf, Suits
  <2>9. current # 0 /\ UNCHANGED <<generation, current, known>>
    BY <1>6 DEF Refresh
  <2> QED
      BY <2>1, <2>3, <2>4, <2>5, <2>6, <2>7, <2>8, <2>9, IdleTask, AskTInv
<1> QED  BY <1>1, <1>2, <1>3, <1>4, <1>5, <1>6 DEF User

\* A task that goes on has the connection in use.
LEMMA Attaching ==
    ASSUME WInv, NEW i \in Slots, tasks[i].at = "attached"
    PROVE  /\ tasks[i].on = current /\ current # 0 /\ current \in Conns
           /\ conn[current].ws = tasks[i].ws /\ tasks[i].ws \in Workspaces
  BY TaskFields DEF Going, Conns

\* A task that goes on ends.
LEMMA DoneTInv ==
    ASSUME WInv, NEW i \in Slots, tasks[i].at = "attached", tasks' = [tasks EXCEPT ![i] = Idle],
           UNCHANGED <<wires, known>>
    PROVE  TInv'
<1>1. tasks'[i] = Idle /\ \A j \in Slots : j # i => tasks'[j] = tasks[j]
  BY DEF WInv, Shape, WiresShape
<1>2. Linked'
  BY <1>1, IdleTask, TasksChange DEF wires, Conns
<1>3. Steady'
  <2>1. Kept(i)
    BY <1>1 DEF Kept, wires
  <2>2. Going(Idle)' /\ InTurn(i, Idle)
    BY IdleTask DEF Going, InTurn
  <2> QED  BY <1>1, <2>1, <2>2, OneGoesOn
<1> QED  BY <1>2, <1>3 DEF TInv, Steady

LEMMA ReuseTInv == ASSUME WInv, NEW i \in Slots, Reuse(i) PROVE TInv'
<1>1. PICK t : t = [tasks[i] EXCEPT !.at = "attached", !.on = current]
  OBVIOUS
<1>2. tasks'[i] = t /\ \A j \in Slots : j # i => tasks'[j] = tasks[j]
  BY <1>1 DEF Reuse, WInv, Shape, WiresShape
<1>3. tasks[i] \in TaskSet /\ Going(tasks[i]) /\ tasks[i].at = "attach"
  BY TaskFields DEF Reuse
<1>4. /\ t.at = "attached" /\ t.on = current /\ t.kind = tasks[i].kind /\ t.ws = tasks[i].ws
      /\ t.s = tasks[i].s /\ t.waits = tasks[i].waits /\ t.load = tasks[i].load
  BY <1>1, <1>3 DEF TaskSet
<1>5. current \in Conns /\ conn[current].ws = tasks[i].ws
  BY CurrentOpen DEF Reuse, Attached
<1>6. Linked'
  BY <1>2, <1>3, <1>4, TasksChange DEF Reuse, wires, Conns
<1>7. Steady'
  <2>1. Kept(i)
    BY <1>2 DEF Kept, Reuse, wires
  <2>2. Going(t)
    BY <1>3, <1>4, <1>5 DEF Going
  <2>3. Going(t)'
    BY <2>2 DEF Going, Reuse, wires, Conns
  <2>4. InTurn(i, t)
    BY <1>3, <1>4 DEF InTurn, Ready
  <2> QED  BY <1>2, <2>1, <2>3, <2>4, OneGoesOn
<1> QED  BY <1>6, <1>7 DEF TInv, Steady

\* Tasks that go on together are about one workspace, so the attachment that
\* is given up is of use to none of them.
LEMMA ConnectTInv == ASSUME WInv, NEW i \in Slots, Connect(i) PROVE TInv'
<1>1. PICK n : n = generation + 1
  OBVIOUS
<1>2. PICK t : t = [tasks[i] EXCEPT !.at = "connecting", !.on = n]
  OBVIOUS
<1>3. tasks'[i] = t /\ \A j \in Slots : j # i => tasks'[j] = tasks[j]
  BY <1>1, <1>2 DEF Connect, WInv, Shape, WiresShape
<1>4. tasks[i] \in TaskSet /\ Going(tasks[i]) /\ tasks[i].at = "attach" /\ generation \in Nat
      /\ generation' = n /\ current' = 0 /\ UNCHANGED known
  BY <1>1, TaskFields DEF Connect, WInv, ConnInv, Numbered
<1>5. /\ t.at = "connecting" /\ t.on = n /\ t.kind = tasks[i].kind /\ t.ws = tasks[i].ws
      /\ t.s = tasks[i].s /\ t.waits = tasks[i].waits /\ t.load = tasks[i].load
  BY <1>2, <1>4 DEF TaskSet
<1>6. Conns' = 1..n /\ n \in Nat /\ Conns \subseteq Conns' /\ n \in Conns' /\ n \notin Conns
      /\ \A c \in Conns' : c # n => c \in Conns
  BY <1>1, <1>4 DEF Conns
<1>7. /\ conn'[n].ws = t.ws /\ conn'[n].at = "connecting" /\ conn'[n].pending = <<>>
  <2>1. conn'[n] = [ws |-> tasks[i].ws, at |-> "connecting", chats |-> {}, pending |-> <<>>]
    BY <1>1, <1>4, <1>6 DEF Connect
  <2> QED  BY <1>5, <2>1
<1>8. ASSUME NEW c \in Conns
      PROVE  /\ conn'[c].ws = conn[c].ws /\ conn'[c].pending = conn[c].pending
             /\ c # current => conn'[c] = conn[c]
             /\ c = current => conn'[c].at = "closing"
  <2>1. conn'[c] = IF c = current THEN [conn[c] EXCEPT !.at = "closing", !.chats = {}] ELSE conn[c]
    BY <1>1, <1>4, <1>6, <1>8 DEF Connect
  <2>2. conn[c] \in ConnSet
    BY DEF WInv, Shape, WiresShape
  <2> QED  BY <2>1, <2>2 DEF ConnSet
<1>9. Linked'
  <2>1. ASSUME NEW c \in Conns'
        PROVE  \/ conn'[c].pending = <<>>
               \/ /\ c \in Conns /\ conn'[c].pending = conn[c].pending
                  /\ conn'[c].at = "open" =>
                        conn[c].at = "open" /\ conn[c].chats \subseteq conn'[c].chats
    BY <1>6, <1>7, <1>8
  <2>2. ASSUME NEW j \in Slots, tasks'[j].at = "waiting"
        PROVE  conn'[tasks[j].on].pending = conn[tasks[j].on].pending
    <3>1. tasks'[j] = tasks[j] /\ tasks[j].at = "waiting"
      BY <1>3, <1>5, <2>2
    <3> QED  BY <1>8, <3>1, TaskFields
  <2>3. \A j \in Slots : tasks'[j] # tasks[j] =>
           tasks'[j].at # "waiting" /\ tasks[j].at # "waiting"
    BY <1>3, <1>4, <1>5
  <2> QED  BY <1>4, <1>6, <2>1, <2>2, <2>3, TasksChange
<1>10. ASSUME NEW j \in Slots PROVE Going(tasks[j])'
  <2>1. CASE j = i
    <3>1. Going(t)'
      BY <1>4, <1>5, <1>6, <1>7 DEF Going
    <3> QED  BY <1>3, <2>1, <3>1 DEF Going
  <2>2. CASE j # i
    <3>1. PICK u : u = tasks[j]
      OBVIOUS
    <3>2. Going(u) /\ (u.at \in {"connecting", "attached", "waiting"} => u.on \in Conns)
      BY <3>1, TaskFields
    <3>3. u.at # "attached"
      <4>1. u.at = "attached" => Attached(tasks[i].ws)
        <5>1. ASSUME u.at = "attached" PROVE Attached(tasks[i].ws)
          <6>1. current # 0 /\ conn[current].ws = u.ws
            BY <3>1, <5>1, Attaching
          <6>2. u.ws = tasks[i].ws
            BY <1>4, <3>1, <5>1 DEF WInv, TInv, OneWorkspace, Ready
          <6> QED  BY <6>1, <6>2 DEF Attached
        <5> QED  BY <5>1
      <4> QED  BY <4>1 DEF Connect
    <3>4. u.at = "connecting" => conn'[u.on].at = "connecting"
      <4>1. u.at = "connecting" => u.on # current
        BY <3>2, CurrentOpen DEF Going, Conns
      <4> QED  BY <1>8, <3>2, <4>1 DEF Going
    <3>5. Going(u)'
      BY <1>4, <1>6, <1>8, <3>2, <3>3, <3>4 DEF Going
    <3> QED  BY <1>3, <2>2, <3>1, <3>5 DEF Going
  <2> QED  BY <2>1, <2>2
<1>11. OneWorkspace'
  BY <1>3, <1>5 DEF WInv, TInv, OneWorkspace, Ready
<1>12. NothingAsked'
  <2>1. ASSUME NEW c \in Conns', conn'[c].at = "connecting" PROVE conn'[c].pending = <<>>
    BY <1>6, <1>7, <1>8, <2>1 DEF WInv, TInv, NothingAsked
  <2> QED  BY <2>1 DEF NothingAsked
<1> QED  BY <1>9, <1>10, <1>11, <1>12 DEF TInv, TasksGo

\* A task that goes on asks for its session.
LEMMA AskChatTInv ==
    ASSUME WInv, NEW i \in Slots, tasks[i].at = "attached",
           NEW x \in {"session", "create"}, Request(tasks[i].on, i, <<x>>),
           tasks[i].kind \in {"show", "send", "submit"}, tasks[i].kind = "submit" <=> x = "create",
           NEW n, tasks' = [tasks EXCEPT ![i] =
                              [@ EXCEPT !.at = "waiting", !.waits = {"chat"}, !.text = n]],
           UNCHANGED <<generation, current, known>>
    PROVE  TInv'
<1>1. PICK t : t = [tasks[i] EXCEPT !.at = "waiting", !.waits = {"chat"}, !.text = n]
  OBVIOUS
<1>2. tasks'[i] = t /\ \A j \in Slots : j # i => tasks'[j] = tasks[j]
  BY <1>1 DEF WInv, Shape, WiresShape
<1>3. tasks[i] \in TaskSet /\ Going(tasks[i])
  BY TaskFields
<1>4. /\ t.at = "waiting" /\ t.on = current /\ t.kind = tasks[i].kind /\ t.ws = tasks[i].ws
      /\ t.s = tasks[i].s /\ t.waits = {"chat"}
  BY <1>1, <1>3, Attaching DEF TaskSet
<1>5. PICK asks : asks = <<x>>
  OBVIOUS
<1>6. asks \in Seq(Asks) /\ DOMAIN asks = {1} /\ asks[1] = x
  BY <1>5 DEF Asks
<1>7. t.s \in Sessions /\ Home[t.s] = t.ws /\ (t.kind # "submit" => t.s \in known)
  BY <1>3, <1>4 DEF Going
<1>8. WellAsked(t, asks)
  BY <1>4, <1>6, <1>7 DEF WellAsked, StrandOf, Suits
<1>9. current # 0 /\ conn[current].ws = t.ws /\ Request(current, i, asks)
  BY <1>4, <1>5, Attaching
<1> QED  BY <1>2, <1>4, <1>6, <1>7, <1>8, <1>9, AskTInv

\* q asks for the files, after what a and before what b asks for.
Parts(a, b, m, n, q) ==
    /\ q \in Seq(Asks)
    /\ \A k \in DOMAIN q : \/ k = m + 1 /\ q[k] = "files"
                           \/ k = 1 /\ m = 1 /\ q[k] = a[1]
                           \/ k = m + 2 /\ n = 1 /\ q[k] = b[1]
    /\ m + 1 \in DOMAIN q /\ q[m + 1] = "files"
    /\ m = 1 => 1 \in DOMAIN q /\ q[1] = a[1]
    /\ n = 1 => m + 2 \in DOMAIN q /\ q[m + 2] = b[1]

LEMMA Joined ==
    ASSUME NEW a \in Seq(Asks), NEW b \in Seq(Asks), NEW m, m = Len(a), NEW n, n = Len(b),
           m \in {0, 1}, n \in {0, 1}, NEW f, f = <<"files">>, NEW u, u = a \o f,
           NEW q, q = u \o b
    PROVE  Parts(a, b, m, n, q)
<1>2. f \in Seq(Asks) /\ Len(f) = 1 /\ f[1] = "files"
  BY DEF Asks
<1>4. u \in Seq(Asks) /\ Len(u) = m + 1
  BY <1>2, ConcatProperties
<1>5. /\ DOMAIN u = 1..(m + 1) /\ \A k \in 1..(m + 1) : u[k] = IF k <= m THEN a[k] ELSE f[k - m]
  BY <1>2, ConcatAt
<1>6. u[m + 1] = "files" /\ (m = 1 => u[1] = a[1])
  BY <1>2, <1>5
<1>8. q \in Seq(Asks)
  BY <1>4, ConcatProperties
<1>9. /\ DOMAIN q = 1..(m + 1 + n)
      /\ \A k \in 1..(m + 1 + n) : q[k] = IF k <= m + 1 THEN u[k] ELSE b[k - (m + 1)]
  <2>1. PICK l : l = m + 1 /\ l = Len(u)
    BY <1>4
  <2>2. /\ DOMAIN q = 1..(l + n) /\ \A k \in 1..(l + n) : q[k] = IF k <= l THEN u[k] ELSE b[k - l]
    BY <1>4, <2>1, ConcatAt
  <2> QED  BY <2>1, <2>2
<1>10. q[m + 1] = "files" /\ (m = 1 => q[1] = a[1]) /\ (n = 1 => q[m + 2] = b[1])
  BY <1>6, <1>9
<1>11. \A k \in DOMAIN q : k = m + 1 \/ (k = 1 /\ m = 1) \/ (k = m + 2 /\ n = 1)
  BY <1>9
<1>12. m + 1 \in DOMAIN q /\ (m = 1 => 1 \in DOMAIN q) /\ (n = 1 => m + 2 \in DOMAIN q)
  BY <1>9
<1> QED  BY <1>8, <1>10, <1>11, <1>12 DEF Parts

LEMMA SelectTInv == ASSUME WInv, NEW i \in Slots, Select(i) PROVE TInv'
<1> DEFINE u == tasks[i]
           changes == IF u.kind = "pick" THEN <<>>
                      ELSE IF Subscribed(u.on, u.s) THEN <<"changeset">> ELSE <<"session">>
           terminals == IF u.ws \in WithTerminals THEN <<"terminals">> ELSE <<>>
<1>1. PICK a, b, f, v, waits, asks, m, n :
         /\ a = changes /\ b = terminals /\ f = <<"files">> /\ v = a \o f /\ asks = v \o b
         /\ m = Len(a) /\ n = Len(b)
         /\ waits = {"files"} \cup (IF u.kind = "open" THEN {"changes"} ELSE {}) \cup Range(b)
  OBVIOUS
<1>2. /\ u \in TaskSet /\ Going(u) /\ u.at = "attached" /\ u.kind \in {"open", "pick"}
      /\ u.on = current /\ current # 0 /\ current \in Conns
      /\ conn[current].ws = u.ws /\ u.ws \in Workspaces
  BY TaskFields, Attaching DEF Select, Holds
<1>3. BeginLoad(i, waits) /\ Request(u.on, i, asks) /\ UNCHANGED <<generation, current, known>>
  BY <1>1 DEF Select
<1>k. \A x \in Asks : <<x>> \in Seq(Asks) /\ Len(<<x>>) = 1 /\ <<x>>[1] = x
  OBVIOUS
<1>e. <<>> \in Seq(Asks) /\ Len(<<>>) = 0
  BY EmptySeq
<1>4. /\ a \in Seq(Asks) /\ m \in {0, 1} /\ (m = 1 <=> u.kind = "open")
      /\ m = 1 => a[1] \in {"changeset", "session"}
  <2>1. a \in {<<>>, <<"changeset">>, <<"session">>} /\ (a = <<>> <=> u.kind # "open")
    BY <1>1, <1>2
  <2>2. {"changeset", "session"} \subseteq Asks
    BY DEF Asks
  <2> QED  BY <1>1, <1>k, <1>e, <2>1, <2>2
<1>5. b \in Seq(Asks) /\ n \in {0, 1} /\ (n = 1 => b[1] = "terminals")
  <2>1. b \in {<<>>, <<"terminals">>} /\ "terminals" \in Asks
    BY <1>1 DEF Asks
  <2> QED  BY <1>1, <1>k, <1>e, <2>1
<1>6. waits = {"files"} \cup (IF u.kind = "open" THEN {"changes"} ELSE {})
                        \cup (IF n = 1 THEN {"terminals"} ELSE {})
  <2>1. Range(b) = IF n = 1 THEN {"terminals"} ELSE {}
    <3>1. CASE u.ws \in WithTerminals
      BY <1>1, <3>1 DEF Range
    <3>2. CASE u.ws \notin WithTerminals
      BY <1>1, <3>2 DEF Range
    <3> QED  BY <3>1, <3>2
  <2> QED  BY <1>1, <2>1
<1>7. PICK l : tasks' = [tasks EXCEPT ![i] = [@ EXCEPT !.at = "waiting", !.waits = waits, !.load = l]]
  <2>1. PICK l : tasks' = [tasks EXCEPT ![i].at = "waiting", ![i].waits = waits, ![i].load = l]
    BY <1>3 DEF BeginLoad
  <2> QED  BY <2>1
<1>8. PICK t : t = [u EXCEPT !.at = "waiting", !.waits = waits, !.load = l]
  OBVIOUS
<1>9. tasks'[i] = t /\ \A j \in Slots : j # i => tasks'[j] = tasks[j]
  BY <1>7, <1>8 DEF WInv, Shape, WiresShape
<1>10. /\ t.at = "waiting" /\ t.on = current /\ t.kind = u.kind /\ t.ws = u.ws /\ t.s = u.s
       /\ t.waits = waits
  BY <1>2, <1>8 DEF TaskSet
<1>11. u.kind = "open" => u.s \in Sessions /\ Home[u.s] = u.ws /\ u.s \in known
  BY <1>2 DEF Going
<1>j. Parts(a, b, m, n, asks)
  <2>1. m = Len(a) /\ n = Len(b) /\ f = <<"files">> /\ v = a \o f /\ asks = v \o b
    BY <1>1
  <2>2. a \in Seq(Asks) /\ b \in Seq(Asks) /\ m \in {0, 1} /\ n \in {0, 1}
    BY <1>4, <1>5
  <2> HIDE DEF u, changes, terminals
  <2> QED  BY <2>1, <2>2, Joined
<1>12. /\ asks \in Seq(Asks)
       /\ \A k \in DOMAIN asks : \/ k = m + 1 /\ asks[k] = "files"
                                 \/ k = 1 /\ m = 1 /\ asks[k] = a[1]
                                 \/ k = m + 2 /\ n = 1 /\ asks[k] = b[1]
       /\ m + 1 \in DOMAIN asks /\ asks[m + 1] = "files"
       /\ m = 1 => 1 \in DOMAIN asks /\ asks[1] = a[1]
       /\ n = 1 => m + 2 \in DOMAIN asks /\ asks[m + 2] = b[1]
  BY <1>j DEF Parts
<1>13. WellAsked(t, asks)
  <2>1. ASSUME NEW k \in DOMAIN asks
        PROVE  \/ k = m + 1 /\ asks[k] = "files" /\ StrandOf(t.kind, asks[k]) = "files"
               \/ /\ k = 1 /\ m = 1 /\ asks[k] \in {"changeset", "session"} /\ t.kind = "open"
                  /\ StrandOf(t.kind, asks[k]) = "changes"
               \/ k = m + 2 /\ n = 1 /\ asks[k] = "terminals"
                  /\ StrandOf(t.kind, asks[k]) = "terminals"
    BY <1>4, <1>5, <1>10, <1>12 DEF StrandOf
  <2>2. ASSUME NEW k \in DOMAIN asks
        PROVE  /\ StrandOf(t.kind, asks[k]) \in t.waits /\ Suits(t.kind, asks[k])
               /\ asks[k] # "chat" /\ (t.kind = "submit" => asks[k] = "create")
               /\ asks[k] \in {"session", "changeset", "create"} => t.s \in Sessions
    <3>1. t.kind \in {"open", "pick"}
      BY <1>2, <1>10
    <3> QED  BY <2>1, <3>1, <1>6, <1>10, <1>11 DEF Suits
  <2>3. \A j, k \in DOMAIN asks : j # k => StrandOf(t.kind, asks[j]) # StrandOf(t.kind, asks[k])
    BY <2>1
  <2>4. ASSUME NEW x \in t.waits PROVE \E k \in DOMAIN asks : StrandOf(t.kind, asks[k]) = x
    <3>1. x = "files" \/ (x = "changes" /\ m = 1) \/ (x = "terminals" /\ n = 1)
      BY <1>4, <1>6, <1>10, <2>4
    <3> QED  BY <1>4, <1>5, <1>10, <1>12, <3>1 DEF StrandOf
  <2> QED  BY <2>2, <2>3, <2>4 DEF WellAsked
<1>14. tasks[i].at # "waiting" /\ t.s = tasks[i].s /\ t.waits # {} /\ t.kind # "none"
       /\ Request(current, i, asks) /\ t.kind \in {"open", "pick"} /\ t.ws = conn[current].ws
  BY <1>2, <1>3, <1>6, <1>10
<1> HIDE DEF u
<1> QED
    BY <1>2, <1>3, <1>9, <1>10, <1>11, <1>12, <1>13, <1>14, AskTInv

LEMMA GoOnTInv == ASSUME WInv, NEW i \in Slots, GoOn(i) PROVE TInv'
<1>1. CASE Reuse(i) \/ Connect(i) \/ Select(i)
  BY <1>1, ReuseTInv, ConnectTInv, SelectTInv
<1>t. tasks[i] \in TaskSet
  BY TaskFields
<1>2. CASE Show(i)
  <2>1. CASE tasks' = [tasks EXCEPT ![i] = Idle] /\ UNCHANGED conn
    BY <1>2, <2>1, DoneTInv DEF Show, Holds, wires
  <2>2. CASE /\ tasks' = [tasks EXCEPT ![i].at = "waiting", ![i].waits = {"chat"}]
             /\ Request(tasks[i].on, i, <<"session">>)
    <3>1. tasks' = [tasks EXCEPT ![i] =
                      [@ EXCEPT !.at = "waiting", !.waits = {"chat"}, !.text = tasks[i].text]]
      BY <1>t, <2>2 DEF TaskSet
    <3> QED  BY <1>2, <2>2, <3>1, AskChatTInv DEF Show, Holds
  <2> QED  BY <1>2, <2>1, <2>2 DEF Show
<1>3. CASE Compose(i)
  <2>1. CASE tasks' = [tasks EXCEPT ![i] = Idle] /\ UNCHANGED conn
    BY <1>3, <2>1, DoneTInv DEF Compose, Holds, wires
  <2>2. CASE /\ tasks' = [tasks EXCEPT ![i].at = "waiting", ![i].waits = {"chat"},
                                       ![i].text = draft[tasks[i].s]]
             /\ Request(tasks[i].on, i, <<"session">>)
    <3>1. tasks' = [tasks EXCEPT ![i] =
                      [@ EXCEPT !.at = "waiting", !.waits = {"chat"}, !.text = draft[tasks[i].s]]]
      BY <2>2
    <3> QED  BY <1>3, <2>2, <3>1, AskChatTInv DEF Compose, Holds
  <2> QED  BY <1>3, <2>1, <2>2 DEF Compose
<1>4. CASE Create(i)
  <2>1. tasks' = [tasks EXCEPT ![i] =
                    [@ EXCEPT !.at = "waiting", !.waits = {"chat"}, !.text = tasks[i].text]]
    BY <1>4, <1>t DEF Create, TaskSet
  <2> QED  BY <1>4, <2>1, AskChatTInv DEF Create, Holds
<1> QED  BY <1>1, <1>2, <1>3, <1>4 DEF GoOn

\* Task i had waited for connection c or its answers, and is t now.
Released(c, i, t) ==
    /\ tasks[i].at \in {"connecting", "waiting"} /\ tasks[i].on = c
    /\ t.at # "waiting" /\ Going(t)'
    /\ t.at \in {"attach", "attached"} => t.ws = conn[c].ws

LEMMA SocketSteady ==
    ASSUME WInv, Settled, NEW c \in Conns, \A d \in Conns : d # c => conn'[d] = conn[d],
           conn'[c].ws = conn[c].ws, conn'[c].pending = <<>>, UNCHANGED <<generation, known>>,
           \A i \in Slots : \/ /\ tasks'[i] = tasks[i]
                               /\ ~(tasks[i].at \in {"connecting", "waiting"} /\ tasks[i].on = c)
                            \/ \E t : tasks'[i] = t /\ Released(c, i, t)
    PROVE  TInv'
<1>1. Linked'
  <2>1. ASSUME NEW d \in Conns'
        PROVE  \/ conn'[d].pending = <<>>
               \/ /\ d \in Conns /\ conn'[d].pending = conn[d].pending
                  /\ conn'[d].at = "open" =>
                        conn[d].at = "open" /\ conn[d].chats \subseteq conn'[d].chats
    BY DEF Conns
  <2>2. \A i \in Slots : tasks'[i] # tasks[i] =>
           tasks'[i].at # "waiting" /\ (tasks[i].at = "waiting" => conn'[tasks[i].on].pending = <<>>)
    BY DEF Released
  <2>3. ASSUME NEW i \in Slots, tasks'[i].at = "waiting"
        PROVE  conn'[tasks[i].on].pending = conn[tasks[i].on].pending
    <3>1. tasks[i].at = "waiting" /\ tasks[i].on # c
      BY <2>3 DEF Released
    <3>2. tasks[i].on \in Conns
      BY <3>1, TaskFields
    <3> QED  BY <3>1, <3>2
  <2>4. Conns \subseteq Conns' /\ known \subseteq known'
    BY DEF Conns
  <2> QED  BY <2>1, <2>2, <2>3, <2>4, TasksChange
<1>2. ASSUME NEW i \in Slots PROVE Going(tasks[i])'
  <2>1. ASSUME NEW t, tasks'[i] = t, Released(c, i, t) PROVE Going(tasks[i])'
    BY <2>1 DEF Released, Going
  <2>2. CASE /\ tasks'[i] = tasks[i]
             /\ ~(tasks[i].at \in {"connecting", "waiting"} /\ tasks[i].on = c)
    <3>1. PICK u : u = tasks[i]
      OBVIOUS
    <3>2. Going(u) /\ u.at \notin {"attach", "attached"}
          /\ (u.at \in {"connecting", "attached", "waiting"} => u.on \in Conns /\ u.on # c)
      BY <2>2, <3>1, TaskFields DEF Settled, Ready
    <3>3. Going(u)'
      BY <3>2 DEF Going, Conns
    <3> QED  BY <2>2, <3>1, <3>3 DEF Going
  <2> QED  BY <2>1, <2>2
<1>3. OneWorkspace'
  <2>1. ASSUME NEW i \in Slots, tasks'[i].at \in {"attach", "attached"}
        PROVE  tasks'[i].ws = conn[c].ws
    BY <2>1 DEF Settled, Ready, Released
  <2> QED  BY <2>1 DEF OneWorkspace, Ready
<1>4. NothingAsked'
  BY DEF WInv, TInv, NothingAsked, Conns
<1> QED  BY <1>1, <1>2, <1>3, <1>4 DEF TInv, TasksGo

LEMMA SocketTInv == ASSUME WInv, NEW c, Socket(c) PROVE TInv'
<1>1. c \in Conns /\ Settled /\ UNCHANGED <<generation, known>> /\ conn[c] \in ConnSet
  BY DEF Socket, Connected, ConnectFails, SocketClosed, WInv, Shape, WiresShape
<1>2. ASSUME NEW i \in Slots
      PROVE  /\ tasks[i] \in TaskSet /\ Going(tasks[i])
             /\ tasks[i].at \in {"connecting", "waiting"} => conn[tasks[i].on].ws = tasks[i].ws
             /\ tasks[i].at = "connecting" => conn[tasks[i].on].at = "connecting"
  BY TaskFields DEF Going
<1>3. ASSUME NEW i \in Slots, i \in Waiting(c), NEW t, t = Idle PROVE Released(c, i, t)
  BY <1>3, IdleTask DEF Waiting, Released, Going
<1>4. ASSUME NEW x \in {"open", "closing", "closed"}, conn[c].at = "connecting",
             conn' = [conn EXCEPT ![c].at = x]
      PROVE  /\ \A d \in Conns : d # c => conn'[d] = conn[d]
             /\ conn'[c].ws = conn[c].ws /\ conn'[c].pending = <<>> /\ conn'[c].at = x
  <2>1. conn[c].pending = <<>>
    BY <1>1, <1>4 DEF WInv, TInv, NothingAsked
  <2> QED  BY <1>1, <1>4, <2>1 DEF WInv, Shape, WiresShape, ConnSet
<1>5. ASSUME conn[c].at = "connecting", End(Waiting(c))
      PROVE  \A i \in Slots : \/ /\ tasks'[i] = tasks[i]
                                 /\ ~(tasks[i].at \in {"connecting", "waiting"} /\ tasks[i].on = c)
                              \/ \E t : tasks'[i] = t /\ Released(c, i, t)
  <2>1. ASSUME NEW i \in Slots, i \notin Waiting(c), tasks[i].at \in {"connecting", "waiting"}
        PROVE  tasks[i].on # c
    <3>1. CASE tasks[i].at = "connecting"
      BY <2>1, <3>1 DEF Waiting
    <3>2. CASE tasks[i].at = "waiting"
      <4>1. Answerable(i)
        BY DEF WInv, TInv, Linked, WaitersAnswerable
      <4>2. conn[tasks[i].on].pending # <<>>
        BY <3>2, <4>1, EmptySeq DEF Answerable
      <4> QED  BY <1>1, <1>5, <4>2 DEF WInv, TInv, NothingAsked
    <3> QED  BY <2>1, <3>1, <3>2
  <2> QED  BY <1>3, <1>5, <2>1 DEF End
<1>6. CASE Connected(c)
  <2>0. conn[c].at = "connecting"
    BY <1>6 DEF Connected
  <2>1. CASE c = generation
    <3>1. /\ conn' = [conn EXCEPT ![c].at = "open"] /\ current' = c
          /\ tasks' = [i \in Slots |-> IF i \in Waiting(c) THEN [tasks[i] EXCEPT !.at = "attached"]
                                       ELSE tasks[i]]
      BY <1>6, <2>1 DEF Connected
    <3>2. ASSUME NEW i \in Slots, i \in Waiting(c)
          PROVE  \E t : tasks'[i] = t /\ Released(c, i, t)
      <4>1. PICK t : t = [tasks[i] EXCEPT !.at = "attached"]
        OBVIOUS
      <4>2. tasks[i] \in TaskSet /\ Going(tasks[i]) /\ tasks[i].at = "connecting" /\ tasks[i].on = c
        BY <1>2, <3>2 DEF Waiting
      <4>3. /\ t.at = "attached" /\ t.on = c /\ t.kind = tasks[i].kind /\ t.ws = tasks[i].ws
            /\ t.s = tasks[i].s /\ t.waits = tasks[i].waits /\ t.load = tasks[i].load
        BY <4>1, <4>2 DEF TaskSet
      <4>4. conn'[c].ws = conn[c].ws /\ conn[c].ws = t.ws
        BY <1>4, <2>0, <3>1, <4>2, <4>3 DEF Going
      <4>5. Going(t)'
        BY <1>1, <3>1, <4>2, <4>3, <4>4 DEF Going, Conns
      <4>6. Released(c, i, t)
        BY <4>2, <4>3, <4>4, <4>5 DEF Released
      <4>7. tasks'[i] = t
        BY <3>1, <3>2, <4>1
      <4> QED  BY <4>6, <4>7
    <3>3. ASSUME NEW i \in Slots, i \notin Waiting(c)
          PROVE  /\ tasks'[i] = tasks[i]
                 /\ ~(tasks[i].at \in {"connecting", "waiting"} /\ tasks[i].on = c)
      <4>1. CASE tasks[i].at = "waiting"
        <5>1. Answerable(i)
          BY DEF WInv, TInv, Linked, WaitersAnswerable
        <5>2. conn[tasks[i].on].pending # <<>>
          BY <4>1, <5>1, EmptySeq DEF Answerable
        <5>3. tasks[i].on # c
          BY <1>1, <2>0, <5>2 DEF WInv, TInv, NothingAsked
        <5> QED  BY <3>1, <3>3, <5>3
      <4>2. CASE tasks[i].at # "waiting"
        BY <3>1, <3>3, <4>2 DEF Waiting
      <4> QED  BY <4>1, <4>2
    <3>4. \A i \in Slots : \/ /\ tasks'[i] = tasks[i]
                              /\ ~(tasks[i].at \in {"connecting", "waiting"} /\ tasks[i].on = c)
                           \/ \E t : tasks'[i] = t /\ Released(c, i, t)
      BY <3>1, <3>2, <3>3
    <3> QED  BY <1>1, <1>4, <2>0, <3>1, <3>4, SocketSteady
  <2>2. CASE c # generation
    <3>1. conn' = [conn EXCEPT ![c].at = "closing"] /\ End(Waiting(c))
      BY <1>6, <2>2 DEF Connected
    <3> QED  BY <1>1, <1>4, <1>5, <2>0, <3>1, SocketSteady
  <2> QED  BY <2>1, <2>2
<1>7. CASE ConnectFails(c)
  <2>1. conn[c].at = "connecting" /\ conn' = [conn EXCEPT ![c].at = "closed"] /\ End(Waiting(c))
    BY <1>7 DEF ConnectFails
  <2> QED  BY <1>1, <1>4, <1>5, <2>1, SocketSteady
<1>8. CASE SocketClosed(c)
  <2>1. conn[c].at \in {"open", "closing"}
        /\ conn' = [conn EXCEPT ![c].at = "closed", ![c].pending = <<>>, ![c].chats = {}]
    BY <1>8 DEF SocketClosed
  <2>2. PICK asking : /\ asking = {i \in Slots : tasks[i].at = "waiting" /\ tasks[i].on = c}
                      /\ tasks' = [i \in Slots |-> IF i \in asking THEN Rejected(i) ELSE tasks[i]]
    BY <1>8 DEF SocketClosed
  <2>3. /\ \A d \in Conns : d # c => conn'[d] = conn[d]
        /\ conn'[c].ws = conn[c].ws /\ conn'[c].pending = <<>>
    BY <1>1, <2>1 DEF WInv, Shape, WiresShape, ConnSet
  <2>4. ASSUME NEW i \in Slots, i \in asking
        PROVE  \E t : tasks'[i] = t /\ Released(c, i, t)
    <3>1. PICK t : t = Rejected(i)
      OBVIOUS
    <3>2. /\ tasks[i] \in TaskSet /\ Going(tasks[i]) /\ tasks[i].at = "waiting" /\ tasks[i].on = c
          /\ tasks[i].ws = conn[c].ws
      BY <1>2, <2>2, <2>4
    <3>3. \/ t = Idle
          \/ t = Task("show", tasks[i].ws, tasks[i].s) /\ tasks[i].kind = "open"
      BY <3>1 DEF Rejected
    <3>t. tasks'[i] = t
      BY <2>2, <2>4, <3>1
    <3>4. CASE t = Idle
      <4>1. Released(c, i, t)
        BY <3>2, <3>4, IdleTask DEF Released, Going
      <4> QED  BY <3>t, <4>1
    <3>5. CASE t = Task("show", tasks[i].ws, tasks[i].s) /\ tasks[i].kind = "open"
      <4>1. /\ t.at = "attach" /\ t.kind = "show" /\ t.ws = tasks[i].ws /\ t.s = tasks[i].s
            /\ t.waits = {} /\ t.load = 0
        <5>1. "show" \in Kinds /\ tasks[i].ws \in Workspaces \cup {None}
              /\ tasks[i].s \in Sessions \cup {None}
          BY <3>2 DEF Kinds, TaskSet
        <5> QED  BY <3>5, <5>1, NewTask
      <4>2. Going(t)'
        BY <1>1, <3>2, <3>5, <4>1 DEF Going
      <4>3. Released(c, i, t)
        BY <3>2, <4>1, <4>2 DEF Released
      <4> QED  BY <3>t, <4>3
    <3> QED  BY <3>3, <3>4, <3>5
  <2>5. ASSUME NEW i \in Slots, i \notin asking
        PROVE  /\ tasks'[i] = tasks[i]
               /\ ~(tasks[i].at \in {"connecting", "waiting"} /\ tasks[i].on = c)
    BY <1>2, <2>1, <2>2, <2>5
  <2>6. \A i \in Slots : \/ /\ tasks'[i] = tasks[i]
                            /\ ~(tasks[i].at \in {"connecting", "waiting"} /\ tasks[i].on = c)
                         \/ \E t : tasks'[i] = t /\ Released(c, i, t)
    BY <2>2, <2>4, <2>5
  <2> QED  BY <1>1, <2>3, <2>6, SocketSteady
<1> QED  BY <1>6, <1>7, <1>8 DEF Socket

\* The oldest request and what is known of it.
LEMMA HeadAsked ==
    ASSUME WInv, NEW c \in Conns, NEW p, p = conn[c].pending, p # <<>>, NEW i, i = Asker(c),
           NEW r, r = Head(p)
    PROVE  /\ r \in Requests /\ Asked(c, r) /\ r.task = i
           /\ i # 0 => /\ i \in Slots /\ tasks[i] \in TaskSet /\ Going(tasks[i])
                       /\ tasks[i].at = "waiting" /\ tasks[i].on = c
                       /\ tasks[i].ws = conn[c].ws
<1>1. p \in Seq(Requests)
  BY OldestRequest
<1>2. 1 \in DOMAIN p /\ p[1] = r
  BY <1>1, TailShifted DEF Shifted
<1>3. r.task = i
  BY DEF Asker
<1>4. /\ r \in Requests /\ Asked(c, r)
      /\ r.task # 0 => r.task \in Slots /\ tasks[r.task].at = "waiting" /\ tasks[r.task].on = c
  BY <1>2, RequestOf
<1> QED  BY <1>3, <1>4, TaskFields DEF Going

\* The oldest request is answered; its task, if there is one, is n now.
LEMMA AnsweredTInv ==
    ASSUME WInv, Settled, NEW c \in Conns, NEW p, p = conn[c].pending, p # <<>>,
           Answered(c, <<>>), UNCHANGED <<generation, current, known>>,
           NEW i, i = Asker(c), \A j \in Slots : j # i => tasks'[j] = tasks[j],
           NEW n, i # 0 => /\ tasks'[i] = n /\ Going(n)'
                           /\ OneLess(tasks[i], n, StrandOf(tasks[i].kind, Head(p).ask)),
           conn[c].at = "open"
    PROVE  TInv'
<1>1. PICK q : q = Tail(p)
  OBVIOUS
<1>2. conn' = [conn EXCEPT ![c].pending = q]
  BY <1>1, AnsweredForms DEF WInv
<1>3. /\ \A d \in Conns : d # c => conn'[d] = conn[d]
      /\ conn'[c].pending = q /\ conn'[c].at = conn[c].at /\ conn'[c].chats = conn[c].chats
      /\ conn'[c].ws = conn[c].ws
  BY <1>2 DEF WInv, Shape, WiresShape, ConnSet
<1>4. Linked'
  BY <1>1, <1>3, RequestAnswered
<1>5. Kept(i)
  BY <1>3 DEF Kept
<1>6. i \in Slots => i # 0
  BY DEF Slots
<1>7. InTurn(i, n)
  BY DEF InTurn
<1>8. Steady'
  BY <1>5, <1>6, <1>7, OneGoesOn
<1> QED  BY <1>4, <1>8 DEF TInv, Steady

\* The oldest request is answered and followed by e.
FollowedBy(c, e, chats) ==
    conn' = [conn EXCEPT ![c].pending = Append(Tail(@), e), ![c].chats = chats]

LEMMA FollowedTInv ==
    ASSUME WInv, NEW c \in Conns, NEW p, p = conn[c].pending, p # <<>>,
           NEW e \in Requests, e.task = Head(p).task, Asked(c, e)',
           e.task # 0 => StrandOf(tasks[e.task].kind, e.ask)
                           = StrandOf(tasks[e.task].kind, Head(p).ask),
           NEW chats, conn[c].chats \subseteq chats,
           FollowedBy(c, e, chats), UNCHANGED <<generation, current, tasks>>, known \subseteq known', conn[c].at = "open"
    PROVE  TInv'
<1>1. PICK q : q = Append(Tail(p), e)
  OBVIOUS
<1>2. /\ \A d \in Conns : d # c => conn'[d] = conn[d]
      /\ conn'[c].pending = q /\ conn'[c].at = conn[c].at /\ conn'[c].chats = chats
      /\ conn'[c].ws = conn[c].ws
  BY <1>1 DEF FollowedBy, WInv, Shape, WiresShape, ConnSet
<1>3. Linked'
  BY <1>1, <1>2, RequestFollowed
<1>4. Kept(0) /\ 0 \notin Slots
  BY <1>2 DEF Kept, Slots
<1>5. Steady'
  BY <1>4, OneGoesOn
<1> QED  BY <1>3, <1>5 DEF TInv, Steady

\* A strand of task i is through.
LEMMA AfterTInv ==
    ASSUME WInv, Settled, NEW c \in Conns, NEW p, p = conn[c].pending, p # <<>>,
           Answered(c, <<>>), UNCHANGED <<generation, current, known>>,
           NEW i, i = Asker(c), i # 0, NEW x, x = StrandOf(tasks[i].kind, Head(p).ask),
           NEW t \in TaskSet, After(i, t), t.kind = tasks[i].kind, t.at = tasks[i].at,
           t.on = tasks[i].on, t.s = tasks[i].s, t.ws = tasks[i].ws,
           t.waits = tasks[i].waits \ {x}, conn[c].at = "open"
    PROVE  TInv'
<1>1. PICK n : n = IF t.waits # {} THEN t
                   ELSE IF t.kind = "open" THEN Task("show", t.ws, t.s) ELSE Idle
  OBVIOUS
<1>2. /\ i \in Slots /\ tasks[i] \in TaskSet /\ Going(tasks[i]) /\ tasks[i].at = "waiting"
      /\ tasks[i].on = c /\ tasks[i].ws = conn[c].ws
  BY HeadAsked
<1>3. tasks'[i] = n /\ \A j \in Slots : j # i => tasks'[j] = tasks[j]
  BY <1>1, <1>2 DEF After, WInv, Shape, WiresShape
<1>4. conn'[c].ws = conn[c].ws
  <2>1. conn' = [conn EXCEPT ![c].pending = Tail(p)]
    BY AnsweredForms DEF WInv
  <2> QED  BY <2>1 DEF WInv, Shape, WiresShape, ConnSet
<1>5. CASE t.waits # {}
  <2>1. n = t
    BY <1>1, <1>5
  <2>2. Going(n)'
    BY <1>2, <1>4, <2>1 DEF Going, Conns
  <2>3. OneLess(tasks[i], n, x)
    BY <1>2, <1>5, <2>1 DEF OneLess
  <2> QED  BY <1>3, <2>2, <2>3, AnsweredTInv
<1>6. CASE t.waits = {}
  <2>1. n = Idle \/ (n = Task("show", t.ws, t.s) /\ t.kind = "open")
    BY <1>1, <1>6
  <2>2. PICK u : /\ u = Task("show", t.ws, t.s)
                 /\ u.kind = "show" /\ u.ws = t.ws /\ u.s = t.s /\ u.at = "attach"
                 /\ u.waits = {} /\ u.load = 0
    <3>1. PICK k, w, s : /\ k = "show" /\ w = t.ws /\ s = t.s
                         /\ k \in Kinds /\ w \in Workspaces \cup {None} /\ s \in Sessions \cup {None}
      BY DEF TaskSet, Kinds
    <3>2. PICK u : u = Task(k, w, s)
      OBVIOUS
    <3>3. u.kind = k /\ u.ws = w /\ u.s = s /\ u.at = "attach" /\ u.waits = {} /\ u.load = 0
      BY <3>1, <3>2, NewTask
    <3> QED  BY <3>1, <3>2, <3>3
  <2>3. Going(n)'
    <3>1. CASE n = Idle
      BY <3>1, IdleTask DEF Going
    <3>2. CASE n = Task("show", t.ws, t.s) /\ t.kind = "open"
      <4>1. /\ n.kind = "show" /\ n.ws = t.ws /\ n.s = t.s /\ n.at = "attach"
            /\ n.waits = {} /\ n.load = 0
        BY <2>2, <3>2
      <4> QED  BY <1>2, <3>2, <4>1 DEF Going
    <3> QED  BY <2>1, <3>1, <3>2
  <2>4. OneLess(tasks[i], n, x)
    BY <1>6, <2>1, <2>2, IdleTask DEF OneLess
  <2> QED  BY <1>3, <2>3, <2>4, AnsweredTInv
<1> QED  BY <1>5, <1>6

\* A task that asked for its chat waits for nothing else.
LEMMA OnlyTheChat ==
    ASSUME WInv, NEW i \in Slots, tasks[i].at = "waiting",
           tasks[i].kind \in {"show", "send", "submit"}
    PROVE  tasks[i].waits \subseteq {"chat"}
<1>1. Answerable(i) /\ tasks[i].on \in Conns
  BY TaskFields DEF WInv, TInv, Linked, WaitersAnswerable
<1>2. ASSUME NEW x \in tasks[i].waits PROVE x = "chat"
  <2>1. PICK k \in DOMAIN conn[tasks[i].on].pending :
           /\ conn[tasks[i].on].pending[k].task = i
           /\ StrandOf(tasks[i].kind, conn[tasks[i].on].pending[k].ask) = x
    BY <1>1, <1>2 DEF Answerable
  <2>2. Asked(tasks[i].on, conn[tasks[i].on].pending[k]) /\ i # 0
    BY <1>1, RequestOf DEF Slots
  <2> QED  BY <2>1, <2>2 DEF Asked, Suits, StrandOf
<1> QED  BY <1>2

LEMMA AnswerTInv == ASSUME WInv, NEW c, Answer(c) PROVE TInv'
<1>1. PICK p, i, r : p = conn[c].pending /\ i = Asker(c) /\ r = Head(p)
  OBVIOUS
<1>2. /\ c \in Conns /\ p # <<>> /\ Settled /\ UNCHANGED <<generation, current>>
      /\ conn[c].at = "open"
  BY <1>1 DEF Answer, AnswerSession, AnswerChat, AnswerChangeset, AnswerFiles, AnswerTerminals,
              AnswerCreate, Refused, First
<1>3. /\ r \in Requests /\ Asked(c, r) /\ r.task = i
      /\ i # 0 => /\ i \in Slots /\ tasks[i] \in TaskSet /\ Going(tasks[i])
                  /\ tasks[i].at = "waiting" /\ tasks[i].on = c
                  /\ tasks[i].ws = conn[c].ws
  BY <1>1, <1>2, HeadAsked
<1>4. i # 0 => Suits(tasks[i].kind, r.ask)
  BY <1>3 DEF Asked
<1>5. ASSUME NEW y \in Asks, NEW e, e = [r EXCEPT !.ask = y]
      PROVE  e \in Requests /\ e.task = i /\ e.s = r.s /\ e.ask = y
  BY <1>3, <1>5 DEF Requests
<1>6. ASSUME NEW y \in Asks, NEW e, e = [r EXCEPT !.ask = y], Answered(c, <<y>>)
      PROVE  FollowedBy(c, e, conn[c].chats)
  <2>1. conn' = [conn EXCEPT ![c].pending = Append(Tail(p), [Head(p) EXCEPT !.ask = y])]
    BY <1>1, <1>2, <1>6, AnsweredForms DEF WInv
  <2>2. conn' = [conn EXCEPT ![c].pending = Append(Tail(p), e)]
    BY <1>1, <1>6, <2>1
  <2> QED  BY <1>1, <1>2, <2>2 DEF FollowedBy, WInv, Shape, WiresShape, ConnSet
<1>7. CASE AnswerSession(c)
  <2>1. r.ask = "session" /\ UNCHANGED <<tasks, known>>
    BY <1>1, <1>7 DEF AnswerSession, First
  <2>2. PICK chats : chats = conn[c].chats \cup {r.s}
    OBVIOUS
  <2>3. PICK e : e = [r EXCEPT !.ask = "chat"]
    OBVIOUS
  <2>4. e \in Requests /\ e.task = i /\ e.s = r.s /\ e.ask = "chat"
    BY <1>5, <2>3 DEF Asks
  <2>5. FollowedBy(c, e, chats)
    <3>1. conn' = [conn EXCEPT ![c].pending = Append(Tail(@), e), ![c].chats = @ \cup {r.s}]
      BY <1>1, <1>7, <2>3 DEF AnswerSession
    <3> QED  BY <1>2, <2>2, <3>1 DEF FollowedBy, WInv, Shape, WiresShape, ConnSet
  <2>6. Asked(c, e)'
    <3>1. conn'[c].at = conn[c].at /\ conn'[c].chats = chats
      BY <1>2, <2>5 DEF FollowedBy, WInv, Shape, WiresShape, ConnSet
    <3> QED  BY <1>3, <2>1, <2>2, <2>4, <3>1 DEF Asked, StrandOf, Suits
  <2>7. i # 0 => StrandOf(tasks[i].kind, e.ask) = StrandOf(tasks[i].kind, r.ask)
    BY <2>1, <2>4 DEF StrandOf
  <2> QED
      BY <1>1, <1>2, <1>3, <2>1, <2>2, <2>4, <2>5, <2>6, <2>7, FollowedTInv
<1>8. CASE AnswerChat(c)
  <2>1. r.ask = "chat" /\ UNCHANGED known
    BY <1>1, <1>8 DEF AnswerChat, First
  <2>2. CASE i = 0 /\ Answered(c, <<>>) /\ UNCHANGED tasks
    BY <1>1, <1>2, <2>1, <2>2, AnsweredTInv
  <2>3. CASE i # 0 /\ tasks[i].kind = "open" /\ Answered(c, <<"changeset">>) /\ UNCHANGED tasks
    <3>1. PICK e : e = [r EXCEPT !.ask = "changeset"]
      OBVIOUS
    <3>2. e \in Requests /\ e.task = i /\ e.s = r.s /\ e.ask = "changeset"
          /\ FollowedBy(c, e, conn[c].chats)
      BY <1>5, <1>6, <2>3, <3>1 DEF Asks
    <3>3. Asked(c, e)'
      BY <1>3, <2>1, <2>3, <3>2 DEF Asked, StrandOf, Suits
    <3>4. StrandOf(tasks[i].kind, e.ask) = StrandOf(tasks[i].kind, r.ask)
      BY <2>1, <3>2 DEF StrandOf
    <3>5. PICK chats : chats = conn[c].chats
      OBVIOUS
    <3>6. FollowedBy(c, e, chats)
      BY <3>2, <3>5
    <3> QED  BY <1>1, <1>2, <1>3, <2>1, <2>3, <3>2, <3>3, <3>4, <3>5, <3>6, FollowedTInv
  <2>4. CASE /\ i # 0 /\ tasks[i].kind \in {"show", "send", "submit"} /\ Answered(c, <<>>)
             /\ \A j \in Slots : tasks'[j] = IF j = i THEN Idle ELSE tasks[j]
    <3>1. PICK n : n = Idle
      OBVIOUS
    <3>2. tasks[i].waits \ {StrandOf(tasks[i].kind, r.ask)} = {}
      BY <1>3, <2>1, <2>4, OnlyTheChat DEF StrandOf
    <3>3. OneLess(tasks[i], n, StrandOf(tasks[i].kind, r.ask)) /\ tasks'[i] = n
      BY <1>3, <2>4, <3>1, <3>2, IdleTask DEF OneLess
    <3>4. Going(n)'
      BY <3>1, IdleTask DEF Going
    <3>5. \A j \in Slots : j # i => tasks'[j] = tasks[j]
      BY <2>4
    <3> QED  BY <1>1, <1>2, <2>1, <2>4, <3>3, <3>4, <3>5, AnsweredTInv
  <2>5. (tasks' = [tasks EXCEPT ![i] = Idle] \/ End({i})) =>
           \A j \in Slots : tasks'[j] = IF j = i THEN Idle ELSE tasks[j]
    BY DEF End, WInv, Shape, WiresShape
  <2> QED  BY <1>1, <1>8, <2>2, <2>3, <2>4, <2>5 DEF AnswerChat
<1>9. ASSUME NEW x \in {"changeset", "files", "terminals"}, r.ask = x, Answered(c, <<>>),
             UNCHANGED known, NEW t, i # 0, After(i, t), NEW l \in Nat,
             t = [tasks[i] EXCEPT !.waits = @ \ {StrandOf(tasks[i].kind, x)}, !.listing = l]
      PROVE  TInv'
  <2>1. /\ t \in TaskSet /\ t.kind = tasks[i].kind /\ t.at = tasks[i].at /\ t.on = tasks[i].on
        /\ t.s = tasks[i].s /\ t.ws = tasks[i].ws
        /\ t.waits = tasks[i].waits \ {StrandOf(tasks[i].kind, Head(p).ask)}
    BY <1>1, <1>3, <1>9 DEF TaskSet
  <2>2. /\ Answered(c, <<>>) /\ UNCHANGED known /\ i # 0 /\ After(i, t)
    BY <1>9
  <2> QED  BY <1>1, <1>2, <2>1, <2>2, AfterTInv
<1>10. ASSUME Answered(c, <<>>), UNCHANGED known, UNCHANGED tasks, i = 0 PROVE TInv'
  BY <1>1, <1>2, <1>10, AnsweredTInv
<1>11. ASSUME NEW x \in {"changeset", "terminals"}, r.ask = x, Answered(c, <<>>), UNCHANGED known,
              i # 0, After(i, [tasks[i] EXCEPT !.waits = @ \ {IF x = "changeset" THEN "changes" ELSE x}])
       PROVE  TInv'
  <2>1. PICK l \in Nat : l = tasks[i].listing
    BY <1>3, <1>11 DEF TaskSet
  <2>2. StrandOf(tasks[i].kind, x) = IF x = "changeset" THEN "changes" ELSE x
    BY <1>4, <1>11 DEF Suits, StrandOf
  <2>3. PICK t : t = [tasks[i] EXCEPT !.waits = @ \ {IF x = "changeset" THEN "changes" ELSE x}]
    OBVIOUS
  <2>4. t = [tasks[i] EXCEPT !.waits = @ \ {StrandOf(tasks[i].kind, x)}, !.listing = l]
    BY <1>3, <1>11, <2>1, <2>2, <2>3 DEF TaskSet
  <2>5. After(i, t)
    BY <1>11, <2>3
  <2> QED  BY <1>9, <1>11, <2>4, <2>5
<1>12. CASE AnswerChangeset(c)
  <2>1. r.ask = "changeset" /\ Answered(c, <<>>) /\ UNCHANGED known
        /\ (i = 0 => UNCHANGED tasks)
        /\ (i # 0 => After(i, [tasks[i] EXCEPT !.waits = @ \ {"changes"}]))
    BY <1>1, <1>12 DEF AnswerChangeset, First
  <2> QED  BY <1>10, <1>11, <2>1
<1>13. CASE AnswerTerminals(c)
  <2>1. r.ask = "terminals" /\ Answered(c, <<>>) /\ UNCHANGED known
        /\ (i = 0 => UNCHANGED tasks)
        /\ (i # 0 => After(i, [tasks[i] EXCEPT !.waits = @ \ {"terminals"}]))
    BY <1>1, <1>13 DEF AnswerTerminals, First
  <2> QED  BY <1>10, <1>11, <2>1
<1>14. CASE AnswerFiles(c)
  <2>1. r.ask = "files" /\ Answered(c, <<>>) /\ UNCHANGED known /\ (i = 0 => UNCHANGED tasks)
    BY <1>1, <1>14 DEF AnswerFiles, First
  <2>2. CASE i = 0
    BY <1>10, <2>1, <2>2
  <2>3. CASE i # 0
    <3>1. PICK l : l = tree[conn[c].ws]
      OBVIOUS
    <3>2. l \in Nat
      BY <1>2, <3>1, OldestRequest DEF WInv, Shape, WiresShape, ConnSet, LoadsShape
    <3>3. PICK t : t = [tasks[i] EXCEPT !.waits = @ \ {"files"}, !.listing = l]
      OBVIOUS
    <3>4. After(i, t)
      BY <1>1, <1>14, <2>3, <3>1, <3>3 DEF AnswerFiles
    <3>5. StrandOf(tasks[i].kind, "files") = "files"
      BY DEF StrandOf
    <3> QED  BY <1>9, <2>1, <2>3, <3>2, <3>3, <3>4, <3>5
  <2> QED  BY <2>2, <2>3
<1>15. CASE AnswerCreate(c)
  <2>1. r.ask = "create" /\ UNCHANGED tasks /\ known' = known \cup {tasks[i].s}
        /\ Answered(c, <<"session">>)
    BY <1>1, <1>15 DEF AnswerCreate, First
  <2>2. i # 0 /\ tasks[i].kind = "submit"
    BY <1>3, <1>4, <2>1 DEF Asked, Suits
  <2>3. PICK e : e = [r EXCEPT !.ask = "session"]
    OBVIOUS
  <2>4. e \in Requests /\ e.task = i /\ e.s = r.s /\ e.ask = "session"
        /\ FollowedBy(c, e, conn[c].chats)
    BY <1>5, <1>6, <2>1, <2>3 DEF Asks
  <2>5. Asked(c, e)'
    BY <1>3, <2>1, <2>2, <2>4 DEF Asked, StrandOf, Suits
  <2>6. StrandOf(tasks[i].kind, e.ask) = StrandOf(tasks[i].kind, r.ask)
    BY <2>1, <2>4 DEF StrandOf
  <2>7. PICK chats : chats = conn[c].chats
    OBVIOUS
  <2>8. FollowedBy(c, e, chats)
    BY <2>4, <2>7
  <2> QED  BY <1>1, <1>2, <1>3, <2>1, <2>4, <2>5, <2>6, <2>7, <2>8, FollowedTInv
<1>16. CASE Refused(c)
  <2>1. UNCHANGED known
    BY <1>16 DEF Refused
  <2>2. CASE i = 0 /\ Answered(c, <<>>) /\ UNCHANGED tasks
    BY <1>10, <2>1, <2>2
  <2>3. CASE /\ i # 0 /\ r.ask = "terminals" /\ Answered(c, <<>>)
             /\ After(i, [tasks[i] EXCEPT !.waits = @ \ {"terminals"}])
    BY <1>11, <2>1, <2>3
  <2>4. CASE /\ i # 0 /\ r.ask # "terminals" /\ End({i})
             /\ conn' = [conn EXCEPT ![c].pending = Orphaned(p, i)]
    <3>1. PICK q : q = Orphaned(p, i)
      OBVIOUS
    <3>2. conn' = [conn EXCEPT ![c].pending = q]
      BY <1>1, <2>4, <3>1
    <3>3. /\ \A d \in Conns : d # c => conn'[d] = conn[d]
          /\ conn'[c].pending = q /\ conn'[c].at = conn[c].at /\ conn'[c].chats = conn[c].chats
          /\ conn'[c].ws = conn[c].ws
      BY <1>2, <3>2 DEF WInv, Shape, WiresShape, ConnSet
    <3>4. tasks'[i] = Idle /\ \A j \in Slots : j # i => tasks'[j] = tasks[j]
      BY <1>3, <2>4 DEF End
    <3>5. Linked'
      BY <1>1, <1>2, <1>3, <2>1, <2>4, <3>1, <3>3, <3>4, RequestsOrphaned
    <3>6. Kept(i)
      BY <1>2, <2>1, <3>3, <3>4 DEF Kept
    <3>7. PICK n : n = Idle
      OBVIOUS
    <3>8. Going(n)' /\ InTurn(i, n) /\ tasks'[i] = n
      BY <3>4, <3>7, IdleTask DEF Going, InTurn
    <3>9. Steady'
      BY <3>6, <3>8, OneGoesOn
    <3> QED  BY <3>5, <3>9 DEF TInv, Steady
  <2>5. \/ i = 0 /\ Answered(c, <<>>) /\ UNCHANGED tasks
        \/ i # 0 /\ r.ask = "terminals" /\ Answered(c, <<>>)
           /\ After(i, [tasks[i] EXCEPT !.waits = @ \ {"terminals"}])
        \/ i # 0 /\ r.ask # "terminals" /\ End({i})
           /\ conn' = [conn EXCEPT ![c].pending = Orphaned(p, i)]
    BY <1>1, <1>16 DEF Refused, Orphaned
  <2> QED  BY <2>2, <2>3, <2>4, <2>5
<1> QED  BY <1>7, <1>8, <1>12, <1>13, <1>14, <1>15, <1>16 DEF Answer

LEMMA NextTInv == ASSUME WInv, [Next]_vars PROVE TInv'
<1>1. CASE \/ \E s \in Sessions : TurnEnds(s)
           \/ \E w \in Workspaces : TreeChanges(w)
           \/ UNCHANGED vars
  BY <1>1, SameTInv DEF TurnEnds, TreeChanges, vars
<1> QED  BY <1>1, UserTInv, GoOnTInv, SocketTInv, AnswerTInv DEF Next

LEMMA InitWInv == Init => WInv
<1> SUFFICES ASSUME Init PROVE WInv
  OBVIOUS
<1>1. Conns = {} /\ Conns \subseteq Nat /\ generation = 0
  BY DEF Init, Conns
<1>2. \A i \in Slots : tasks[i] = Idle
  BY DEF Init
<1>3. Shape
  <2>1. WiresShape
    BY <1>1, IdleTask DEF Init, WiresShape
  <2>2. ScreenShape
    BY AttachmentAssumption DEF Init, ScreenShape
  <2>3. DraftsShape /\ LoadsShape
    BY DEF Init, DraftsShape, LoadsShape
  <2> QED  BY <2>1, <2>2, <2>3 DEF Shape
<1>4. TasksGo /\ OneWorkspace
  BY <1>2, IdleTask DEF TasksGo, Going, OneWorkspace, Ready
<1>5. NothingAsked /\ RequestsAsked /\ AskedOnce
  BY <1>1 DEF NothingAsked, RequestsAsked, AskedOnce
<1>6. WaitersAnswerable
  BY <1>2, IdleTask DEF WaitersAnswerable, Answerable
<1> QED  BY <1>3, <1>4, <1>5, <1>6, InitConn DEF WInv, TInv, Linked

LEMMA NextWInv == WInv /\ [Next]_vars => WInv'
  BY NextConn, NextShape, NextTInv DEF WInv

LEMMA WInvariant == Spec => []WInv
  BY InitWInv, NextWInv, PTL DEF Spec

(* The values of the variables: in particular the session on screen and    *)
(* those with a turn exist, and a task that has gone on has a connection   *)
(* that was begun.                                                         *)
THEOREM AttachmentTypes == Spec => []TypeOK
<1>1. WInv => TypeOK
  <2> SUFFICES ASSUME WInv PROVE TypeOK
    OBVIOUS
  <2>1. DOMAIN conn = Conns /\ current \in 0..generation
    BY DEF WInv, ConnInv, Numbered, UsesNewest
  <2>2. ASSUME NEW c \in Conns
        PROVE  /\ conn[c].ws \in Workspaces
               /\ conn[c].at \in {"connecting", "open", "closing", "closed"}
               /\ conn[c].chats \subseteq Sessions
               /\ \A k \in DOMAIN conn[c].pending : conn[c].pending[k] \in Requests
    <3>1. conn[c] \in ConnSet
      BY DEF WInv, Shape, WiresShape
    <3> QED  BY <3>1, RequestOf DEF ConnSet
  <2>3. ASSUME NEW i \in Slots
        PROVE  /\ tasks[i].at \in {"idle", "attach", "connecting", "attached", "waiting"}
               /\ tasks[i].at \in {"connecting", "attached", "waiting"} => tasks[i].on \in Conns
               /\ tasks[i].waits \subseteq Strands
    BY TaskFields DEF TaskSet
  <2>4. /\ selected \in Workspaces \cup {None} /\ active \in known \cup {None}
        /\ known \subseteq Sessions /\ working \subseteq known
        /\ state \in [Workspaces -> {"idle", "loading", "ready", "error"}]
    BY DEF WInv, Shape, ScreenShape, LoadsShape
  <2> QED  BY <2>1, <2>2, <2>3, <2>4 DEF TypeOK
<1> QED  BY <1>1, WInvariant, PTL

\* What holds of the connection a prompt is put on.
Reaches(m) ==
    conn[m.on].at = "open" /\ conn[m.on].ws = Home[m.s] /\ m.s \in conn[m.on].chats

LEMMA PromptReaches ==
    ASSUME WInv, [Next]_vars, sent' # sent, NEW m, m = sent'
    PROVE  Reaches(m)
<1>1. ASSUME NEW i \in Slots, Compose(i)
      PROVE  Reaches(m)
  <2>1. /\ Subscribed(tasks[i].on, tasks[i].s) /\ UNCHANGED conn /\ Holds(i, "send")
        /\ m = [s |-> tasks[i].s, text |-> draft[tasks[i].s], on |-> tasks[i].on]
    BY <1>1 DEF Compose, Prompt
  <2>2. m.s = tasks[i].s /\ m.on = tasks[i].on
    BY <2>1
  <2>3. Going(tasks[i])
    BY TaskFields
  <2> QED  BY <2>1, <2>2, <2>3, Attaching, CurrentOpen DEF Holds, Going, Subscribed, Reaches
<1>2. ASSUME NEW c \in Conns, AnswerChat(c)
      PROVE  Reaches(m)
  <2>1. PICK p, i, r : p = conn[c].pending /\ i = Asker(c) /\ r = Head(p)
    OBVIOUS
  <2>2. /\ i # 0 /\ tasks[i].kind \in {"send", "submit"} /\ Answered(c, <<>>)
        /\ m = [s |-> tasks[i].s, text |-> tasks[i].text, on |-> c]
    BY <1>2, <2>1 DEF AnswerChat, Prompt, drafts
  <2>3. m.s = tasks[i].s /\ m.on = c
    BY <2>2
  <2>4. p # <<>> /\ conn[c].at = "open" /\ r.ask = "chat"
    BY <1>2, <2>1 DEF AnswerChat, First
  <2>5. /\ Asked(c, r) /\ r.task = i /\ Going(tasks[i]) /\ tasks[i].ws = conn[c].ws
    BY <2>1, <2>2, <2>4, HeadAsked
  <2>6. tasks[i].s \in conn[c].chats /\ conn[c].ws = Home[tasks[i].s]
    BY <2>2, <2>4, <2>5 DEF Asked, Going
  <2> QED  BY <2>3, <2>4, <2>6 DEF Reaches
<1>3. CASE User
  BY <1>3 DEF User, Open, Submit, Pick, NewSession, Type, Send, Refresh, drafts
<1>4. ASSUME NEW i \in Slots, GoOn(i) PROVE Compose(i)
  BY <1>4 DEF GoOn, Reuse, Connect, Select, Show, Create, drafts
<1>5. ASSUME NEW c, Socket(c) PROVE FALSE
  BY <1>5 DEF Socket, Connected, ConnectFails, SocketClosed
<1>6. ASSUME NEW c, Answer(c) PROVE AnswerChat(c) /\ c \in Conns
  BY <1>6 DEF Answer, AnswerSession, AnswerChat, AnswerChangeset, AnswerFiles, AnswerTerminals,
              AnswerCreate, Refused, First, drafts
<1>7. CASE \/ \E s \in Sessions : TurnEnds(s)
           \/ \E w \in Workspaces : TreeChanges(w)
           \/ UNCHANGED vars
  BY <1>7 DEF TurnEnds, TreeChanges, vars, drafts
<1> QED  BY <1>1, <1>2, <1>3, <1>4, <1>5, <1>6, <1>7 DEF Next

(* SessionService.send and create: however attachments come and go while a *)
(* command waits, a prompt is put on the open connection to the workspace  *)
(* of its session, after the session's channels were learnt there.         *)
THEOREM PromptsGoHome == Spec => PromptsReachTheirHost
<1>1. WInv /\ [Next]_vars =>
         [sent' # sent =>
             LET c == conn[sent'.on]
             IN c.at = "open" /\ c.ws = Home[sent'.s] /\ sent'.s \in c.chats]_sent
  BY PromptReaches DEF Reaches
<1> QED  BY <1>1, WInvariant, PTL DEF Spec, PromptsReachTheirHost

----------------------------------------------------------------------------
(* The loads of a workspace's files. *)

Loads(t) == t.at = "waiting" /\ t.kind \in {"open", "pick", "refresh"}

(* A load knows its place among those of its workspace, and its listing is *)
(* of the past.  The listing of the newest load, once it is there, is no   *)
(* older than the one on screen, so that it may take its place.            *)
LoadOk(t) ==
    /\ t.load # 0 <=> Loads(t)
    /\ t.load = 0 => t.listing = 0
    /\ t.load # 0 =>
           /\ t.load <= loads[t.ws] /\ t.listing <= tree[t.ws]
           /\ t.load = loads[t.ws] /\ ~Loaded(t) /\ "files" \notin t.waits
                 => files[t.ws] <= t.listing

LoadsOk == \A i \in Slots : LoadOk(tasks[i])

(* No two tasks have the same load of a workspace.                         *)
LoadsApart ==
    \A i, j \in Slots : i # j /\ tasks[i].ws = tasks[j].ws /\ tasks[i].load = tasks[j].load
        => tasks[i].load = 0

(* What is on screen is of the past.                                       *)
ListingsPast == \A w \in Workspaces : files[w] <= tree[w]

(* Task i will end the loading of workspace w.                             *)
Ends(i, w) == tasks[i].ws = w /\ tasks[i].load = loads[w] /\ Loading(i)

LoadingEnds == \A w \in Workspaces : state[w] = "loading" => \E i \in Slots : Ends(i, w)

LInv == LoadsOk /\ LoadsApart /\ ListingsPast /\ LoadingEnds

AInv == WInv /\ LInv

\* No load is under way in task t.
NoLoad(t) == t.load = 0 /\ t.listing = 0 /\ ~Loads(t)

LEMMA IdleNoLoad == NoLoad(Idle)
  BY DEF NoLoad, Loads, Idle

LEMMA NewNoLoad ==
    ASSUME NEW k, NEW w, NEW s PROVE NoLoad(Task(k, w, s))
  BY DEF NoLoad, Loads, Idle, Task

LEMMA LoadNumbers ==
    ASSUME WInv, NEW i \in Slots
    PROVE  /\ tasks[i].load \in Nat /\ tasks[i].listing \in Nat
           /\ tasks[i].at = "waiting" => tasks[i].ws \in Workspaces
           /\ \A w \in Workspaces : loads[w] \in Nat /\ files[w] \in Nat /\ tree[w] \in Nat
  BY TaskFields DEF TaskSet, WInv, Shape, LoadsShape, Going

\* Tasks begin, end, and do other things than loading.  A workspace stays in
\* the loading state only when the task that will end it is still there.
LEMMA LoadsStay ==
    ASSUME AInv, Shape', UNCHANGED <<loads, files>>, \A w \in Workspaces : tree[w] <= tree'[w],
           \A i \in Slots : tasks'[i] = tasks[i] \/ \E t : tasks'[i] = t /\ NoLoad(t),
           \A w \in Workspaces : state'[w] = "loading" =>
              /\ state[w] = "loading"
              /\ \A i \in Slots : Ends(i, w) => tasks'[i] = tasks[i]
    PROVE  LInv'
<1>n. \A w \in Workspaces : loads[w] \in Nat /\ files[w] \in Nat /\ tree[w] \in Nat /\ tree'[w] \in Nat
  BY DEF AInv, WInv, Shape, LoadsShape
<1>1. LoadsOk'
  <2>1. ASSUME NEW i \in Slots PROVE LoadOk(tasks[i])'
    <3>1. ASSUME NEW t, tasks'[i] = t, NoLoad(t) PROVE LoadOk(tasks[i])'
      BY <3>1 DEF NoLoad, LoadOk, Loads, Loaded
    <3>2. CASE tasks'[i] = tasks[i]
      <4>1. PICK t : t = tasks[i]
        OBVIOUS
      <4>2. LoadOk(t)
        BY <4>1 DEF AInv, LInv, LoadsOk
      <4>3. t.load # 0 => t.ws \in Workspaces
        BY <4>1, <4>2, LoadNumbers DEF AInv, LoadOk, Loads
      <4>4. t.load \in Nat /\ t.listing \in Nat
        BY <4>1, LoadNumbers DEF AInv
      <4>5. t.load # 0 => t.listing <= tree'[t.ws]
        BY <1>n, <4>2, <4>3, <4>4 DEF LoadOk
      <4>6. LoadOk(t)'
        BY <4>2, <4>5 DEF LoadOk, Loads, Loaded
      <4> QED  BY <3>2, <4>1, <4>6 DEF LoadOk, Loads, Loaded
    <3> QED  BY <3>1, <3>2
  <2> QED  BY <2>1 DEF LoadsOk
<1>2. LoadsApart'
  BY DEF AInv, LInv, LoadsApart, NoLoad
<1>3. ListingsPast'
  BY <1>n DEF AInv, LInv, ListingsPast
<1>4. LoadingEnds'
  <2>1. ASSUME NEW w \in Workspaces, state'[w] = "loading"
        PROVE  \E i \in Slots : Ends(i, w)'
    <3>1. PICK i \in Slots : Ends(i, w) /\ tasks'[i] = tasks[i]
      BY <2>1 DEF AInv, LInv, LoadingEnds
    <3> QED  BY <3>1 DEF Ends, Loading, Loaded
  <2> QED  BY <2>1 DEF LoadingEnds
<1> QED  BY <1>1, <1>2, <1>3, <1>4 DEF LInv

\* loadWorkspace: a new load begins in task i.
LEMMA LoadBegins ==
    ASSUME AInv, Shape', NEW i \in Slots, ~Loads(tasks[i]), NEW w \in Workspaces, NEW t, tasks'[i] = t,
           \A j \in Slots : j # i => tasks'[j] = tasks[j],
           t.ws = w, Loads(t), "files" \in t.waits, t.listing = 0, t.load = loads[w] + 1,
           loads' = [loads EXCEPT ![w] = @ + 1], state' = [state EXCEPT ![w] = "loading"],
           UNCHANGED <<files, tree>>
    PROVE  LInv'
<1>n. \A v \in Workspaces : loads[v] \in Nat /\ files[v] \in Nat /\ tree[v] \in Nat
  BY DEF AInv, WInv, Shape, LoadsShape
<1>0. loads'[w] = loads[w] + 1 /\ state'[w] = "loading"
      /\ \A v \in Workspaces : v # w => loads'[v] = loads[v] /\ state'[v] = state[v]
  BY DEF AInv, WInv, Shape, LoadsShape
<1>t. t.load = loads'[w] /\ t.load # 0 /\ t.load \in Nat /\ t.load > loads[w]
  BY <1>n, <1>0
<1>o. ASSUME NEW j \in Slots
      PROVE  /\ LoadOk(tasks[j]) /\ tasks[j].load \in Nat /\ tasks[j].listing \in Nat
             /\ tasks[j].load # 0 => tasks[j].ws \in Workspaces /\ tasks[j].load <= loads[tasks[j].ws]
  <2>1. LoadOk(tasks[j])
    BY DEF AInv, LInv, LoadsOk
  <2> QED  BY <2>1, LoadNumbers DEF AInv, LoadOk, Loads
<1>1. LoadsOk'
  <2>1. ASSUME NEW j \in Slots PROVE LoadOk(tasks[j])'
    <3>1. CASE j = i
      <4>1. 0 <= tree[w]
        BY <1>n
      <4>2. t.load <= loads'[w]
        BY <1>n, <1>0
      <4> QED  BY <1>t, <3>1, <4>1, <4>2 DEF LoadOk, Loads, Loaded
    <3>2. CASE j # i
      <4>1. PICK u : u = tasks[j]
        OBVIOUS
      <4>2. /\ LoadOk(u) /\ u.load \in Nat
            /\ u.load # 0 => u.ws \in Workspaces /\ u.load <= loads[u.ws]
        BY <1>o, <4>1
      <4>3. u.load # 0 => u.load <= loads'[u.ws] /\ (u.load = loads'[u.ws] => u.load = loads[u.ws])
        <5>1. CASE u.ws = w
          BY <1>n, <1>0, <4>2, <5>1
        <5>2. CASE u.ws # w
          BY <1>0, <4>2, <5>2
        <5> QED  BY <5>1, <5>2
      <4>4. LoadOk(u)'
        BY <4>2, <4>3 DEF LoadOk, Loads, Loaded
      <4> QED  BY <3>2, <4>1, <4>4 DEF LoadOk, Loads, Loaded
    <3> QED  BY <3>1, <3>2
  <2> QED  BY <2>1 DEF LoadsOk
<1>2. LoadsApart'
  <2>1. ASSUME NEW j \in Slots, j # i, tasks[j].ws = w PROVE tasks[j].load # t.load
    <3>1. tasks[j].load <= loads[w]
      BY <1>n, <1>o, <2>1
    <3> QED  BY <1>n, <1>o, <1>t, <3>1
  <2> QED  BY <2>1 DEF AInv, LInv, LoadsApart
<1>3. ListingsPast'
  BY DEF AInv, LInv, ListingsPast
<1>4. LoadingEnds'
  <2>1. ASSUME NEW v \in Workspaces, state'[v] = "loading"
        PROVE  \E j \in Slots : Ends(j, v)'
    <3>1. CASE v = w
      <4>1. Ends(i, v)'
        BY <1>t, <3>1 DEF Ends, Loading, Loaded
      <4> QED  BY <4>1
    <3>2. CASE v # w
      <4>1. PICK j \in Slots : Ends(j, v)
        BY <1>0, <2>1, <3>2 DEF AInv, LInv, LoadingEnds
      <4>2. j # i
        BY <4>1, <1>o DEF Ends, Loading, LoadOk
      <4>3. Ends(j, v)'
        BY <1>0, <3>2, <4>1, <4>2 DEF Ends, Loading, Loaded
      <4> QED  BY <4>3
    <3> QED  BY <3>1, <3>2
  <2> QED  BY <2>1 DEF LoadingEnds
<1> QED  BY <1>1, <1>2, <1>3, <1>4 DEF LInv

\* Strand x of a load is through, and t is its task by then: if both answers
\* are there and no newer load has begun, its listing is put on screen, in
\* place of one that is no newer.
LEMMA LoadGoesOn ==
    ASSUME AInv, Shape', NEW i \in Slots, Loads(tasks[i]), NEW t \in TaskSet, After(i, t),
           NEW x, x \in tasks[i].waits, t.waits = tasks[i].waits \ {x},
           t.kind = tasks[i].kind, t.at = tasks[i].at, t.ws = tasks[i].ws, t.load = tasks[i].load,
           t.listing = IF x = "files" THEN tree[t.ws] ELSE tasks[i].listing, UNCHANGED tree
    PROVE  LInv' /\ \A w \in Workspaces : files[w] <= files'[w]
<1>n. \A w \in Workspaces : loads[w] \in Nat /\ files[w] \in Nat /\ tree[w] \in Nat
  BY DEF AInv, WInv, Shape, LoadsShape
<1>1. /\ t.ws \in Workspaces /\ t.load \in Nat /\ t.listing \in Nat /\ t.load # 0
      /\ LoadOk(tasks[i]) /\ tasks[i].listing \in Nat /\ t.load <= loads[t.ws] /\ Loads(t)
  BY LoadNumbers DEF AInv, LInv, LoadsOk, LoadOk, Loads, TaskSet
<1>2. t.listing <= tree[t.ws]
  BY <1>n, <1>1 DEF LoadOk
<1>3. t.load = loads[t.ws] /\ ~Loaded(tasks[i]) /\ "files" \notin t.waits => files[t.ws] <= t.listing
  <2>1. CASE x = "files"
    BY <1>n, <1>1, <2>1 DEF AInv, LInv, ListingsPast
  <2>2. CASE x # "files"
    BY <1>1, <2>2 DEF LoadOk
  <2> QED  BY <2>1, <2>2
<1>4. PICK n : n = IF t.waits # {} THEN t
                   ELSE IF t.kind = "open" THEN Task("show", t.ws, t.s) ELSE Idle
  OBVIOUS
<1>5. /\ tasks'[i] = n /\ UNCHANGED loads
      /\ \A j \in Slots : j # i => tasks'[j] = tasks[j]
  BY <1>4 DEF After, AInv, WInv, Shape, WiresShape
<1>6. (n = t /\ t.waits # {}) \/ (NoLoad(n) /\ t.waits = {})
  BY <1>4, IdleNoLoad, NewNoLoad
<1>7. \/ /\ Loaded(t) /\ ~Loaded(tasks[i]) /\ loads[t.ws] = t.load
         /\ files'[t.ws] = t.listing /\ state'[t.ws] = "ready" /\ files[t.ws] <= t.listing
         /\ \A w \in Workspaces : w # t.ws => files'[w] = files[w] /\ state'[w] = state[w]
      \/ /\ ~(Loaded(t) /\ ~Loaded(tasks[i]) /\ loads[t.ws] = t.load)
         /\ UNCHANGED <<files, state>>
  <2>1. CASE Loaded(t) /\ ~Loaded(tasks[i]) /\ loads[t.ws] = t.load
    <3>1. files' = [files EXCEPT ![t.ws] = t.listing] /\ state' = [state EXCEPT ![t.ws] = "ready"]
      BY <2>1 DEF After
    <3>2. "files" \notin t.waits
      BY <2>1 DEF Loaded
    <3> QED  BY <1>1, <1>3, <2>1, <3>1, <3>2 DEF AInv, WInv, Shape, LoadsShape
  <2>2. CASE ~(Loaded(t) /\ ~Loaded(tasks[i]) /\ loads[t.ws] = t.load)
    BY <2>2 DEF After
  <2> QED  BY <2>1, <2>2
<1>8. ASSUME NEW w \in Workspaces
      PROVE  files[w] <= files'[w] /\ files'[w] <= tree[w]
  <2>1. files[w] <= tree[w]
    BY DEF AInv, LInv, ListingsPast
  <2>2. CASE w = t.ws
    BY <1>n, <1>1, <1>2, <1>7, <2>1, <2>2
  <2>3. CASE w # t.ws
    BY <1>n, <1>7, <2>1, <2>3
  <2> QED  BY <2>2, <2>3
<1>o. ASSUME NEW j \in Slots, j # i, tasks[j].load # 0, tasks[j].ws = t.ws
      PROVE  tasks[j].load # t.load
  BY <1>o DEF AInv, LInv, LoadsApart
<1>9. LoadsOk'
  <2>1. ASSUME NEW j \in Slots PROVE LoadOk(tasks[j])'
    <3>1. CASE j = i
      <4>1. CASE NoLoad(n)
        BY <1>5, <3>1, <4>1 DEF NoLoad, LoadOk, Loads, Loaded
      <4>2. CASE n = t
        <5>1. t.load = loads[t.ws] /\ ~Loaded(t) /\ "files" \notin t.waits => files'[t.ws] <= t.listing
          <6>1. ~Loaded(t) => ~Loaded(tasks[i]) /\ UNCHANGED files
            BY <1>7 DEF Loaded
          <6> QED  BY <1>3, <6>1
        <5>2. LoadOk(t)'
          BY <1>1, <1>2, <1>5, <5>1 DEF LoadOk, Loads, Loaded
        <5> QED  BY <1>5, <3>1, <4>2, <5>2 DEF LoadOk, Loads, Loaded
      <4> QED  BY <1>6, <4>1, <4>2
    <3>2. CASE j # i
      <4>1. PICK u : u = tasks[j]
        OBVIOUS
      <4>2. LoadOk(u) /\ (u.load # 0 => u.ws \in Workspaces)
        BY <4>1, LoadNumbers DEF AInv, LInv, LoadsOk, LoadOk, Loads
      <4>3. u.load # 0 /\ u.load = loads[u.ws] => files'[u.ws] = files[u.ws]
        BY <1>o, <1>7, <3>2, <4>1, <4>2
      <4>4. LoadOk(u)'
        BY <1>5, <4>2, <4>3 DEF LoadOk, Loads, Loaded
      <4> QED  BY <1>5, <3>2, <4>1, <4>4 DEF LoadOk, Loads, Loaded
    <3> QED  BY <3>1, <3>2
  <2> QED  BY <2>1 DEF LoadsOk
<1>10. LoadsApart'
  BY <1>5, <1>6, <1>o DEF AInv, LInv, LoadsApart, NoLoad
<1>11. ListingsPast'
  BY <1>8 DEF ListingsPast
<1>12. LoadingEnds'
  <2>1. ASSUME NEW w \in Workspaces, state'[w] = "loading"
        PROVE  \E j \in Slots : Ends(j, w)'
    <3>1. state[w] = "loading"
      BY <1>7, <2>1
    <3>2. PICK j \in Slots : Ends(j, w)
      BY <3>1 DEF AInv, LInv, LoadingEnds
    <3>3. CASE j # i
      BY <1>5, <3>2, <3>3 DEF Ends, Loading, Loaded
    <3>4. CASE j = i
      <4>1. w = t.ws /\ t.load = loads[t.ws] /\ ~Loaded(tasks[i])
        BY <3>2, <3>4 DEF Ends, Loading
      <4>2. ~Loaded(t)
        BY <1>7, <2>1, <4>1
      <4>3. n = t
        BY <1>6, <4>2 DEF Loaded
      <4>4. Ends(i, w)'
        BY <1>1, <1>5, <4>1, <4>2, <4>3 DEF Ends, Loading, Loaded
      <4> QED  BY <4>4
    <3> QED  BY <3>3, <3>4
  <2> QED  BY <2>1 DEF LoadingEnds
<1> QED  BY <1>8, <1>9, <1>10, <1>11, <1>12 DEF LInv

LEMMA NotLoading ==
    ASSUME AInv, NEW i \in Slots
    PROVE  /\ ~Loads(tasks[i]) => tasks[i].load = 0 /\ tasks[i].listing = 0
           /\ \A w : Ends(i, w) => Loads(tasks[i])
  BY DEF AInv, LInv, LoadsOk, LoadOk, Ends, Loading

\* Nothing happens to the loads.  Tasks that do not load change.
LEMMA OthersChange ==
    ASSUME AInv, Shape', UNCHANGED loading, \A w \in Workspaces : tree[w] <= tree'[w],
           \A i \in Slots : \/ tasks'[i] = tasks[i]
                            \/ ~Loads(tasks[i]) /\ \E t : tasks'[i] = t /\ NoLoad(t)
    PROVE  LInv' /\ \A w \in Workspaces : files[w] <= files'[w]
<1>1. \A w \in Workspaces : files[w] <= files'[w]
  BY DEF loading, AInv, WInv, Shape, LoadsShape
<1>2. \A w \in Workspaces : state'[w] = "loading" =>
         state[w] = "loading" /\ \A i \in Slots : Ends(i, w) => tasks'[i] = tasks[i]
  BY NotLoading DEF loading
<1>3. UNCHANGED <<loads, files>>
  BY DEF loading
<1> QED  BY <1>1, <1>2, <1>3, LoadsStay

LEMMA SameTree == ASSUME AInv, UNCHANGED tree PROVE \A w \in Workspaces : tree[w] <= tree'[w]
  BY DEF AInv, WInv, Shape, LoadsShape

\* A command begins, or a task that goes on with its attachment does other
\* things than loading.
LEMMA OneOther ==
    ASSUME AInv, Shape', UNCHANGED <<loading, tree>>, NEW i \in Slots, ~Loads(tasks[i]),
           NEW t, tasks' = [tasks EXCEPT ![i] = t], NoLoad(t)
    PROVE  LInv' /\ \A w \in Workspaces : files[w] <= files'[w]
<1>1. tasks'[i] = t /\ \A j \in Slots : j # i => tasks'[j] = tasks[j]
  BY DEF AInv, WInv, Shape, WiresShape
<1>2. \A j \in Slots : \/ tasks'[j] = tasks[j]
                       \/ ~Loads(tasks[j]) /\ \E u : tasks'[j] = u /\ NoLoad(u)
  BY <1>1
<1>3. UNCHANGED loading /\ \A w \in Workspaces : tree[w] <= tree'[w]
  BY SameTree
<1> QED  BY <1>2, <1>3, OthersChange

LEMMA UserLInv ==
    ASSUME AInv, Shape', User
    PROVE  LInv' /\ \A w \in Workspaces : files[w] <= files'[w]
<1>1. ASSUME NEW t, Begin(t), NoLoad(t), UNCHANGED <<loading, tree>>
      PROVE  LInv' /\ \A w \in Workspaces : files[w] <= files'[w]
  <2>1. PICK i \in Slots : tasks[i] = Idle /\ tasks' = [tasks EXCEPT ![i] = t]
    BY <1>1 DEF Begin, NextFree, Free
  <2>2. ~Loads(tasks[i])
    BY <2>1, IdleNoLoad DEF NoLoad
  <2> QED  BY <1>1, <2>1, <2>2, OneOther
<1>2. ASSUME NEW s \in Sessions, Open(s) \/ Submit(s)
      PROVE  LInv' /\ \A w \in Workspaces : files[w] <= files'[w]
  <2>1. CASE Open(s)
    BY <1>1, <2>1, NewNoLoad DEF Open
  <2>2. CASE Submit(s)
    <3>1. PICK n : n = untitled[selected]
      OBVIOUS
    <3>2. PICK t : t = [Task("submit", selected, s) EXCEPT !.text = n]
      OBVIOUS
    <3>3. NoLoad(t)
      BY <3>2 DEF NoLoad, Loads, Task, Idle
    <3>4. Begin(t) /\ UNCHANGED <<loading, tree>>
      BY <2>2, <3>1, <3>2 DEF Submit
    <3> QED  BY <1>1, <3>3, <3>4
  <2> QED  BY <1>2, <2>1, <2>2
<1>3. ASSUME NEW w \in Workspaces, Pick(w)
      PROVE  LInv' /\ \A v \in Workspaces : files[v] <= files'[v]
  BY <1>1, <1>3, NewNoLoad DEF Pick
<1>4. CASE Send
  BY <1>1, <1>4, NewNoLoad DEF Send
<1>5. CASE NewSession \/ Type
  BY <1>5, SameTree, OthersChange DEF NewSession, Type
<1>6. CASE Refresh
  <2>1. PICK w : w = conn[current].ws
    OBVIOUS
  <2>2. w \in Workspaces
    BY <1>6, <2>1, CurrentOpen DEF Refresh, AInv
  <2>3. PICK t : t = [Idle EXCEPT !.kind = "refresh", !.ws = w, !.at = "waiting",
                                  !.on = current, !.waits = {"files"}, !.load = loads[w] + 1]
    OBVIOUS
  <2>4. PICK i \in Slots : tasks[i] = Idle /\ tasks' = [tasks EXCEPT ![i] = t]
    BY <1>6, <2>1, <2>3 DEF Refresh, NextFree, Free
  <2>5. tasks'[i] = t /\ \A j \in Slots : j # i => tasks'[j] = tasks[j]
    BY <2>4 DEF AInv, WInv, Shape, WiresShape
  <2>6. t.ws = w /\ Loads(t) /\ "files" \in t.waits /\ t.listing = 0 /\ t.load = loads[w] + 1
    BY <2>3 DEF Idle, Loads
  <2>7. /\ loads' = [loads EXCEPT ![w] = @ + 1] /\ state' = [state EXCEPT ![w] = "loading"]
        /\ UNCHANGED <<files, tree>>
    BY <1>6, <2>1 DEF Refresh
  <2>8. ~Loads(tasks[i])
    BY <2>4, IdleNoLoad DEF NoLoad
  <2>9. LInv'
    BY <2>2, <2>5, <2>6, <2>7, <2>8, LoadBegins
  <2> QED  BY <2>7, <2>9 DEF AInv, WInv, Shape, LoadsShape
<1> QED  BY <1>2, <1>3, <1>4, <1>5, <1>6 DEF User

LEMMA GoOnLInv ==
    ASSUME AInv, Shape', NEW i \in Slots, GoOn(i)
    PROVE  LInv' /\ \A w \in Workspaces : files[w] <= files'[w]
<1>1. /\ tasks[i] \in TaskSet /\ tasks[i].at \in {"attach", "attached"} /\ ~Loads(tasks[i])
      /\ tasks[i].load = 0 /\ tasks[i].listing = 0
  <2>1. tasks[i].at \in {"attach", "attached"}
    BY DEF GoOn, Reuse, Connect, Select, Show, Compose, Create, Holds
  <2> QED  BY <2>1, TaskFields, NotLoading DEF AInv, Loads
<1>2. ASSUME NEW a \in {"attached", "connecting"}, NEW c,
             tasks' = [tasks EXCEPT ![i].at = a, ![i].on = c], UNCHANGED <<loading, tree>>
      PROVE  LInv' /\ \A w \in Workspaces : files[w] <= files'[w]
  <2>1. PICK t : t = [tasks[i] EXCEPT !.at = a, !.on = c]
    OBVIOUS
  <2>2. NoLoad(t)
    BY <1>1, <2>1 DEF NoLoad, Loads, TaskSet
  <2>3. tasks' = [tasks EXCEPT ![i] = t]
    BY <1>2, <2>1
  <2> QED  BY <1>1, <1>2, <2>2, <2>3, OneOther
<1>3. CASE Reuse(i) \/ Connect(i)
  <2>1. UNCHANGED <<loading, tree>>
    BY <1>3 DEF Reuse, Connect
  <2>2. CASE Reuse(i)
    <3>1. tasks' = [tasks EXCEPT ![i].at = "attached", ![i].on = current]
      BY <2>2 DEF Reuse
    <3> QED  BY <1>2, <2>1, <3>1
  <2>3. CASE Connect(i)
    <3>1. PICK c : c = generation'
      OBVIOUS
    <3>2. tasks' = [tasks EXCEPT ![i].at = "connecting", ![i].on = c]
      BY <2>3, <3>1 DEF Connect
    <3> QED  BY <1>2, <2>1, <3>2
  <2> QED  BY <1>3, <2>2, <2>3
<1>4. CASE Select(i)
  <2>1. PICK w : w = tasks[i].ws
    OBVIOUS
  <2>2. w \in Workspaces
    BY <1>4, <2>1, Attaching DEF Select, Holds, AInv
  <2>3. /\ loads' = [loads EXCEPT ![w] = @ + 1] /\ state' = [state EXCEPT ![w] = "loading"]
        /\ UNCHANGED <<files, tree>> /\ tasks[i].kind \in {"open", "pick"}
    BY <1>4, <2>1 DEF Select, BeginLoad, Holds
  <2>4. PICK l : l = loads'[w]
    OBVIOUS
  <2>5. PICK waits : /\ "files" \in waits
                     /\ tasks' = [tasks EXCEPT ![i].at = "waiting", ![i].waits = waits, ![i].load = l]
    BY <1>4, <2>1, <2>4 DEF Select, BeginLoad
  <2>6. PICK t : t = [tasks[i] EXCEPT !.at = "waiting", !.waits = waits, !.load = l]
    OBVIOUS
  <2>7. tasks'[i] = t /\ \A j \in Slots : j # i => tasks'[j] = tasks[j]
    BY <2>5, <2>6 DEF AInv, WInv, Shape, WiresShape
  <2>8. l = loads[w] + 1
    BY <2>2, <2>3, <2>4 DEF AInv, WInv, Shape, LoadsShape
  <2>9. t.ws = w /\ Loads(t) /\ "files" \in t.waits /\ t.listing = 0 /\ t.load = loads[w] + 1
    BY <1>1, <2>1, <2>3, <2>5, <2>6, <2>8 DEF Loads, TaskSet
  <2>10. LInv'
    BY <1>1, <2>2, <2>3, <2>7, <2>9, LoadBegins
  <2> QED  BY <2>3, <2>10 DEF AInv, WInv, Shape, LoadsShape
<1>5. ASSUME tasks' = [tasks EXCEPT ![i] = Idle], UNCHANGED <<loading, tree>>
      PROVE  LInv' /\ \A w \in Workspaces : files[w] <= files'[w]
  BY <1>1, <1>5, IdleNoLoad, OneOther
<1>6. ASSUME NEW t, NoLoad(t), tasks' = [tasks EXCEPT ![i] = t], UNCHANGED <<loading, tree>>
      PROVE  LInv' /\ \A w \in Workspaces : files[w] <= files'[w]
  BY <1>1, <1>6, OneOther
<1>7. ASSUME tasks[i].kind \in {"show", "send", "submit"},
             tasks' = [tasks EXCEPT ![i].at = "waiting", ![i].waits = {"chat"}],
             UNCHANGED <<loading, tree>>
      PROVE  LInv' /\ \A w \in Workspaces : files[w] <= files'[w]
  <2>1. PICK t : t = [tasks[i] EXCEPT !.at = "waiting", !.waits = {"chat"}]
    OBVIOUS
  <2>2. tasks' = [tasks EXCEPT ![i] = t]
    BY <1>7, <2>1
  <2>3. NoLoad(t)
    BY <1>1, <1>7, <2>1 DEF NoLoad, Loads, TaskSet
  <2>4. UNCHANGED <<loading, tree>>
    BY <1>7
  <2> QED  BY <1>6, <2>2, <2>3, <2>4
<1>8. CASE Show(i) \/ Create(i)
  BY <1>5, <1>7, <1>8 DEF Show, Create, Holds
<1>9. CASE Compose(i)
  <2>1. CASE tasks' = [tasks EXCEPT ![i] = Idle]
    BY <1>5, <1>9, <2>1 DEF Compose
  <2>2. CASE tasks' = [tasks EXCEPT ![i].at = "waiting", ![i].waits = {"chat"},
                                    ![i].text = draft[tasks[i].s]]
    <3>1. PICK t : t = [tasks[i] EXCEPT !.at = "waiting", !.waits = {"chat"},
                                        !.text = draft[tasks[i].s]]
      OBVIOUS
    <3>2. tasks' = [tasks EXCEPT ![i] = t]
      BY <2>2, <3>1
    <3>3. tasks[i].kind \in {"show", "send", "submit"} /\ UNCHANGED <<loading, tree>>
      BY <1>9 DEF Compose, Holds
    <3>4. NoLoad(t)
      BY <1>1, <3>1, <3>3 DEF NoLoad, Loads, TaskSet
    <3> QED  BY <1>6, <3>2, <3>3, <3>4
  <2> QED  BY <1>9, <2>1, <2>2 DEF Compose
<1> QED  BY <1>3, <1>4, <1>8, <1>9 DEF GoOn

LEMMA SocketLInv ==
    ASSUME AInv, Shape', NEW c, Socket(c)
    PROVE  LInv' /\ \A w \in Workspaces : files[w] <= files'[w]
<1>1. UNCHANGED tree /\ \A w \in Workspaces : tree[w] <= tree'[w]
  BY SameTree DEF Socket, Connected, ConnectFails, SocketClosed
<1>2. ASSUME NEW ended, End(ended), \A i \in ended : i \in Waiting(c), UNCHANGED loading
      PROVE  LInv' /\ \A w \in Workspaces : files[w] <= files'[w]
  <2>1. \A i \in Slots : \/ tasks'[i] = tasks[i]
                         \/ ~Loads(tasks[i]) /\ tasks'[i] = Idle
    BY <1>2 DEF End, Waiting, Loads
  <2> QED  BY <1>1, <1>2, <2>1, IdleNoLoad, OthersChange
<1>3. CASE ConnectFails(c)
  BY <1>2, <1>3 DEF ConnectFails
<1>4. CASE Connected(c)
  <2>1. CASE c # generation
    BY <1>2, <1>4, <2>1 DEF Connected
  <2>2. CASE c = generation
    <3>1. UNCHANGED loading
      BY <1>4 DEF Connected
    <3>2. ASSUME NEW i \in Slots
          PROVE  \/ tasks'[i] = tasks[i]
                 \/ ~Loads(tasks[i]) /\ \E t : tasks'[i] = t /\ NoLoad(t)
      <4>1. CASE i \notin Waiting(c)
        BY <1>4, <2>2, <4>1 DEF Connected
      <4>2. CASE i \in Waiting(c)
        <5>1. PICK t : t = [tasks[i] EXCEPT !.at = "attached"]
          OBVIOUS
        <5>2. tasks'[i] = t
          BY <1>4, <2>2, <4>2, <5>1 DEF Connected
        <5>3. ~Loads(tasks[i])
          BY <4>2 DEF Waiting, Loads
        <5>4. tasks[i] \in TaskSet
          BY TaskFields DEF AInv
        <5>5. NoLoad(t)
          BY <5>1, <5>3, <5>4, NotLoading DEF NoLoad, Loads, TaskSet
        <5> QED  BY <5>2, <5>3, <5>5
      <4> QED  BY <4>1, <4>2
    <3> QED  BY <1>1, <3>1, <3>2, OthersChange
  <2> QED  BY <2>1, <2>2
<1>5. CASE SocketClosed(c)
  <2> DEFINE asking == {i \in Slots : tasks[i].at = "waiting" /\ tasks[i].on = c}
  <2>1. /\ LoadsFail({i \in asking : Loading(i)})
        /\ tasks' = [i \in Slots |-> IF i \in asking THEN Rejected(i) ELSE tasks[i]]
    BY <1>5 DEF SocketClosed
  <2>2. \A i \in Slots : NoLoad(Rejected(i))
    BY IdleNoLoad, NewNoLoad DEF Rejected
  <2>3. \A i \in Slots : tasks'[i] = tasks[i] \/ \E t : tasks'[i] = t /\ NoLoad(t)
    <3> HIDE DEF asking
    <3> QED  BY <2>1, <2>2
  <2>4. UNCHANGED <<loads, files>>
    BY <2>1 DEF LoadsFail
  <2>5. ASSUME NEW w \in Workspaces, state'[w] = "loading"
        PROVE  state[w] = "loading" /\ \A i \in Slots : Ends(i, w) => tasks'[i] = tasks[i]
    <3>1. /\ state[w] = "loading"
          /\ ~\E i \in {i \in asking : Loading(i)} : tasks[i].ws = w /\ tasks[i].load = loads[w]
      BY <2>1, <2>5 DEF LoadsFail
    <3>2. ASSUME NEW i \in Slots, Ends(i, w) PROVE i \notin asking
      BY <3>1, <3>2 DEF Ends
    <3> QED  BY <2>1, <3>1, <3>2
  <2>6. LInv'
    <3> HIDE DEF asking
    <3> QED  BY <1>1, <2>3, <2>4, <2>5, LoadsStay
  <2> QED  BY <2>4, <2>6 DEF AInv, WInv, Shape, LoadsShape
<1> QED  BY <1>3, <1>4, <1>5 DEF Socket

LEMMA AnswerLInv ==
    ASSUME AInv, Shape', NEW c, Answer(c)
    PROVE  LInv' /\ \A w \in Workspaces : files[w] <= files'[w]
<1>1. PICK p, i, r : p = conn[c].pending /\ i = Asker(c) /\ r = Head(p)
  OBVIOUS
<1>2. c \in Conns /\ p # <<>> /\ UNCHANGED tree
  BY <1>1 DEF Answer, AnswerSession, AnswerChat, AnswerChangeset, AnswerFiles, AnswerTerminals,
              AnswerCreate, Refused, First
<1>3. /\ Asked(c, r) /\ r.task = i
      /\ i # 0 => /\ i \in Slots /\ tasks[i] \in TaskSet /\ tasks[i].at = "waiting"
                  /\ tasks[i].ws = conn[c].ws
  BY <1>1, <1>2, HeadAsked DEF AInv
<1>4. /\ \A w \in Workspaces : tree[w] <= tree'[w]
      /\ UNCHANGED files => \A w \in Workspaces : files[w] <= files'[w]
  BY <1>2, SameTree DEF AInv, WInv, Shape, LoadsShape
<1>5. ASSUME UNCHANGED <<tasks, loading>>
      PROVE  LInv' /\ \A w \in Workspaces : files[w] <= files'[w]
  BY <1>4, <1>5, OthersChange
<1>6. CASE AnswerSession(c) \/ AnswerCreate(c)
  BY <1>5, <1>6 DEF AnswerSession, AnswerCreate
<1>7. CASE AnswerChat(c)
  <2>1. UNCHANGED loading
    BY <1>7 DEF AnswerChat
  <2>2. CASE UNCHANGED tasks
    BY <1>5, <2>1, <2>2
  <2>3. CASE /\ i # 0 /\ tasks[i].kind \in {"show", "send", "submit"}
             /\ \A j \in Slots : tasks'[j] = IF j = i THEN Idle ELSE tasks[j]
    <3>1. ~Loads(tasks[i])
      BY <2>3 DEF Loads
    <3>2. \A j \in Slots : \/ tasks'[j] = tasks[j]
                           \/ ~Loads(tasks[j]) /\ \E t : tasks'[j] = t /\ NoLoad(t)
      BY <2>3, <3>1, IdleNoLoad
    <3> QED  BY <1>4, <2>1, <3>2, OthersChange
  <2>4. (tasks' = [tasks EXCEPT ![i] = Idle] \/ End({i})) =>
           \A j \in Slots : tasks'[j] = IF j = i THEN Idle ELSE tasks[j]
    BY DEF End, AInv, WInv, Shape, WiresShape
  <2> QED  BY <1>1, <1>7, <2>2, <2>3, <2>4 DEF AnswerChat
<1>8. ASSUME NEW y \in {"changeset", "files", "terminals"}, r.ask = y, i # 0,
             NEW x, x = StrandOf(tasks[i].kind, y), NEW l \in Nat,
             l = IF x = "files" THEN tree[conn[c].ws] ELSE tasks[i].listing,
             NEW t, t = [tasks[i] EXCEPT !.waits = @ \ {x}, !.listing = l], After(i, t)
      PROVE  LInv' /\ \A w \in Workspaces : files[w] <= files'[w]
  <2>1. Loads(tasks[i]) /\ x \in tasks[i].waits
    BY <1>3, <1>8 DEF Asked, Suits, Loads
  <2>2. /\ t \in TaskSet /\ t.kind = tasks[i].kind /\ t.at = tasks[i].at /\ t.ws = tasks[i].ws
        /\ t.load = tasks[i].load /\ t.waits = tasks[i].waits \ {x} /\ t.listing = l
    BY <1>3, <1>8 DEF TaskSet
  <2>3. t.listing = IF x = "files" THEN tree[t.ws] ELSE tasks[i].listing
    BY <1>3, <1>8, <2>2
  <2>4. i \in Slots /\ After(i, t)
    BY <1>3, <1>8
  <2> QED  BY <1>2, <2>1, <2>2, <2>3, <2>4, LoadGoesOn
<1>9. ASSUME NEW y \in {"changeset", "terminals"}, r.ask = y, i # 0,
             After(i, [tasks[i] EXCEPT !.waits = @ \ {IF y = "changeset" THEN "changes" ELSE y}])
      PROVE  LInv' /\ \A w \in Workspaces : files[w] <= files'[w]
  <2>1. PICK x, l : x = StrandOf(tasks[i].kind, y) /\ l = tasks[i].listing
    OBVIOUS
  <2>2. x = IF y = "changeset" THEN "changes" ELSE y
    BY <1>3, <1>9, <2>1 DEF Asked, Suits, StrandOf
  <2>3. l \in Nat
    BY <1>3, <1>9, <2>1 DEF TaskSet
  <2>4. PICK t : t = [tasks[i] EXCEPT !.waits = @ \ {IF y = "changeset" THEN "changes" ELSE y}]
    OBVIOUS
  <2>5. t = [tasks[i] EXCEPT !.waits = @ \ {x}, !.listing = l]
    BY <1>3, <1>9, <2>1, <2>2, <2>4 DEF TaskSet
  <2>6. After(i, t)
    BY <1>9, <2>4
  <2>7. l = IF x = "files" THEN tree[conn[c].ws] ELSE tasks[i].listing
    BY <2>1, <2>2
  <2> QED  BY <1>8, <1>9, <2>1, <2>3, <2>5, <2>6, <2>7
<1>10. CASE AnswerChangeset(c)
  <2>1. r.ask = "changeset" /\ (i = 0 => UNCHANGED <<tasks, loading>>)
        /\ (i # 0 => After(i, [tasks[i] EXCEPT !.waits = @ \ {"changes"}]))
    BY <1>1, <1>10 DEF AnswerChangeset, First
  <2> QED  BY <1>5, <1>9, <2>1
<1>11. CASE AnswerTerminals(c)
  <2>1. r.ask = "terminals" /\ (i = 0 => UNCHANGED <<tasks, loading>>)
        /\ (i # 0 => After(i, [tasks[i] EXCEPT !.waits = @ \ {"terminals"}]))
    BY <1>1, <1>11 DEF AnswerTerminals, First
  <2> QED  BY <1>5, <1>9, <2>1
<1>12. CASE AnswerFiles(c)
  <2>1. r.ask = "files" /\ (i = 0 => UNCHANGED <<tasks, loading>>)
    BY <1>1, <1>12 DEF AnswerFiles, First
  <2>2. CASE i # 0
    <3>1. PICK l, x : l = tree[conn[c].ws] /\ x = "files"
      OBVIOUS
    <3>2. l \in Nat
      BY <1>2, <3>1, OldestRequest DEF AInv, WInv, Shape, WiresShape, ConnSet, LoadsShape
    <3>3. PICK t : t = [tasks[i] EXCEPT !.waits = @ \ {x}, !.listing = l]
      OBVIOUS
    <3>4. After(i, t)
      BY <1>1, <1>12, <2>2, <3>1, <3>3 DEF AnswerFiles
    <3>5. StrandOf(tasks[i].kind, "files") = x
      BY <3>1 DEF StrandOf
    <3> QED  BY <1>8, <2>1, <2>2, <3>1, <3>2, <3>3, <3>4, <3>5
  <2> QED  BY <1>5, <2>1, <2>2
<1>13. CASE Refused(c)
  <2>1. CASE UNCHANGED <<tasks, loading>>
    BY <1>5, <2>1
  <2>2. CASE i # 0 /\ r.ask = "terminals" /\ After(i, [tasks[i] EXCEPT !.waits = @ \ {"terminals"}])
    BY <1>9, <2>2
  <2>3. CASE i # 0 /\ End({i}) /\ LoadsFail({i} \cap {j \in Slots : Loading(j)})
    <3>1. UNCHANGED <<loads, files>>
      BY <2>3 DEF LoadsFail
    <3>2. \A j \in Slots : tasks'[j] = IF j = i THEN Idle ELSE tasks[j]
      BY <2>3 DEF End
    <3>3. \A j \in Slots : tasks'[j] = tasks[j] \/ \E t : tasks'[j] = t /\ NoLoad(t)
      BY <3>2, IdleNoLoad
    <3>4. ASSUME NEW w \in Workspaces, state'[w] = "loading"
          PROVE  state[w] = "loading" /\ \A j \in Slots : Ends(j, w) => tasks'[j] = tasks[j]
      <4>1. /\ state[w] = "loading"
            /\ ~\E j \in {i} \cap {j \in Slots : Loading(j)} :
                   tasks[j].ws = w /\ tasks[j].load = loads[w]
        BY <2>3, <3>4 DEF LoadsFail
      <4>2. ASSUME NEW j \in Slots, Ends(j, w) PROVE j # i
        BY <4>1, <4>2 DEF Ends
      <4> QED  BY <3>2, <4>1, <4>2
    <3>5. LInv'
      BY <1>4, <3>1, <3>3, <3>4, LoadsStay
    <3> QED  BY <1>4, <3>1, <3>5
  <2> QED  BY <1>1, <1>13, <2>1, <2>2, <2>3 DEF Refused
<1> QED  BY <1>6, <1>7, <1>10, <1>11, <1>12, <1>13 DEF Answer

LEMMA NextLInv ==
    ASSUME AInv, Shape', [Next]_vars
    PROVE  LInv' /\ \A w \in Workspaces : files[w] <= files'[w]
<1>1. CASE (\E s \in Sessions : TurnEnds(s)) \/ UNCHANGED vars
  <2>1. UNCHANGED <<tasks, loading, tree>>
    BY <1>1 DEF TurnEnds, vars
  <2> QED  BY <2>1, SameTree, OthersChange
<1>2. ASSUME NEW v \in Workspaces, TreeChanges(v)
      PROVE  LInv' /\ \A w \in Workspaces : files[w] <= files'[w]
  <2>1. UNCHANGED <<tasks, loading>> /\ tree' = [tree EXCEPT ![v] = @ + 1]
    BY <1>2 DEF TreeChanges
  <2>2. \A w \in Workspaces : tree[w] <= tree'[w]
    BY <2>1 DEF AInv, WInv, Shape, LoadsShape
  <2> QED  BY <2>1, <2>2, OthersChange
<1> QED  BY <1>1, <1>2, UserLInv, GoOnLInv, SocketLInv, AnswerLInv DEF Next

LEMMA InitAInv == Init => AInv
<1> SUFFICES ASSUME Init PROVE AInv
  OBVIOUS
<1>1. \A i \in Slots : tasks[i] = Idle
  BY DEF Init
<1>2. LoadsOk
  BY <1>1, IdleNoLoad DEF LoadsOk, LoadOk, NoLoad
<1>3. LoadsApart
  BY <1>1, IdleNoLoad DEF LoadsApart, NoLoad
<1>4. ListingsPast /\ LoadingEnds
  BY DEF Init, ListingsPast, LoadingEnds
<1> QED  BY <1>2, <1>3, <1>4, InitWInv DEF AInv, LInv

LEMMA NextAInv ==
    AInv /\ [Next]_vars => AInv' /\ \A w \in Workspaces : files[w] <= files'[w]
<1> SUFFICES ASSUME AInv, [Next]_vars
             PROVE  AInv' /\ \A w \in Workspaces : files[w] <= files'[w]
  OBVIOUS
<1>1. WInv'
  BY NextWInv DEF AInv
<1>2. Shape'
  BY <1>1 DEF WInv
<1> QED  BY <1>1, <1>2, NextLInv DEF AInv

LEMMA AInvariant == Spec => []AInv
  BY InitAInv, NextAInv, PTL DEF Spec

(* WorkspaceResourceService: however the loads of a workspace overlap, and *)
(* however many of them fail, a listing that is put on screen is no older  *)
(* than the one it takes the place of.                                     *)
THEOREM NoOlderFiles == Spec => FilesNeverGoBack
<1>1. AInv /\ [Next]_vars => [\A w \in Workspaces : files'[w] >= files[w]]_files
  <2> SUFFICES ASSUME AInv, [Next]_vars PROVE \A w \in Workspaces : files'[w] >= files[w]
    OBVIOUS
  <2>1. AInv' /\ \A w \in Workspaces : files[w] <= files'[w]
    BY NextAInv
  <2> QED  BY <2>1 DEF AInv, WInv, Shape, LoadsShape
<1> QED  BY <1>1, AInvariant, PTL DEF Spec, FilesNeverGoBack

(* AHPClient and WorkspaceResourceService: a command under way has a       *)
(* connection that is being made or a request to be answered or rejected,  *)
(* and a workspace shown as loading has a load, the newest, to end it.     *)
THEOREM NoWaitInVain == Spec => []NobodyWaitsInVain
<1>1. AInv => NobodyWaitsInVain
  <2> SUFFICES ASSUME AInv PROVE NobodyWaitsInVain
    OBVIOUS
  <2>1. ASSUME NEW i \in Slots
        PROVE  /\ tasks[i].at = "connecting" => conn[tasks[i].on].at = "connecting"
               /\ tasks[i].at = "waiting" =>
                      \E k \in DOMAIN conn[tasks[i].on].pending :
                          conn[tasks[i].on].pending[k].task = i
    <3>1. Going(tasks[i]) /\ Answerable(i)
      BY TaskFields DEF AInv, WInv, TInv, Linked, WaitersAnswerable
    <3>2. ASSUME tasks[i].at = "waiting"
          PROVE  \E k \in DOMAIN conn[tasks[i].on].pending :
                     conn[tasks[i].on].pending[k].task = i
      <4>1. PICK x : x \in tasks[i].waits
        BY <3>1, <3>2 DEF Answerable
      <4> QED  BY <3>1, <3>2, <4>1 DEF Answerable
    <3> QED  BY <3>1, <3>2 DEF Going
  <2>2. \A w \in Workspaces : state[w] = "loading" =>
           \E i \in Slots : tasks[i].ws = w /\ tasks[i].load = loads[w] /\ Loading(i)
    BY DEF AInv, LInv, LoadingEnds, Ends
  <2> QED  BY <2>1, <2>2 DEF NobodyWaitsInVain
<1> QED  BY <1>1, AInvariant, PTL

==============================================================================
